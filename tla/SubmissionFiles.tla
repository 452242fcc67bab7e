----------------------------- MODULE SubmissionFiles -----------------------------
(***************************************************************************)
(* The volume and the rows it has to agree with: the submission directory  *)
(* of each job (input/ and output/) and its payload directory, under the   *)
(* uploads, runs, cancellations, cleanup timers and downloads that touch   *)
(* them (file_service.ts, cleanup_service.ts, jobs_controller.ts and the   *)
(* callers of the file service).                                           *)
(*                                                                         *)
(* No lock covers a directory.  What keeps it from being removed too early *)
(* is the order of the steps: a row before its directory, a query between  *)
(* two listings, rows before files.  The stale saves of the lifecycle      *)
(* service are JobLifecycle's subject; here only the stuck-job sweep acts  *)
(* on an old list, so that two runs of one job can overlap.                *)
(***************************************************************************)
EXTENDS Integers, FiniteSets

CONSTANTS Jobs,
          Parts,       \* how many files a submission, or its zip, has
          MaxRetries,
          Requests,    \* API requests that submit or cancel
          Slots,       \* runJob activities
          Processes,   \* processes, each with its cleanup timers
          Readers      \* API requests that download a payload

ASSUME PartsAssumption == Parts \in Nat \ {0}
ASSUME RetriesAssumption == MaxRetries \in Nat

VARIABLES rows,        \* the row of each job, with its job_results columns
          dirs,        \* {submissions}/{id}
          payloads,    \* the jobs with a file in {payloads}/{id}
          request, run, sweep, retain, stuck, reader,  \* the actors' frames
          past         \* what happened to a job's files: history only

disk == <<dirs, payloads>>
actors == <<request, run, sweep, retain, stuck, reader>>
vars == <<rows, disk, actors, past>>

Active == {"pending", "processing"}
Terminal == {"completed", "failed", "cancelled"}
Existing == Active \cup Terminal

(* stored: source_path is saved; ended: completed_at is not null; result:  *)
(* no job_results row, one without and one with a payload_path.            *)
Row == [status : Existing \cup {"absent", "deleted"}, retries : 0..MaxRetries,
        stored : BOOLEAN, ended : BOOLEAN, result : {"none", "plain", "payload"}]

BlankRow(status) == [status |-> status, retries |-> 0, stored |-> FALSE,
                     ended |-> FALSE, result |-> "none"]

Artifacts == {"results", "payload"}

Dir == [made : BOOLEAN, input : 0..Parts, output : SUBSET Artifacts]

NoDir == [made |-> FALSE, input |-> 0, output |-> {}]

Frame(pcs) == [pc : pcs, jobs : SUBSET Jobs]

Idle == [pc |-> "idle", jobs |-> {}]

RequestPcs == {"idle", "mkdir", "put", "save", "count", "broken", "undo",
               "delete", "cancel", "purge"}
RunPcs == {"idle", "load", "prepare", "refuse", "wait", "read", "extract", "complete",
           "commit", "discard", "fail", "clean"}

(* left: the files a request has still to store; payload: a run's          *)
(* extractPayloadFile moved a file.                                        *)
Request == [pc : RequestPcs, jobs : SUBSET Jobs, left : 0..Parts]

Run == [pc : RunPcs, jobs : SUBSET Jobs, payload : BOOLEAN]

NoRequest == [pc |-> "idle", jobs |-> {}, left |-> 0]

NoRun == [pc |-> "idle", jobs |-> {}, payload |-> FALSE]

Exists(j) == rows[j].status \in Existing

At(f, pc, j) == f.pc = pc /\ f.jobs = {j}

(* A call that was working on j when the job ended is still doing so.      *)
Busy(j) == \/ \E u \in Requests : j \in request[u].jobs
           \/ \E s \in Slots : j \in run[s].jobs
           \/ \E p \in Processes : j \in stuck[p]

Ask(u, pc) == request' = [request EXCEPT ![u].pc = pc]

AskNothing(u) == request' = [request EXCEPT ![u] = NoRequest]

Jump(s, pc) == run' = [run EXCEPT ![s].pc = pc]

(* Mutant of Update: a row that is gone is written again.                  *)
Upsert(j, new) == rows' = [rows EXCEPT ![j] = new]

Update(j, new) == rows' = IF Exists(j) THEN [rows EXCEPT ![j] = new] ELSE rows

(* cleanupSubmission and removeJobDirectoryBestEffort: rm -r, and an error *)
(* is only logged.  released: a run, a cancellation or an undo gave up the *)
(* files, although the job may be put back into the queue later.           *)
Remove(j) == \E kept \in {NoDir, dirs[j]} : dirs' = [dirs EXCEPT ![j] = kept]

Release(j) == Remove(j) /\ past' = [past EXCEPT !.released = @ \cup {j}]

(* cleanupPayload, which only logs errors too.                             *)
RemovePayload(j) ==
  \E removed \in SUBSET {j} : payloads' = payloads \ removed

Init ==
  /\ rows = [j \in Jobs |-> BlankRow("absent")]
  /\ dirs = [j \in Jobs |-> NoDir]
  /\ payloads = {}
  /\ request = [u \in Requests |-> NoRequest]
  /\ run = [s \in Slots |-> NoRun]
  /\ sweep = [p \in Processes |-> Idle]
  /\ retain = [p \in Processes |-> Idle]
  /\ stuck = [p \in Processes |-> {}]
  /\ reader = [r \in Readers |-> Idle]
  /\ past = [released |-> {}, exposed |-> {}, contested |-> {}]

--------------------------------------------------------------------------------
(* submitJob: the row exists, and is active, before its directory.         *)
SubmitCreate(u, j) ==
  /\ request[u] = NoRequest
  /\ rows[j].status = "absent"
  /\ rows' = [rows EXCEPT ![j] = BlankRow("pending")]
  /\ request' = [request EXCEPT ![u] = [pc |-> "mkdir", jobs |-> {j},
                                               left |-> Parts]]
  /\ UNCHANGED <<disk, run, sweep, retain, stuck, reader, past>>

(* A sweep that has listed the volume but will list it again.              *)
BetweenListings == \E p \in Processes : sweep[p].pc \in {"query", "list"}

(* Who makes the directory of j now exposes it to such a sweep.            *)
Expose(j) ==
  past' = IF BetweenListings /\ ~dirs[j].made
          THEN [past EXCEPT !.exposed = @ \cup {j}] ELSE past

(* storeSubmissionFiles: the input directory.                              *)
UploadMkdir(u, j) ==
  /\ At(request[u], "mkdir", j)
  /\ dirs' = [dirs EXCEPT ![j].made = TRUE]
  /\ Expose(j)
  /\ Ask(u, "put")
  /\ UNCHANGED <<rows, payloads, run, sweep, retain, stuck, reader>>

(* One file is moved, or one zip entry written; either creates a directory *)
(* that is missing by then.                                                *)
UploadPart(u, j) ==
  /\ At(request[u], "put", j)
  /\ request[u].left > 0
  /\ dirs' = [dirs EXCEPT ![j].made = TRUE, ![j].input = @ + 1]
  /\ request' = [request EXCEPT ![u].left = @ - 1]
  /\ UNCHANGED <<rows, payloads, run, sweep, retain, stuck, reader, past>>

UploadEnd(u, j) ==
  /\ At(request[u], "put", j)
  /\ request[u].left = 0
  /\ Ask(u, "save")
  /\ UNCHANGED <<rows, disk, run, sweep, retain, stuck, reader, past>>

(* An invalid, duplicate or oversized file, a zip that is too large or     *)
(* that has an entry which is refused, a full disk.                        *)
UploadThrow(u, j) ==
  /\ \E pc \in {"mkdir", "put"} : At(request[u], pc, j)
  /\ Ask(u, "broken")
  /\ UNCHANGED <<rows, disk, run, sweep, retain, stuck, reader, past>>

UploadRemove(u, j) ==
  /\ At(request[u], "broken", j)
  /\ Remove(j)
  /\ Ask(u, "undo")
  /\ UNCHANGED <<rows, payloads, run, sweep, retain, stuck, reader, past>>

(* job.sourcePath is saved, or the save throws.                            *)
SubmitSave(u, j) ==
  /\ At(request[u], "save", j)
  /\ \/ Update(j, [rows[j] EXCEPT !.stored = TRUE]) /\ Ask(u, "count")
     \/ UNCHANGED rows /\ Ask(u, "undo")
  /\ UNCHANGED <<disk, run, sweep, retain, stuck, reader, past>>

(* countJobsAhead answers and the job is accepted, or it throws.           *)
SubmitReturn(u, j) ==
  /\ At(request[u], "count", j)
  /\ AskNothing(u) \/ Ask(u, "undo")
  /\ UNCHANGED <<rows, disk, run, sweep, retain, stuck, reader, past>>

SubmitUndo(u, j) ==
  /\ At(request[u], "undo", j)
  /\ Release(j)
  /\ Ask(u, "delete")
  /\ UNCHANGED <<rows, payloads, run, sweep, retain, stuck, reader>>

SubmitDelete(u, j) ==
  /\ At(request[u], "delete", j)
  /\ Update(j, BlankRow("deleted"))
  /\ AskNothing(u)
  /\ UNCHANGED <<disk, run, sweep, retain, stuck, reader, past>>

--------------------------------------------------------------------------------
(* cancelJob: the check, the save and cleanupSubmission.                   *)
CancelRead(u, j) ==
  /\ request[u] = NoRequest
  /\ rows[j].status = "pending"
  /\ request' = [request EXCEPT ![u] = [pc |-> "cancel", jobs |-> {j},
                                               left |-> 0]]
  /\ UNCHANGED <<rows, disk, run, sweep, retain, stuck, reader, past>>

CancelSave(u, j) ==
  /\ At(request[u], "cancel", j)
  /\ Update(j, [rows[j] EXCEPT !.status = "cancelled"])
  /\ past' = [past EXCEPT !.released = @ \cup {j}]
  /\ Ask(u, "purge")
  /\ UNCHANGED <<disk, run, sweep, retain, stuck, reader>>

CancelPurge(u, j) ==
  /\ At(request[u], "purge", j)
  /\ Release(j)
  /\ AskNothing(u)
  /\ UNCHANGED <<rows, payloads, run, sweep, retain, stuck, reader>>

--------------------------------------------------------------------------------
(* runJob.  contested: the job is claimed while another run of it is alive *)
(* or although it has a result already.                                    *)
RunClaim(s, j) ==
  /\ run[s] = NoRun
  /\ rows[j].status = "pending"
  /\ rows' = [rows EXCEPT ![j].status = "processing"]
  /\ run' = [run EXCEPT ![s] = [NoRun EXCEPT !.pc = "load", !.jobs = {j}]]
  /\ past' = IF rows[j].result # "none" \/ \E t \in Slots : j \in run[t].jobs
             THEN [past EXCEPT !.contested = @ \cup {j}] ELSE past
  /\ UNCHANGED <<disk, request, sweep, retain, stuck, reader>>

(* The claimed row is loaded, unless it is gone by now.                    *)
RunLoad(s, j) ==
  /\ At(run[s], "load", j)
  /\ run' = [run EXCEPT ![s] =
              IF Exists(j) THEN [@ EXCEPT !.pc = IF rows[j].stored THEN "prepare"
                                                                   ELSE "refuse"]
                           ELSE NoRun]
  /\ UNCHANGED <<rows, disk, request, sweep, retain, stuck, reader, past>>

(* prepareOutputDirectory creates output/ and what is missing above it;    *)
(* createGradingJob then refuses a row whose source_path was not saved.    *)
RunPrepare(s, j) ==
  /\ \/ At(run[s], "prepare", j) /\ \E pc \in {"wait", "fail"} : Jump(s, pc)
     \/ At(run[s], "refuse", j) /\ Jump(s, "fail")
  /\ \/ dirs' = [dirs EXCEPT ![j].made = TRUE] /\ Expose(j)
     \/ UNCHANGED <<dirs, past>> /\ run'[s].pc = "fail"
  /\ UNCHANGED <<rows, payloads, request, sweep, retain, stuck, reader>>

(* The pod ends and leaves files behind, or it fails.                      *)
RunWait(s, j) ==
  /\ At(run[s], "wait", j)
  /\ \/ \E files \in (SUBSET Artifacts) \ {{}} :
          /\ dirs' = [dirs EXCEPT ![j].made = TRUE, ![j].output = @ \cup files]
          /\ Jump(s, "read")
     \/ UNCHANGED dirs /\ \E pc \in {"read", "fail"} : Jump(s, pc)
  /\ UNCHANGED <<rows, payloads, request, sweep, retain, stuck, reader, past>>

(* readResults: results.json is missing, empty or malformed, or it is read.*)
RunRead(s, j) ==
  /\ At(run[s], "read", j)
  /\ \/ "results" \in dirs[j].output /\ Jump(s, "extract")
     \/ Jump(s, "fail")
  /\ UNCHANGED <<rows, disk, request, sweep, retain, stuck, reader, past>>

--------------------------------------------------------------------------------
(* The largest file is moved to the payload directory...                   *)
ExtractMoves(s, j) ==
  /\ "payload" \in dirs[j].output
  /\ dirs' = [dirs EXCEPT ![j].output = @ \ {"payload"}]
  /\ payloads' = payloads \cup {j}
  /\ run' = [run EXCEPT ![s].pc = "complete", ![s].payload = TRUE]

(* ... or mkdir or rename fails, or the copy that stands in for a rename   *)
(* across devices, which removes its target again ...                      *)
ExtractFails(s, j) ==
  /\ "payload" \in dirs[j].output
  /\ \E removed \in SUBSET {j} : payloads' = payloads \ removed
  /\ Jump(s, "complete")
  /\ UNCHANGED dirs

(* ... or there is no candidate, or one whose size or name is refused.     *)
ExtractNothing(s, j) == Jump(s, "complete") /\ UNCHANGED disk

(* extractPayloadFile                                                      *)
RunExtract(s, j) ==
  /\ At(run[s], "extract", j)
  /\ ExtractMoves(s, j) \/ ExtractFails(s, j) \/ ExtractNothing(s, j)
  /\ UNCHANGED <<rows, request, sweep, retain, stuck, reader, past>>

(* Where an error of markCompleted leads.                                  *)
Thrown(s) == IF run[s].payload THEN "discard" ELSE "fail"

(* markCompleted: the check, which returns silently or throws, then the    *)
(* transaction, which UNIQUE(job_id) aborts when there is a result.        *)
RunComplete(s, j) ==
  /\ At(run[s], "complete", j)
  /\ \E pc \in {IF rows[j].status = "processing" THEN "commit" ELSE "clean", Thrown(s)} :
       Jump(s, pc)
  /\ UNCHANGED <<rows, disk, request, sweep, retain, stuck, reader, past>>

RunCommit(s, j) ==
  /\ At(run[s], "commit", j)
  /\ Exists(j) /\ rows[j].result = "none"
  /\ rows' = [rows EXCEPT ![j].status = "completed", ![j].ended = TRUE,
                ![j].result = IF run[s].payload THEN "payload" ELSE "plain"]
  /\ Jump(s, "clean")
  /\ UNCHANGED <<disk, request, sweep, retain, stuck, reader, past>>

RunAbort(s, j) ==
  /\ At(run[s], "commit", j)
  /\ Jump(s, Thrown(s))
  /\ UNCHANGED <<rows, disk, request, sweep, retain, stuck, reader, past>>

(* handleSuccessfulRun removes the payload directory when it threw.        *)
RunDiscard(s, j) ==
  /\ At(run[s], "discard", j)
  /\ RemovePayload(j)
  /\ Jump(s, "fail")
  /\ UNCHANGED <<rows, dirs, request, sweep, retain, stuck, reader, past>>

(* Mutant of MarkedFailed: one retry more than max_retries.                *)
MarkedFailedLater(row) ==
  IF row.retries <= MaxRetries
  THEN [row EXCEPT !.status = "pending", !.retries = @ + 1]
  ELSE [row EXCEPT !.status = "failed", !.ended = TRUE]

(* What markFailed saves: back into the queue, or the end.                 *)
MarkedFailed(row) ==
  IF row.retries < MaxRetries
  THEN [row EXCEPT !.status = "pending", !.retries = @ + 1]
  ELSE [row EXCEPT !.status = "failed", !.ended = TRUE]

RunFail(s, j) ==
  /\ At(run[s], "fail", j)
  /\ \/ rows[j].status # "completed" /\ Update(j, MarkedFailed(rows[j]))
     \/ UNCHANGED rows                  \* completed or gone, or it throws
  /\ Jump(s, "clean")
  /\ UNCHANGED <<disk, request, sweep, retain, stuck, reader, past>>

(* The finally block: cleanupSubmission whatever the outcome was.          *)
RunClean(s, j) ==
  /\ At(run[s], "clean", j)
  /\ Release(j)
  /\ run' = [run EXCEPT ![s] = NoRun]
  /\ UNCHANGED <<rows, payloads, request, sweep, retain, stuck, reader>>

(* detectStuckJobs takes the job for lost and puts it back on a row that   *)
(* may have changed meanwhile.                                             *)
StuckRead(p, j) ==
  /\ stuck[p] = {}
  /\ rows[j].status = "processing"
  /\ stuck' = [stuck EXCEPT ![p] = {j}]
  /\ UNCHANGED <<rows, disk, request, run, sweep, retain, reader, past>>

StuckSave(p, j) ==
  /\ stuck[p] = {j}
  /\ stuck' = [stuck EXCEPT ![p] = {}]
  /\ Update(j, MarkedFailed(rows[j]))
  /\ UNCHANGED <<disk, request, run, sweep, retain, reader, past>>

--------------------------------------------------------------------------------
(* cleanupOrphanedFiles: list the volume, ask which of these jobs are      *)
(* active, list it again (cleanupOrphanedDirectories) and remove every     *)
(* directory that was not in the answer.  The early return on an empty     *)
(* volume is left out: jobs that are not followed here have directories.   *)
SweepList(p) ==
  /\ sweep[p] = Idle
  /\ sweep' = [sweep EXCEPT ![p] = [pc |-> "query", jobs |-> {j \in Jobs : dirs[j].made}]]
  /\ UNCHANGED <<rows, disk, request, run, retain, stuck, reader, past>>

(* A job that has ended when a sweep asks is exposed to it, too.           *)
Answered(p) ==
  past' = [past EXCEPT !.exposed = @ \cup {j \in sweep[p].jobs : rows[j].status \in Terminal}]

(* Mutants of SweepQuery: the status filter dropped, a status forgotten.   *)
SweepQueryRows(p) ==
  /\ sweep[p].pc = "query"
  /\ sweep' = [sweep EXCEPT ![p] = [pc |-> "list",
                  jobs |-> {j \in sweep[p].jobs : Exists(j)}]]
  /\ Answered(p)
  /\ UNCHANGED <<rows, disk, request, run, retain, stuck, reader>>

SweepQueryRunning(p) ==
  /\ sweep[p].pc = "query"
  /\ sweep' = [sweep EXCEPT ![p] = [pc |-> "list",
                  jobs |-> {j \in sweep[p].jobs : rows[j].status = "processing"}]]
  /\ Answered(p)
  /\ UNCHANGED <<rows, disk, request, run, retain, stuck, reader>>

SweepQuery(p) ==
  /\ sweep[p].pc = "query"
  /\ sweep' = [sweep EXCEPT ![p] = [pc |-> "list",
                  jobs |-> {j \in sweep[p].jobs : rows[j].status \in Active}]]
  /\ Answered(p)
  /\ UNCHANGED <<rows, disk, request, run, retain, stuck, reader>>

SweepListAgain(p) ==
  LET rest == {j \in Jobs : dirs[j].made} \ sweep[p].jobs IN
  /\ sweep[p].pc = "list"
  /\ sweep' = [sweep EXCEPT ![p] = IF rest = {} THEN Idle
                                   ELSE [pc |-> "remove", jobs |-> rest]]
  /\ UNCHANGED <<rows, disk, request, run, retain, stuck, reader, past>>

SweepRemove(p, j) ==
  LET rest == sweep[p].jobs \ {j} IN
  /\ sweep[p].pc = "remove"
  /\ j \in sweep[p].jobs
  /\ dirs' = [dirs EXCEPT ![j] = NoDir]
  /\ sweep' = [sweep EXCEPT ![p] = IF rest = {} THEN Idle ELSE [@ EXCEPT !.jobs = rest]]
  /\ UNCHANGED <<rows, payloads, request, run, retain, stuck, reader, past>>

(* The query, the listing or one rm throws: nothing after it is removed.   *)
SweepThrow(p) ==
  /\ sweep[p] # Idle
  /\ sweep' = [sweep EXCEPT ![p] = Idle]
  /\ UNCHANGED <<rows, disk, request, run, retain, stuck, reader, past>>

--------------------------------------------------------------------------------
(* cleanupOldJobs: select ids, delete the rows, then each job's files.     *)
(* A cancelled row has no completed_at and is never selected.              *)
RetainSelect(p) ==
  /\ retain[p] = Idle
  /\ \E S \in (SUBSET {j \in Jobs : rows[j].status \in Terminal
                                  /\ rows[j].ended /\ ~Busy(j)}) \ {{}} :
       retain' = [retain EXCEPT ![p] = [pc |-> "delete", jobs |-> S]]
  /\ UNCHANGED <<rows, disk, request, run, sweep, stuck, reader, past>>

(* Mutant of RetainDelete: the payload files before the rows.              *)
RetainFilesFirst(p) ==
  /\ retain[p].pc = "delete"
  /\ retain' = [retain EXCEPT ![p].pc = "tidy"]
  /\ payloads' = payloads \ retain[p].jobs
  /\ UNCHANGED <<rows, dirs, request, run, sweep, stuck, reader, past>>

RetainDelete(p) ==
  /\ retain[p].pc = "delete"
  /\ retain' = [retain EXCEPT ![p].pc = "tidy"]
  /\ rows' = [j \in Jobs |-> IF j \in retain[p].jobs /\ Exists(j)
                             THEN BlankRow("deleted") ELSE rows[j]]
  /\ UNCHANGED <<disk, request, run, sweep, stuck, reader, past>>

RetainTidy(p, j) ==
  LET rest == retain[p].jobs \ {j} IN
  /\ retain[p].pc = "tidy"
  /\ j \in retain[p].jobs
  /\ Remove(j)
  /\ RemovePayload(j)
  /\ retain' = [retain EXCEPT ![p] = IF rest = {} THEN Idle ELSE [@ EXCEPT !.jobs = rest]]
  /\ UNCHANGED <<rows, request, run, sweep, stuck, reader, past>>

--------------------------------------------------------------------------------
(* GET /jobs/:id/payload: the job, its result, the file, the stream.  A    *)
(* job that is not completed, or has no payload_path, is answered at once. *)
PayloadFind(r, j) ==
  /\ reader[r] = Idle
  /\ rows[j].status = "completed"
  /\ reader' = [reader EXCEPT ![r] = [pc |-> "result", jobs |-> {j}]]
  /\ UNCHANGED <<rows, disk, request, run, sweep, retain, stuck, past>>

(* Mutant of PayloadResult: payload_path is not looked at.                 *)
PayloadResultUnread(r, j) ==
  /\ At(reader[r], "result", j)
  /\ reader' = [reader EXCEPT ![r].pc = "stat"]
  /\ UNCHANGED <<rows, disk, request, run, sweep, retain, stuck, past>>

PayloadResult(r, j) ==
  /\ At(reader[r], "result", j)
  /\ reader' = [reader EXCEPT ![r] = IF rows[j].result = "payload"
                                     THEN [@ EXCEPT !.pc = "stat"] ELSE Idle]
  /\ UNCHANGED <<rows, disk, request, run, sweep, retain, stuck, past>>

(* lstat or realpath finds the file, and it is streamed ...                *)
PayloadServed(r, j) ==
  /\ At(reader[r], "stat", j)
  /\ j \in payloads
  /\ reader' = [reader EXCEPT ![r] = Idle]
  /\ UNCHANGED <<rows, disk, request, run, sweep, retain, stuck, past>>

(* ... or it is not there: PAYLOAD_DELETED.                                *)
PayloadDeleted(r, j) ==
  /\ At(reader[r], "stat", j)
  /\ j \notin payloads
  /\ reader' = [reader EXCEPT ![r] = Idle]
  /\ UNCHANGED <<rows, disk, request, run, sweep, retain, stuck, past>>

--------------------------------------------------------------------------------
(* The two processes die with what they are doing.                         *)
ApiCrash ==
  /\ request' = [u \in Requests |-> NoRequest]
  /\ reader' = [r \in Readers |-> Idle]
  /\ sweep' = [p \in Processes |-> Idle]
  /\ retain' = [p \in Processes |-> Idle]
  /\ stuck' = [p \in Processes |-> {}]
  /\ UNCHANGED <<rows, disk, run, past>>

DispatcherCrash ==
  /\ run' = [s \in Slots |-> NoRun]
  /\ UNCHANGED <<rows, disk, request, sweep, retain, stuck, reader, past>>

Submit(u, j) ==
  \/ SubmitCreate(u, j)
  \/ UploadMkdir(u, j)
  \/ UploadPart(u, j)
  \/ UploadEnd(u, j)
  \/ UploadThrow(u, j)
  \/ UploadRemove(u, j)
  \/ SubmitSave(u, j)
  \/ SubmitReturn(u, j)
  \/ SubmitUndo(u, j)
  \/ SubmitDelete(u, j)

Cancel(u, j) == CancelRead(u, j) \/ CancelSave(u, j) \/ CancelPurge(u, j)

RunJob(s, j) ==
  \/ RunClaim(s, j)
  \/ RunLoad(s, j)
  \/ RunPrepare(s, j)
  \/ RunWait(s, j)
  \/ RunRead(s, j)
  \/ RunExtract(s, j)
  \/ RunComplete(s, j)
  \/ RunCommit(s, j)
  \/ RunAbort(s, j)
  \/ RunDiscard(s, j)
  \/ RunFail(s, j)
  \/ RunClean(s, j)

Sweep(p) ==
  \/ SweepList(p)
  \/ SweepQuery(p)
  \/ SweepListAgain(p)
  \/ \E j \in Jobs : SweepRemove(p, j)
  \/ SweepThrow(p)

Retain(p) ==
  RetainSelect(p) \/ RetainDelete(p) \/ \E j \in Jobs : RetainTidy(p, j)

Download(r, j) ==
  \/ PayloadFind(r, j)
  \/ PayloadResult(r, j)
  \/ PayloadServed(r, j)
  \/ PayloadDeleted(r, j)

Next ==
  \/ \E u \in Requests, j \in Jobs : Submit(u, j) \/ Cancel(u, j)
  \/ \E s \in Slots, j \in Jobs : RunJob(s, j)
  \/ \E p \in Processes : Sweep(p) \/ Retain(p)
  \/ \E p \in Processes, j \in Jobs : StuckRead(p, j) \/ StuckSave(p, j)
  \/ \E r \in Readers, j \in Jobs : Download(r, j)
  \/ ApiCrash
  \/ DispatcherCrash

(* The cleanup timer of a running process fires for ever, and no error and *)
(* no restart hits the same await of the sweep every time.                 *)
Fairness ==
  \A p \in Processes :
    /\ WF_vars(SweepList(p))
    /\ SF_vars(SweepQuery(p))
    /\ SF_vars(SweepListAgain(p))
    /\ \A j \in Jobs : SF_vars(SweepRemove(p, j))

Spec == Init /\ [][Next]_vars

FairSpec == Spec /\ Fairness

--------------------------------------------------------------------------------
TypeOK ==
  /\ rows \in [Jobs -> Row]
  /\ dirs \in [Jobs -> Dir]
  /\ payloads \in SUBSET Jobs
  /\ request \in [Requests -> Request]
  /\ run \in [Slots -> Run]
  /\ sweep \in [Processes -> Frame({"idle", "query", "list", "remove"})]
  /\ retain \in [Processes -> Frame({"idle", "delete", "tidy"})]
  /\ stuck \in [Processes -> SUBSET Jobs]
  /\ reader \in [Readers -> Frame({"idle", "result", "stat"})]
  /\ past \in [released : SUBSET Jobs, exposed : SUBSET Jobs, contested : SUBSET Jobs]

(* The submission of a job that waits or runs is on disk, and whole: no    *)
(* sweep, late cleanup or failed upload takes a file of it.  The three     *)
(* exceptions are the whole list: a run, a cancellation or an undo has     *)
(* released the files; the directory was made, by the upload or by a run   *)
(* that had claimed the job early, while a sweep of cleanupOrphanedFiles   *)
(* was between its two listings; or the job had ended when a sweep asked,  *)
(* and the stale save of a stuck-job sweep put it back into the queue.     *)
SubmissionIsWhole ==
  \A j \in Jobs : /\ rows[j].status \in Active
                 /\ rows[j].stored
                 /\ j \notin past.released \cup past.exposed
                 => dirs[j].input = Parts

(* A payload that the result of a completed job names is on disk until     *)
(* retention has deleted the row: copies that fail, aborted transactions   *)
(* and crashes between the move and the commit included.  The only         *)
(* exception is a contested job: claimed while another run of it was alive *)
(* or although it had a result, so that a second run may remove the file.  *)
RecordedPayloadIsThere ==
  \A j \in Jobs \ past.contested :
    rows[j].status = "completed" /\ rows[j].result = "payload"
      => j \in payloads

(* A download is answered with PAYLOAD_DELETED only when that is so for    *)
(* good: the job itself is gone by then, not merely its file.  A contested *)
(* job is the exception here too: its second run may remove the file while *)
(* the completed row stays.                                                *)
DeletedPayloadIsGone ==
  [][\A r \in Readers, j \in Jobs \ past.contested :
       PayloadDeleted(r, j) => rows[j].status = "deleted"]_vars

(* Runs, sweeps, uploads and retention, which work on the rows one await   *)
(* at a time, show a client the same life of a job as the lifecycle        *)
(* service by itself: no completed row without its result in the same      *)
(* step, none that reappears.                                              *)
Record == INSTANCE JobRecord WITH status <- [j \in Jobs |-> rows[j].status],
                                  graded <- {j \in Jobs : rows[j].result # "none"}

RecordSpec == Record!Spec

(* No directory is left for ever: whatever crashed, failed or lost a race, *)
(* the directory of a job that is not active is removed in the end.        *)
EveryDirectoryGoes ==
  \A j \in Jobs : dirs[j].made /\ rows[j].status \notin Active
                 ~> ~dirs[j].made \/ rows[j].status \in Active
================================================================================
