------------------------------- MODULE GradingRun -------------------------------
(***************************************************************************)
(* The callers the system really has, composed with the job lifecycle:     *)
(*   Slots     the runJob activities of the dispatcher, one claimed job    *)
(*             each (dispatcher_service.ts),                               *)
(*   Sweepers  the stuck-job sweeps of timeout_service.ts,                 *)
(*   Requests  the API requests that submit or cancel a job,               *)
(* with the Kubernetes Job object they share, which is named after the job *)
(* id alone, and the job's output and payload directories.                 *)
(*                                                                         *)
(* Time is abstract: a claim may run past its timeout (PassTimeout) at any *)
(* point of its run, and a wait may give up on a pod that has not ended.   *)
(***************************************************************************)
EXTENDS JobLifecycle

CONSTANTS Slots, Sweepers, Requests,
          Artifacts      \* the files a grading pod may leave besides nothing

ASSUME CallersAssumption == Callers = Slots \cup Sweepers \cup Requests
ASSUME ArtifactsAssumption == Artifacts \subseteq {"results", "payload"}

VARIABLES run,         \* runJob of each slot
          kube,        \* the Kubernetes Job object grading-job-<id>
          output,      \* what the job's output directory holds
          payloads,    \* the jobs that have a persistent payload directory
          stuck        \* the rest of the list a sweep is working through

worldVars == <<kube, output, payloads>>

runVars == <<vars, run, worldVars, stuck>>

KubeStates == {"none", "running", "succeeded", "failed", "deleting"}

Pcs == {"idle", "load", "create", "wait", "read", "extract",
        "complete", "discard", "fail", "caught", "delete", "clean"}

(* created: podCreated; payload: extractPayloadFile moved a file.          *)
Run == [pc : Pcs, jobs : SUBSET Jobs, created : BOOLEAN, payload : BOOLEAN]

NoRun == [pc |-> "idle", jobs |-> {}, created |-> FALSE, payload |-> FALSE]

At(s, pc, j) == run[s].pc = pc /\ run[s].jobs = {j}

Jump(s, pc) == run' = [run EXCEPT ![s].pc = pc]

RunInit ==
  /\ Init
  /\ run = [s \in Slots |-> NoRun]
  /\ kube = [j \in Jobs |-> "none"]
  /\ output = [j \in Jobs |-> {}]
  /\ payloads = {}
  /\ stuck = [w \in Sweepers |-> {}]

--------------------------------------------------------------------------------
(* Mutant of MayMount: any source_path is mounted.                         *)
MayMountAnything(j) == Exists(j)

(* createGradingJob mounts source_path as the row had it when the claim was *)
(* loaded, and refuses one outside the submissions root: PENDING_UPLOAD.   *)
MayMount(j) == rows[j].stored

(* Mutant of RunClaim: the UPDATE takes a row that is being processed.     *)
RunClaimTwice(s, j) ==
  /\ run[s] = NoRun
  /\ rows[j].status \in {"pending", "processing"}
  /\ rows' = [rows EXCEPT ![j].status = "processing", ![j].started = "recent"]
  /\ run' = [run EXCEPT ![s] = [NoRun EXCEPT !.pc = "load", !.jobs = {j}]]
  /\ UNCHANGED <<results, completions, inputs, call, worldVars, stuck>>

(* runIteration: claim a job and fork runJob.  dequeueNext loads the row    *)
(* after the claim; when it is gone or the query throws, nobody runs it.   *)
RunClaim(s, j) ==
  /\ run[s] = NoRun
  /\ Claim(j)
  /\ run' = [run EXCEPT ![s] = [NoRun EXCEPT !.pc = "load", !.jobs = {j}]]
  /\ UNCHANGED <<worldVars, stuck>>

RunLoad(s, j) ==
  /\ At(s, "load", j)
  /\ \/ Exists(j) /\ Jump(s, IF MayMount(j) THEN "create" ELSE "caught")
     \/ run' = [run EXCEPT ![s] = NoRun]
  /\ UNCHANGED <<vars, worldVars, stuck>>

(* createGradingJob: the cluster refuses a name that is taken, whichever   *)
(* run of the job created the object that has it.                          *)
RunCreate(s, j) ==
  /\ At(s, "create", j)
  /\ kube[j] = "none"
  /\ kube' = [kube EXCEPT ![j] = "running"]
  /\ \/ run' = [run EXCEPT ![s].pc = "wait", ![s].created = TRUE]
     \/ Jump(s, "caught")               \* created, but the answer is lost
  /\ UNCHANGED <<vars, output, payloads, stuck>>

(* An await throws: the image configuration, the output directory or the   *)
(* cluster's refusal before the object exists, the save of worker_pod_name *)
(* after.                                                                  *)
RunThrow(s, j) ==
  /\ \E pc \in {"create", "wait"} : At(s, pc, j)
  /\ Jump(s, "caught")
  /\ UNCHANGED <<vars, worldVars, stuck>>

(* waitForJobCompletion polls the object by name.                          *)
RunSucceeded(s, j) ==
  /\ At(s, "wait", j)
  /\ kube[j] = "succeeded"
  /\ Jump(s, "read")
  /\ UNCHANGED <<vars, worldVars, stuck>>

RunFailed(s, j) ==
  /\ At(s, "wait", j)
  /\ kube[j] \in {"failed", "none"}
  /\ Jump(s, "fail")
  /\ UNCHANGED <<vars, worldVars, stuck>>

(* The hard deadline: delete the object, which may fail, and give up.      *)
RunDeadline(s, j) ==
  /\ At(s, "wait", j)
  /\ kube[j] \in {"running", "deleting"}
  /\ \E k \in {kube[j], "deleting"} : kube' = [kube EXCEPT ![j] = k]
  /\ Jump(s, "fail")
  /\ UNCHANGED <<vars, output, payloads, stuck>>

(* handleSuccessfulRun: readResults, then extractPayloadFile.              *)
RunRead(s, j) ==
  /\ At(s, "read", j)
  /\ Jump(s, IF "results" \in output[j] THEN "extract" ELSE "fail")
  /\ UNCHANGED <<vars, worldVars, stuck>>

RunExtract(s, j) ==
  /\ At(s, "extract", j)
  /\ \/ /\ "payload" \in output[j]
        /\ output' = [output EXCEPT ![j] = @ \ {"payload"}]
        /\ payloads' = payloads \cup {j}
        /\ run' = [run EXCEPT ![s].pc = "complete", ![s].payload = TRUE]
     \/ /\ Jump(s, "complete")          \* none, too large, or not movable
        /\ UNCHANGED <<output, payloads>>
  /\ UNCHANGED <<vars, kube, stuck>>

--------------------------------------------------------------------------------
(* markCompleted as runJob calls it.                                       *)
RunComplete(s, j) ==
  /\ At(s, "complete", j)
  /\ \/ CompleteRead(s, j) /\ UNCHANGED run
     \/ /\ call[s] = Idle
        /\ rows[j].status # "processing"
        /\ Jump(s, "delete")
        /\ UNCHANGED vars
     \/ CompleteCommit(s, j) /\ Jump(s, "delete")
     \/ /\ Abort(s, j)
        /\ Jump(s, IF run[s].payload THEN "discard" ELSE "caught")
  /\ UNCHANGED <<worldVars, stuck>>

(* markCompleted threw: remove the payload this run extracted and rethrow. *)
RunDiscard(s, j) ==
  /\ At(s, "discard", j)
  /\ payloads' = payloads \ {j}
  /\ Jump(s, "caught")
  /\ UNCHANGED <<vars, kube, output, stuck>>

(* markFailed as runJob calls it: an error it throws in the try block is   *)
(* caught and markFailed called again, one in the catch block is logged.   *)
RunMarkFailed(s, j) ==
  /\ \E pc \in {"fail", "caught"} : At(s, pc, j)
  /\ \/ FailRead(s, j) /\ UNCHANGED run
     \/ /\ call[s] = Idle
        /\ rows[j].status \notin Existing \ {"completed"}
        /\ Jump(s, "delete")
        /\ UNCHANGED vars
     \/ FailSave(s, j) /\ Jump(s, "delete")
     \/ Abort(s, j) /\ Jump(s, IF run[s].pc = "fail" THEN "caught" ELSE "delete")
  /\ UNCHANGED <<worldVars, stuck>>

(* The finally block: deleteJob by name if this run created the object,    *)
(* which may fail, find nothing or be switched off for debugging, then     *)
(* cleanupSubmission in any case.                                          *)
RunDelete(s, j) ==
  /\ At(s, "delete", j)
  /\ kube' = IF run[s].created /\ kube[j] # "none"
             THEN [kube EXCEPT ![j] = "deleting"] ELSE kube
  /\ Jump(s, "clean")
  /\ UNCHANGED <<vars, output, payloads, stuck>>

RunDeleteFails(s, j) ==
  /\ At(s, "delete", j)
  /\ run[s].created
  /\ Jump(s, "clean")
  /\ UNCHANGED <<vars, worldVars, stuck>>

RunClean(s, j) ==
  /\ At(s, "clean", j)
  /\ CleanupSubmission(j)
  /\ output' = [output EXCEPT ![j] = {}]
  /\ run' = [run EXCEPT ![s] = NoRun]
  /\ UNCHANGED <<kube, payloads, stuck>>

(* The dispatcher's process dies with every job it runs.                   *)
DispatcherCrash ==
  /\ \E s \in Slots : run[s] # NoRun
  /\ run' = [s \in Slots |-> NoRun]
  /\ call' = [c \in Callers |-> IF c \in Slots THEN Idle ELSE call[c]]
  /\ UNCHANGED <<rows, results, completions, inputs, worldVars, stuck>>

--------------------------------------------------------------------------------
(* The cluster, as the code relies on it: a pod ends with or without       *)
(* results, activeDeadlineSeconds fails one that does not, and an object   *)
(* that ended or is being deleted goes away (ttlSecondsAfterFinished).     *)
PodSucceeds(j) ==
  /\ kube[j] = "running"
  /\ kube' = [kube EXCEPT ![j] = "succeeded"]
  /\ \E files \in SUBSET Artifacts :
       output' = [output EXCEPT ![j] = @ \cup files]
  /\ UNCHANGED <<vars, run, payloads, stuck>>

PodFails(j) ==
  /\ kube[j] = "running"
  /\ kube' = [kube EXCEPT ![j] = "failed"]
  /\ UNCHANGED <<vars, run, output, payloads, stuck>>

KubeForgets(j) ==
  /\ kube[j] \in {"succeeded", "failed", "deleting"}
  /\ kube' = [kube EXCEPT ![j] = "none"]
  /\ UNCHANGED <<vars, run, output, payloads, stuck>>

--------------------------------------------------------------------------------
(* detectStuckJobs: one query, then markFailed for each job of the list;   *)
(* an error it throws ends the sweep.                                      *)
SweepSelect(w) ==
  LET list == {j \in Jobs : rows[j].status = "processing"
                            /\ rows[j].started = "overdue"} IN
  /\ stuck[w] = {}
  /\ call[w] = Idle
  /\ list # {}
  /\ stuck' = [stuck EXCEPT ![w] = list]
  /\ UNCHANGED <<vars, run, worldVars>>

SweepRead(w, j) ==
  /\ j \in stuck[w]
  /\ FailRead(w, j)
  /\ UNCHANGED <<run, worldVars, stuck>>

SweepSkip(w, j) ==
  /\ j \in stuck[w]
  /\ call[w] = Idle
  /\ rows[j].status \notin Existing \ {"completed"}
  /\ stuck' = [stuck EXCEPT ![w] = @ \ {j}]
  /\ UNCHANGED <<vars, run, worldVars>>

SweepSave(w, j) ==
  /\ FailSave(w, j)
  /\ stuck' = [stuck EXCEPT ![w] = @ \ {j}]
  /\ UNCHANGED <<run, worldVars>>

SweepAbort(w, j) ==
  /\ Abort(w, j)
  /\ stuck' = [stuck EXCEPT ![w] = {}]
  /\ UNCHANGED <<run, worldVars>>

(* An API request: submitJob or cancelJob from start to end.  Both end in  *)
(* cleanupSubmission, which takes the output directory with it.            *)
Request(u, j) ==
  /\ Submit(u, j) \/ Cancel(u, j) \/ (u \in Requests /\ Abort(u, j))
  /\ output' = [output EXCEPT ![j] =
                 IF In(u, "undo", j) \/ In(u, "purge", j) THEN {} ELSE @]
  /\ UNCHANGED <<run, kube, payloads, stuck>>

(* The API's process dies with the requests and the sweep it was serving.  *)
ApiCrash ==
  /\ Crash(Requests \cup Sweepers)
  /\ stuck' = [w \in Sweepers |-> {}]
  /\ UNCHANGED <<run, worldVars>>

--------------------------------------------------------------------------------
RunJob(s, j) ==
  \/ RunLoad(s, j)
  \/ RunCreate(s, j)
  \/ RunThrow(s, j)
  \/ RunSucceeded(s, j)
  \/ RunFailed(s, j)
  \/ RunDeadline(s, j)
  \/ RunRead(s, j)
  \/ RunExtract(s, j)
  \/ RunComplete(s, j)
  \/ RunDiscard(s, j)
  \/ RunMarkFailed(s, j)
  \/ RunDelete(s, j)
  \/ RunDeleteFails(s, j)
  \/ RunClean(s, j)

Sweep(w, j) ==
  \/ SweepRead(w, j)
  \/ SweepSkip(w, j)
  \/ SweepSave(w, j)
  \/ SweepAbort(w, j)

Cluster(j) == PodSucceeds(j) \/ PodFails(j) \/ KubeForgets(j)

TimePasses(j) == PassTimeout(j) /\ UNCHANGED <<run, worldVars, stuck>>

RunNext ==
  \/ \E s \in Slots, j \in Jobs : RunClaim(s, j) \/ RunJob(s, j)
  \/ \E j \in Jobs : Cluster(j) \/ TimePasses(j)
  \/ \E w \in Sweepers : SweepSelect(w) \/ \E j \in Jobs : Sweep(w, j)
  \/ \E u \in Requests, j \in Jobs : Request(u, j)
  \/ DispatcherCrash
  \/ ApiCrash

RunSpec == RunInit /\ [][RunNext]_runVars

(* A running dispatcher polls the queue and drives the runs it has; the    *)
(* sweep's interval fires again and again, in every process.  Time passes. *)
(* The sweep needs strong fairness: its calls may fail and its process may *)
(* restart, but not every time at the same await.                          *)
RunFairness ==
  /\ \A j \in Jobs :
       /\ WF_runVars(\E s \in Slots : RunClaim(s, j))
       /\ WF_runVars(TimePasses(j))
  /\ \A s \in Slots : WF_runVars(\E j \in Jobs : RunJob(s, j))
  /\ \A w \in Sweepers :
       /\ WF_runVars(SweepSelect(w))
       /\ SF_runVars(\E j \in Jobs : SweepRead(w, j))
       /\ SF_runVars(\E j \in Jobs : SweepSkip(w, j))
       /\ SF_runVars(\E j \in Jobs : SweepSave(w, j))

FairRunSpec == RunSpec /\ RunFairness

--------------------------------------------------------------------------------
RunTypeOK ==
  /\ TypeOK
  /\ run \in [Slots -> Run]
  /\ kube \in [Jobs -> KubeStates]
  /\ output \in [Jobs -> SUBSET Artifacts]
  /\ payloads \in SUBSET Jobs
  /\ stuck \in [Sweepers -> SUBSET Jobs]

(* No grade without an upload: although a job can be claimed before its    *)
(* files are there, a grade is only ever recorded for a job whose          *)
(* submission was stored, because the pod of such a claim is never made.   *)
GradedWasUploaded ==
  \A j \in Jobs : results[j] = "stored" => rows[j].stored

(* A job that is being processed by nobody, whose start no sweep can find: *)
(* detectStuckJobs asks for rows whose started_at is not null.             *)
Forgotten(j) ==
  /\ rows[j].status = "processing" /\ rows[j].started = "null"
  /\ ~Busy(j)
  /\ \A s \in Slots : j \notin run[s].jobs
  /\ \A w \in Sweepers : j \notin stuck[w]

(* A submitted job comes to an end, or its submission is undone, whatever  *)
(* crashes and however its run, a sweep and the client overlap: a run that *)
(* was lost is found by the sweep, and the retries of one job run out.     *)
(* The one exception is a job that is forgotten.  One run and one sweep    *)
(* do not forget a job; two sweeps do, and AbandonedJobIsSeen shows it.    *)
EveryJobSettles ==
  \A j \in Jobs :
    rows[j].status = "pending"
      ~> rows[j].status \in Terminal \cup {"deleted"} \/ Forgotten(j)

(* A job that was abandoned stays processing, and the timeout service will *)
(* mark it failed: so it has to have a start that the sweep can find.      *)
AbandonedJobIsSeen == \A j \in Jobs : ~Forgotten(j)

(* Only a pending job can be cancelled: a job that was dequeued while the  *)
(* request was between its check and its save is not.                      *)
OnlyPendingIsCancelled ==
  [][\A j \in Jobs : rows[j].status # "cancelled" /\ rows'[j].status = "cancelled"
                     => rows[j].status = "pending"]_runVars

(* markFailed leaves a completed job alone: it is not put back into the    *)
(* queue by a failure that was decided before it completed.                *)
CompletedIsNotRetried ==
  [][\A j \in Jobs : rows[j].status = "completed"
                     => rows'[j].status \notin {"pending", "failed"}]_runVars

(* A job that went back into the queue can be graded: its submission is    *)
(* still on disk while it waits.                                           *)
RetriedJobHasItsFiles ==
  \A j \in Jobs : /\ rows[j].status = "pending" /\ rows[j].retries > 0
                  /\ rows[j].stored /\ ~Busy(j)
                  => j \in inputs
================================================================================
