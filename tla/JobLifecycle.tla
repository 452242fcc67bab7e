------------------------------ MODULE JobLifecycle ------------------------------
(***************************************************************************)
(* The rows of jobs and job_results, the image's completion counter and    *)
(* the submission directories, under the service calls that change them:   *)
(* job_lifecycle_service.ts, the claim of hrrn_strategy.ts and             *)
(* cleanupOldJobs of cleanup_service.ts.                                   *)
(*                                                                         *)
(* Every call is a sequence of awaits.  One that reads a row, decides and  *)
(* saves it later is a read step that keeps the row it saw in the caller's *)
(* frame and a write step that uses that snapshot; the ORM's save() writes *)
(* the columns that differ from the snapshot and has no condition on the   *)
(* row it overwrites.  Any caller may make any call at any time here;      *)
(* GradingRun says which callers the system really has.                    *)
(***************************************************************************)
EXTENDS Integers, FiniteSets

CONSTANTS Jobs,        \* the job ids the database may ever allocate
          Callers,       \* the activities that may be inside a service call
          MaxRetries     \* max_retries of the jobs' image configuration

ASSUME JobsAssumption == IsFiniteSet(Jobs)
ASSUME MaxRetriesAssumption == MaxRetries \in Nat

VARIABLES rows,        \* the row of each job
          results,     \* job_results: "none", "stored", or "purged" with its job
          completions, \* total_completed_jobs of the image configuration
          inputs,      \* the jobs whose submission directory holds the upload
          call         \* what each caller is in the middle of

vars == <<rows, results, completions, inputs, call>>

Terminal == {"completed", "failed", "cancelled"}
Existing == {"pending", "processing"} \cup Terminal
Statuses == {"absent", "deleted"} \cup Existing

(* stored: source_path names the upload and no longer says PENDING_UPLOAD. *)
(* started: started_at, recent or past the job's timeout and grace period. *)
(* ended: completed_at is not null.                                        *)
Row == [status : Statuses, retries : 0..MaxRetries, stored : BOOLEAN,
        started : {"null", "recent", "overdue"}, ended : BOOLEAN]

BlankRow(status) ==
  [status |-> status, retries |-> 0, stored |-> FALSE,
   started |-> "null", ended |-> FALSE]

NoRow == BlankRow("absent")

Ops == {"none", "upload", "save", "count", "undo", "delete", "complete",
        "fail", "cancel", "purge", "retain", "tidy"}

(* snap: what the call remembers of the row it read.                       *)
Frame == [op : Ops, jobs : SUBSET Jobs, snap : Row]

Idle == [op |-> "none", jobs |-> {}, snap |-> NoRow]

Exists(j) == rows[j].status \in Existing

In(c, op, j) == call[c].op = op /\ call[c].jobs = {j}

Busy(j) == \E c \in Callers : j \in call[c].jobs

Enter(c, op, j, snap) ==
  call' = [call EXCEPT ![c] = [op |-> op, jobs |-> {j}, snap |-> snap]]

Goto(c, op) == call' = [call EXCEPT ![c].op = op]

Return(c) == call' = [call EXCEPT ![c] = Idle]

(* Mutant of Update: a row that is gone is written again.                  *)
Upsert(j, new) == rows' = [rows EXCEPT ![j] = new]

(* UPDATE jobs ... WHERE job_id = j: no row, no effect and no error.       *)
Update(j, new) == rows' = IF Exists(j) THEN [rows EXCEPT ![j] = new] ELSE rows

(* Mutant of DeleteRows: the row goes and its id can be allocated again.   *)
DeleteRowsReuse(S) ==
  /\ rows' = [j \in Jobs |-> IF j \in S THEN NoRow ELSE rows[j]]
  /\ results' = [j \in Jobs |-> IF j \in S THEN "none" ELSE results[j]]

(* DELETE FROM jobs: the foreign keys cascade to job_results.              *)
DeleteRows(S) ==
  LET gone == {j \in S : Exists(j)} IN
  /\ rows' = [j \in Jobs |-> IF j \in gone THEN BlankRow("deleted") ELSE rows[j]]
  /\ results' = [j \in Jobs |-> IF j \in gone /\ results[j] = "stored"
                                THEN "purged" ELSE results[j]]

Init ==
  /\ rows = [j \in Jobs |-> NoRow]
  /\ results = [j \in Jobs |-> "none"]
  /\ completions = 0
  /\ inputs = {}
  /\ call = [c \in Callers |-> Idle]

--------------------------------------------------------------------------------
(* submitJob: the row is created first, because the database allocates the *)
(* job id; it is claimable from then on.                                   *)
SubmitCreate(c, j) ==
  /\ call[c] = Idle
  /\ rows[j].status = "absent"
  /\ rows' = [rows EXCEPT ![j] = BlankRow("pending")]
  /\ Enter(c, "upload", j, NoRow)
  /\ UNCHANGED <<results, completions, inputs>>

(* storeSubmissionFiles                                                    *)
SubmitUpload(c, j) ==
  /\ In(c, "upload", j)
  /\ inputs' = inputs \cup {j}
  /\ Goto(c, "save")
  /\ UNCHANGED <<rows, results, completions>>

(* job.sourcePath = sourcePath; job.save()                                 *)
SubmitSave(c, j) ==
  /\ In(c, "save", j)
  /\ Update(j, [rows[j] EXCEPT !.stored = TRUE])
  /\ Goto(c, "count")
  /\ UNCHANGED <<results, completions, inputs>>

(* countJobsAhead answers and submitJob returns.                           *)
SubmitReturn(c, j) ==
  /\ In(c, "count", j)
  /\ Return(c)
  /\ UNCHANGED <<rows, results, completions, inputs>>

(* The upload, the save or the count throws; a failed upload has removed   *)
(* the job's directory before it throws.                                   *)
SubmitThrow(c, j) ==
  /\ \E op \in {"upload", "save", "count"} : In(c, op, j)
  /\ inputs' = IF call[c].op = "upload" THEN inputs \ {j} ELSE inputs
  /\ Goto(c, "undo")
  /\ UNCHANGED <<rows, results, completions>>

(* The catch block: cleanupSubmission, then job.delete().                  *)
SubmitUndo(c, j) ==
  /\ In(c, "undo", j)
  /\ inputs' = inputs \ {j}
  /\ Goto(c, "delete")
  /\ UNCHANGED <<rows, results, completions>>

SubmitDelete(c, j) ==
  /\ In(c, "delete", j)
  /\ DeleteRows({j})
  /\ Return(c)
  /\ UNCHANGED <<completions, inputs>>

--------------------------------------------------------------------------------
(* dequeueNext: one UPDATE claims a pending row, and SKIP LOCKED keeps two *)
(* dispatchers off the same row.  Which pending row is HrrnQueue's matter. *)
Claim(j) ==
  /\ rows[j].status = "pending"
  /\ rows' = [rows EXCEPT ![j].status = "processing", ![j].started = "recent"]
  /\ UNCHANGED <<results, completions, inputs, call>>

(* Wall-clock time runs past the timeout and the grace period.             *)
PassTimeout(j) ==
  /\ rows[j].status = "processing"
  /\ rows[j].started = "recent"
  /\ rows' = [rows EXCEPT ![j].started = "overdue"]
  /\ UNCHANGED <<results, completions, inputs, call>>

--------------------------------------------------------------------------------
(* markCompleted reads the row and skips one that is not processing.       *)
CompleteRead(c, j) ==
  /\ call[c] = Idle
  /\ rows[j].status = "processing"
  /\ Enter(c, "complete", j, BlankRow(rows[j].status))
  /\ UNCHANGED <<rows, results, completions, inputs>>

(* Mutant of CanCommit: job_results.job_id without its UNIQUE constraint.  *)
CanCommitAgain(j) == Exists(j)

(* The transaction: the save does not look at the status again, but the    *)
(* insert violates UNIQUE(job_id) when there is a result and the foreign   *)
(* key when there is no row; either aborts the whole transaction.          *)
CanCommit(j) == Exists(j) /\ results[j] = "none"

CompleteCommit(c, j) ==
  /\ In(c, "complete", j)
  /\ CanCommit(j)
  /\ rows' = [rows EXCEPT ![j].status = "completed", ![j].ended = TRUE]
  /\ results' = [results EXCEPT ![j] = "stored"]
  /\ completions' = completions + 1
  /\ Return(c)
  /\ UNCHANGED inputs

(* Mutant of Abort: the save of markCompleted outside the transaction.     *)
AbortKeepingSave(c, j) ==
  /\ \E op \in {"complete", "fail", "cancel"} : In(c, op, j)
  /\ Update(j, IF call[c].op = "complete"
               THEN [rows[j] EXCEPT !.status = "completed", !.ended = TRUE]
               ELSE rows[j])
  /\ Return(c)
  /\ UNCHANGED <<results, completions, inputs>>

(* A constraint or the database aborts the call in flight, which throws.   *)
Abort(c, j) ==
  /\ \E op \in {"complete", "fail", "cancel"} : In(c, op, j)
  /\ Return(c)
  /\ UNCHANGED <<rows, results, completions, inputs>>

--------------------------------------------------------------------------------
(* What markFailed's save compares its assignments with.                   *)
Snapshot(row) == [row EXCEPT !.stored = FALSE, !.ended = FALSE]

(* Mutant of FailRead: a completed job is not skipped.                     *)
FailReadAny(c, j) ==
  /\ call[c] = Idle
  /\ Exists(j)
  /\ Enter(c, "fail", j, Snapshot(rows[j]))
  /\ UNCHANGED <<rows, results, completions, inputs>>

(* markFailed reads the row and skips only one that is completed.          *)
FailRead(c, j) ==
  /\ call[c] = Idle
  /\ Exists(j)
  /\ rows[j].status # "completed"
  /\ Enter(c, "fail", j, Snapshot(rows[j]))
  /\ UNCHANGED <<rows, results, completions, inputs>>

(* Mutants of Requeued and MayRetry: completed_at cleared along with       *)
(* started_at, the retry not counted, one retry too many.                  *)
RequeuedAfresh(row, snap) ==
  [row EXCEPT !.status = IF snap.status = "pending" THEN @ ELSE "pending",
              !.retries = snap.retries + 1,
              !.started = IF snap.started = "null" THEN @ ELSE "null",
              !.ended = FALSE]

RequeuedUncounted(row, snap) ==
  [row EXCEPT !.status = IF snap.status = "pending" THEN @ ELSE "pending",
              !.started = IF snap.started = "null" THEN @ ELSE "null"]

MayRetryOnceMore(snap) == snap.retries <= MaxRetries

MayRetry(snap) == snap.retries < MaxRetries

(* The columns markFailed saves: those its assignments made differ from    *)
(* the snapshot.                                                           *)
Requeued(row, snap) ==
  [row EXCEPT !.status = IF snap.status = "pending" THEN @ ELSE "pending",
              !.retries = snap.retries + 1,
              !.started = IF snap.started = "null" THEN @ ELSE "null"]

Failed(row, snap) ==
  [row EXCEPT !.status = IF snap.status = "failed" THEN @ ELSE "failed",
              !.ended = TRUE]

FailSave(c, j) ==
  LET snap == call[c].snap IN
  /\ In(c, "fail", j)
  /\ Update(j, IF MayRetry(snap) THEN Requeued(rows[j], snap)
                                 ELSE Failed(rows[j], snap))
  /\ Return(c)
  /\ UNCHANGED <<results, completions, inputs>>

--------------------------------------------------------------------------------
(* cancelJob refuses a job that is not pending, saves the status and then  *)
(* removes the submission directory.                                       *)
CancelRead(c, j) ==
  /\ call[c] = Idle
  /\ rows[j].status = "pending"
  /\ Enter(c, "cancel", j, BlankRow(rows[j].status))
  /\ UNCHANGED <<rows, results, completions, inputs>>

CancelSave(c, j) ==
  /\ In(c, "cancel", j)
  /\ Update(j, [rows[j] EXCEPT !.status = "cancelled"])
  /\ Goto(c, "purge")
  /\ UNCHANGED <<results, completions, inputs>>

CancelPurge(c, j) ==
  /\ In(c, "purge", j)
  /\ inputs' = inputs \ {j}
  /\ Return(c)
  /\ UNCHANGED <<rows, results, completions>>

--------------------------------------------------------------------------------
(* cleanupOldJobs: the ids are selected first and deleted later, without a *)
(* second look at the rows.  No call that was inside a service when the    *)
(* job ended is still there days later: ~Busy stands for the cutoff.       *)
RetainSelect(c, S) ==
  /\ call[c] = Idle
  /\ S # {}
  /\ \A j \in S : rows[j].status \in Terminal /\ rows[j].ended /\ ~Busy(j)
  /\ call' = [call EXCEPT ![c] = [op |-> "retain", jobs |-> S, snap |-> NoRow]]
  /\ UNCHANGED <<rows, results, completions, inputs>>

RetainDelete(c) ==
  /\ call[c].op = "retain"
  /\ DeleteRows(call[c].jobs)
  /\ Goto(c, "tidy")
  /\ UNCHANGED <<completions, inputs>>

RetainTidy(c) ==
  /\ call[c].op = "tidy"
  /\ inputs' = inputs \ call[c].jobs
  /\ Return(c)
  /\ UNCHANGED <<rows, results, completions>>

(* The dispatcher and the orphan sweep remove directories too.             *)
CleanupSubmission(j) ==
  /\ inputs' = inputs \ {j}
  /\ UNCHANGED <<rows, results, completions, call>>

(* A process dies in the middle of the calls C it is making.               *)
Crash(C) ==
  /\ \E c \in C : call[c] # Idle
  /\ call' = [c \in Callers |-> IF c \in C THEN Idle ELSE call[c]]
  /\ UNCHANGED <<rows, results, completions, inputs>>

--------------------------------------------------------------------------------
Submit(c, j) ==
  \/ SubmitCreate(c, j)
  \/ SubmitUpload(c, j)
  \/ SubmitSave(c, j)
  \/ SubmitReturn(c, j)
  \/ SubmitThrow(c, j)
  \/ SubmitUndo(c, j)
  \/ SubmitDelete(c, j)

MarkCompleted(c, j) == CompleteRead(c, j) \/ CompleteCommit(c, j)

MarkFailed(c, j) == FailRead(c, j) \/ FailSave(c, j)

Cancel(c, j) == CancelRead(c, j) \/ CancelSave(c, j) \/ CancelPurge(c, j)

Retain(c) ==
  \/ \E S \in SUBSET Jobs : RetainSelect(c, S)
  \/ RetainDelete(c)
  \/ RetainTidy(c)

Next ==
  \/ \E j \in Jobs : Claim(j) \/ PassTimeout(j) \/ CleanupSubmission(j)
  \/ \E c \in Callers, j \in Jobs :
       \/ Submit(c, j)
       \/ MarkCompleted(c, j)
       \/ MarkFailed(c, j)
       \/ Cancel(c, j)
       \/ Abort(c, j)
  \/ \E c \in Callers : Retain(c)
  \/ \E C \in SUBSET Callers : Crash(C)

Spec == Init /\ [][Next]_vars

--------------------------------------------------------------------------------
Graded == {j \in Jobs : results[j] # "none"}

(* Every variable has the type the tables give it.                         *)
TypeOK ==
  /\ rows \in [Jobs -> Row]
  /\ results \in [Jobs -> {"none", "stored", "purged"}]
  /\ completions \in Nat
  /\ inputs \in SUBSET Jobs
  /\ call \in [Callers -> Frame]

(* A job shown as completed has its grade: whatever calls overlap, no      *)
(* interleaving of the unconditional saves of markFailed, markCompleted    *)
(* and cancelJob leaves a completed row without a job_results row.         *)
CompletedHasResult ==
  \A j \in Jobs : rows[j].status = "completed" => results[j] = "stored"

(* The image's statistics count a graded job once, even when two attempts  *)
(* of one job complete it, when a completed row is put back into the queue *)
(* and run again, or when the row is deleted by retention.                 *)
CountedOnce == completions = Cardinality(Graded)

(* Retention can find every job that was completed or failed for good:     *)
(* cleanupOldJobs filters on completed_at, which no stale save clears.     *)
(* Cancelled rows are left out: cancelJob does not set the column.         *)
FinishedRowsExpire ==
  \A j \in Jobs : rows[j].status \in {"completed", "failed"} => rows[j].ended

(* What the service decides about a row that it has just read.             *)
Decisions ==
  {<<"absent", "pending">>, <<"pending", "processing">>, <<"pending", "cancelled">>,
   <<"processing", "completed">>}
  \cup (Existing \ {"completed"}) \X {"pending", "failed"}
  \cup Existing \X {"deleted"}

(* Only a stale read breaks the life of a job: where a status changes in   *)
(* any other way - a grade taken back, a running job cancelled, a cancelled*)
(* one completed - the caller that saves it had read another status than   *)
(* the one it overwrites.  Saves conditional on the status would do.       *)
OverwritesAreStale ==
  [][\A j \in Jobs :
       \/ rows'[j].status = rows[j].status
       \/ <<rows[j].status, rows'[j].status>> \in Decisions
       \/ \E c \in Callers, op \in {"complete", "fail", "cancel"} :
            /\ In(c, op, j) /\ call'[c] # call[c]
            /\ call[c].snap.status # rows[j].status]_vars

(* The service implements the ledger of grades.                            *)
Ledger == INSTANCE GradeLedger WITH graded <- Graded, counted <- completions

LedgerSpec == Ledger!Spec

(* To a client that polls it, a job becomes completed once and in the step *)
(* that grades it, and never reappears after its deletion.                 *)
Record == INSTANCE JobRecord WITH status <- [j \in Jobs |-> rows[j].status],
                                  graded <- {j \in Jobs : results[j] = "stored"}

RecordSpec == Record!Spec
================================================================================
