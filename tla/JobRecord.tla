------------------------------- MODULE JobRecord -------------------------------
(***************************************************************************)
(* A job as its client sees it who polls GET /jobs/:id and                 *)
(* /jobs/:id/results, with no callers, snapshots or files.  A status may   *)
(* go back and forth, because no save of the service looks at the row that *)
(* it overwrites.  What holds nevertheless: a job becomes completed once,  *)
(* in the step that grades it; no overwritten status takes the grade away; *)
(* and a job that is deleted does not come back.                           *)
(* JobLifecycle and SubmissionFiles implement this module.                 *)
(***************************************************************************)
CONSTANT Jobs          \* the job ids the database may ever allocate

VARIABLES status,      \* jobs.status, "absent" before and "deleted" after the row
          graded       \* the jobs that have a job_results row

recordVars == <<status, graded>>

Shown == {"pending", "processing", "completed", "failed", "cancelled"}

Init ==
  /\ status = [j \in Jobs |-> "absent"]
  /\ graded = {}

(* submitJob                                                               *)
Create(j) ==
  /\ status[j] = "absent"
  /\ status' = [status EXCEPT ![j] = "pending"]
  /\ UNCHANGED graded

(* dequeueNext                                                             *)
Claim(j) ==
  /\ status[j] = "pending"
  /\ status' = [status EXCEPT ![j] = "processing"]
  /\ UNCHANGED graded

(* markCompleted, which may find that the job was taken from it meanwhile. *)
Grade(j) ==
  /\ status[j] \in Shown /\ j \notin graded
  /\ status' = [status EXCEPT ![j] = "completed"]
  /\ graded' = graded \cup {j}

(* markFailed and cancelJob, whatever they overwrite.                      *)
Overwrite(j) ==
  /\ status[j] \in Shown
  /\ \E new \in {"pending", "failed", "cancelled"} :
       status' = [status EXCEPT ![j] = new]
  /\ UNCHANGED graded

(* A submission that failed is undone, or retention deletes old jobs.      *)
Delete(S) ==
  /\ \A j \in S : status[j] \in Shown
  /\ status' = [j \in Jobs |-> IF j \in S THEN "deleted" ELSE status[j]]
  /\ graded' = graded \ S

Next ==
  \/ \E j \in Jobs : Create(j) \/ Claim(j) \/ Grade(j) \/ Overwrite(j)
  \/ \E S \in SUBSET Jobs : Delete(S)

Spec == Init /\ [][Next]_recordVars
================================================================================
