----------------------------- MODULE GradingProofs -----------------------------
(***************************************************************************)
(* GradingRun for every set of jobs, slots, sweeps and requests: the       *)
(* callers the system has do only what JobLifecycle allows, so that all    *)
(* its theorems hold of them, and no job is graded that was not uploaded.  *)
(***************************************************************************)
EXTENDS GradingRun, JobLifecycleProofs

(* The upload of j is on record, or j is gone for good.                    *)
Kept(j) == (Exists(j) /\ rows[j].stored) \/ rows[j].status = "deleted"

(* Where a run is that loaded a row whose upload was on record.            *)
Mounted == {"create", "wait", "read", "extract", "complete"}

MountedWasUploaded ==
  \A s \in Slots, j \in Jobs : run[s].jobs = {j} /\ run[s].pc \in Mounted => Kept(j)

ResultWasUploaded == \A j \in Jobs : results[j] = "stored" => Kept(j)

World ==
  /\ run \in [Slots -> Run]
  /\ kube \in [Jobs -> KubeStates]
  /\ output \in [Jobs -> SUBSET Artifacts]
  /\ payloads \in SUBSET Jobs
  /\ stuck \in [Sweepers -> SUBSET Jobs]

RunInv == Inv /\ World /\ MountedWasUploaded /\ ResultWasUploaded

--------------------------------------------------------------------------------
(* Every step of the composition is one of the lifecycle or leaves it.     *)

(* A step of a run is a step of JobLifecycle or leaves its tables alone.   *)
LEMMA RunStepsRefine ==
  ASSUME NEW s \in Slots, NEW j \in Jobs, RunClaim(s, j) \/ RunJob(s, j)
  PROVE  [Next]_vars
<1>1. s \in Callers
  BY CallersAssumption
<1>2. CASE RunClaim(s, j)
  BY <1>2 DEF RunClaim, Next
<1>3. CASE RunComplete(s, j)
  BY <1>1, <1>3 DEF RunComplete, Next, MarkCompleted
<1>4. CASE RunMarkFailed(s, j)
  BY <1>1, <1>4 DEF RunMarkFailed, Next, MarkFailed
<1>5. CASE RunClean(s, j)
  BY <1>5 DEF RunClean, Next
<1>6. CASE \/ RunLoad(s, j) \/ RunCreate(s, j) \/ RunThrow(s, j) \/ RunSucceeded(s, j)
           \/ RunFailed(s, j) \/ RunDeadline(s, j) \/ RunRead(s, j) \/ RunExtract(s, j)
           \/ RunDiscard(s, j) \/ RunDelete(s, j) \/ RunDeleteFails(s, j)
  BY <1>6 DEF RunLoad, RunCreate, RunThrow, RunSucceeded, RunFailed, RunDeadline, RunRead,
              RunExtract, RunDiscard, RunDelete, RunDeleteFails
<1> QED
  BY <1>2, <1>3, <1>4, <1>5, <1>6 DEF RunJob

(* A process that dies in none of its calls leaves the lifecycle as it is. *)
LEMMA CrashRefines ==
  ASSUME TypeOK, NEW C \in SUBSET Callers,
         call' = [c \in Callers |-> IF c \in C THEN Idle ELSE call[c]],
         UNCHANGED <<rows, results, completions, inputs>>
  PROVE  [Next]_vars
<1>1. CASE \E c \in C : call[c] # Idle
  BY <1>1 DEF Crash, Next
<1>2. CASE \A c \in C : call[c] = Idle
  <2>1. call' = call
    BY <1>2 DEF TypeOK
  <2> QED
    BY <2>1 DEF vars
<1> QED
  BY <1>1, <1>2

(* Every step of the composition is one of JobLifecycle or a stutter.      *)
LEMMA StepRefines == TypeOK /\ [RunNext]_runVars => [Next]_vars
<1> SUFFICES ASSUME TypeOK, [RunNext]_runVars PROVE [Next]_vars
  OBVIOUS
<1>1. ASSUME NEW s \in Slots, NEW j \in Jobs, RunClaim(s, j) \/ RunJob(s, j)
      PROVE  [Next]_vars
  BY <1>1, RunStepsRefine
<1>2. ASSUME NEW j \in Jobs, Cluster(j) \/ TimePasses(j) PROVE [Next]_vars
  <2>1. CASE Cluster(j)
    BY <2>1 DEF Cluster, PodSucceeds, PodFails, KubeForgets
  <2>2. CASE TimePasses(j)
    BY <2>2 DEF TimePasses, Next
  <2> QED
    BY <1>2, <2>1, <2>2
<1>3. ASSUME NEW w \in Sweepers, SweepSelect(w) PROVE [Next]_vars
  BY <1>3 DEF SweepSelect
<1>4. ASSUME NEW w \in Sweepers, NEW j \in Jobs, Sweep(w, j) PROVE [Next]_vars
  <2>1. w \in Callers
    BY CallersAssumption
  <2>2. CASE SweepRead(w, j) \/ SweepSave(w, j)
    BY <2>1, <2>2 DEF SweepRead, SweepSave, Next, MarkFailed
  <2>3. CASE SweepAbort(w, j)
    BY <2>1, <2>3 DEF SweepAbort, Next
  <2>4. CASE SweepSkip(w, j)
    BY <2>4 DEF SweepSkip
  <2> QED
    BY <1>4, <2>2, <2>3, <2>4 DEF Sweep
<1>5. ASSUME NEW u \in Requests, NEW j \in Jobs, Request(u, j) PROVE [Next]_vars
  <2>1. u \in Callers
    BY CallersAssumption
  <2> QED
    BY <1>5, <2>1 DEF Request, Next
<1>6. CASE DispatcherCrash
  <2>1. Slots \in SUBSET Callers
    BY CallersAssumption
  <2> QED
    BY <1>6, <2>1, CrashRefines DEF DispatcherCrash
<1>7. CASE ApiCrash
  <2>1. Requests \cup Sweepers \in SUBSET Callers
    BY CallersAssumption
  <2> QED
    BY <1>7, <2>1 DEF ApiCrash, Next
<1>8. CASE UNCHANGED runVars
  BY <1>8 DEF runVars, vars
<1> QED
  BY <1>1, <1>2, <1>3, <1>4, <1>5, <1>6, <1>7, <1>8 DEF RunNext

--------------------------------------------------------------------------------
(* No step of the lifecycle takes an upload off the record, save with the  *)
(* row, whose id is not used again.                                        *)
LEMMA KeptForGood ==
  ASSUME Inv, [Next]_vars, NEW j \in Jobs, Kept(j)
  PROVE  Kept(j)'
<1>1. TypeOK
  BY DEF Inv
<1> USE DEF Kept, Exists, Existing, Terminal
<1>2. ASSUME NEW i \in Jobs, NEW new, Update(i, new),
             i = j /\ Exists(j) => new.stored = rows[j].stored /\ new.status \in Existing
      PROVE  Kept(j)'
  BY <1>1, <1>2 DEF Update, TypeOK
<1>3. ASSUME NEW S \in SUBSET Jobs, DeleteRows(S) PROVE Kept(j)'
  BY <1>1, <1>3 DEF DeleteRows, BlankRow, TypeOK
<1>4. ASSUME NEW i \in Jobs, Claim(i) \/ PassTimeout(i) \/ CleanupSubmission(i)
      PROVE  Kept(j)'
  BY <1>1, <1>4 DEF Claim, PassTimeout, CleanupSubmission, TypeOK, Row
<1>5. ASSUME NEW c \in Callers, NEW i \in Jobs, Submit(c, i) PROVE Kept(j)'
  <2>1. CASE SubmitCreate(c, i)
    BY <1>1, <2>1 DEF SubmitCreate, TypeOK
  <2>2. CASE SubmitSave(c, i)
    BY <1>1, <2>2 DEF SubmitSave, Update, TypeOK, Row
  <2>3. CASE SubmitDelete(c, i)
    BY <2>3, <1>3 DEF SubmitDelete
  <2>4. CASE SubmitUpload(c, i) \/ SubmitReturn(c, i) \/ SubmitThrow(c, i) \/ SubmitUndo(c, i)
    BY <2>4 DEF SubmitUpload, SubmitReturn, SubmitThrow, SubmitUndo
  <2> QED
    BY <1>5, <2>1, <2>2, <2>3, <2>4 DEF Submit
<1>6. ASSUME NEW c \in Callers, NEW i \in Jobs, MarkCompleted(c, i) \/ Abort(c, i)
      PROVE  Kept(j)'
  <2>1. CASE CompleteCommit(c, i)
    BY <1>1, <2>1 DEF CompleteCommit, CanCommit, TypeOK, Row
  <2>2. CASE CompleteRead(c, i) \/ Abort(c, i)
    BY <2>2 DEF CompleteRead, Abort
  <2> QED
    BY <1>6, <2>1, <2>2 DEF MarkCompleted
<1>7. ASSUME NEW c \in Callers, NEW i \in Jobs, MarkFailed(c, i) PROVE Kept(j)'
  <2>1. CASE FailRead(c, i)
    BY <2>1 DEF FailRead
  <2>2. CASE FailSave(c, i)
    <3>1. Exists(i) => /\ Requeued(rows[i], call[c].snap).stored = rows[i].stored
                       /\ Requeued(rows[i], call[c].snap).status \in Existing
                       /\ Failed(rows[i], call[c].snap).stored = rows[i].stored
                       /\ Failed(rows[i], call[c].snap).status \in Existing
      BY <1>1 DEF Requeued, Failed, TypeOK, Row
    <3> QED
      BY <2>2, <3>1, <1>2 DEF FailSave
  <2> QED
    BY <1>7, <2>1, <2>2 DEF MarkFailed
<1>8. ASSUME NEW c \in Callers, NEW i \in Jobs, Cancel(c, i) PROVE Kept(j)'
  <2>1. CASE CancelSave(c, i)
    BY <1>1, <2>1 DEF CancelSave, Update, TypeOK, Row
  <2>2. CASE CancelRead(c, i) \/ CancelPurge(c, i)
    BY <2>2 DEF CancelRead, CancelPurge
  <2> QED
    BY <1>8, <2>1, <2>2 DEF Cancel
<1>9. ASSUME NEW c \in Callers, Retain(c) PROVE Kept(j)'
  <2>1. CASE RetainDelete(c)
    <3>1. call[c].jobs \in SUBSET Jobs
      BY <1>1 DEF TypeOK, Frame
    <3> QED
      BY <2>1, <3>1, <1>3 DEF RetainDelete
  <2>2. CASE (\E S \in SUBSET Jobs : RetainSelect(c, S)) \/ RetainTidy(c)
    BY <2>2 DEF RetainSelect, RetainTidy
  <2> QED
    BY <1>9, <2>1, <2>2 DEF Retain
<1>10. ASSUME NEW C \in SUBSET Callers, Crash(C) PROVE Kept(j)'
  BY <1>10 DEF Crash
<1>11. CASE UNCHANGED vars
  BY <1>11 DEF vars
<1> QED
  BY <1>4, <1>5, <1>6, <1>7, <1>8, <1>9, <1>10, <1>11 DEF Next

(* Only a commit stores a result.                                          *)
LEMMA OnlyCommitsStore ==
  ASSUME Inv, [RunNext]_runVars, NEW j \in Jobs, results'[j] = "stored"
  PROVE  results[j] = "stored" \/ \E s \in Slots : At(s, "complete", j)
<1>1. TypeOK
  BY DEF Inv
<1>2. ASSUME NEW S, DeleteRows(S) PROVE results[j] = "stored"
  BY <1>2 DEF DeleteRows
<1>3. ASSUME NEW s \in Slots, NEW i \in Jobs, RunClaim(s, i) \/ RunJob(s, i)
      PROVE  results[j] = "stored" \/ At(s, "complete", j)
  <2>1. CASE RunComplete(s, i)
    <3>1. CASE CompleteCommit(s, i)
      BY <1>1, <2>1, <3>1 DEF RunComplete, CompleteCommit, TypeOK
    <3>2. CASE UNCHANGED results
      BY <3>2
    <3> QED
      BY <2>1, <3>1, <3>2 DEF RunComplete, CompleteRead, Abort, vars
  <2>2. CASE ~RunComplete(s, i)
    <3>1. UNCHANGED results
      BY <1>3, <2>2 DEF RunClaim, Claim, RunJob, RunLoad, RunCreate, RunThrow, RunSucceeded,
         RunFailed, RunDeadline, RunRead, RunExtract, RunDiscard, RunMarkFailed, FailRead,
         FailSave, Abort, RunDelete, RunDeleteFails, RunClean, CleanupSubmission, vars
    <3> QED
      BY <3>1
  <2> QED
    BY <2>1, <2>2
<1>4. ASSUME NEW u \in Requests, NEW i \in Jobs, Request(u, i) PROVE results[j] = "stored"
  <2>1. CASE SubmitDelete(u, i)
    BY <2>1, <1>2 DEF SubmitDelete
  <2>2. CASE ~SubmitDelete(u, i)
    <3>1. UNCHANGED results
      BY <1>4, <2>2 DEF Request, Submit, SubmitCreate, SubmitUpload, SubmitSave,
         SubmitReturn, SubmitThrow, SubmitUndo, Cancel, CancelRead, CancelSave,
         CancelPurge, Abort
    <3> QED
      BY <3>1
  <2> QED
    BY <2>1, <2>2
<1>5. ASSUME NEW w \in Sweepers, NEW i \in Jobs, SweepSelect(w) \/ Sweep(w, i)
      PROVE  results[j] = "stored"
  BY <1>5 DEF SweepSelect, Sweep, SweepRead, FailRead, SweepSkip, SweepSave, FailSave,
              SweepAbort, Abort, vars
<1>6. ASSUME NEW i \in Jobs, Cluster(i) \/ TimePasses(i) PROVE results[j] = "stored"
  BY <1>6 DEF Cluster, PodSucceeds, PodFails, KubeForgets, TimePasses, PassTimeout, vars
<1>7. CASE DispatcherCrash \/ ApiCrash \/ UNCHANGED runVars
  BY <1>7 DEF DispatcherCrash, ApiCrash, Crash, runVars, vars
<1>8. ASSUME NEW w \in Sweepers, SweepSelect(w) PROVE results[j] = "stored"
  BY <1>8 DEF SweepSelect, vars
<1> QED
  BY <1>3, <1>4, <1>5, <1>6, <1>7, <1>8 DEF RunNext

--------------------------------------------------------------------------------
(* The invariant holds before the first job.                               *)
LEMMA InitRunInv == RunInit => RunInv
<1> SUFFICES ASSUME RunInit PROVE RunInv
  OBVIOUS
<1>1. Inv
  BY InvInit DEF RunInit
<1>2. World
  BY DEF RunInit, World, Run, NoRun, Pcs, KubeStates
<1>3. MountedWasUploaded /\ ResultWasUploaded
  BY DEF RunInit, Init, MountedWasUploaded, ResultWasUploaded, Mounted, NoRun
<1> QED
  BY <1>1, <1>2, <1>3 DEF RunInv

(* The shape of a step on one run: it goes on, or comes to an end.         *)
LEMMA JumpTyped ==
  ASSUME World, NEW s \in Slots, NEW pc \in Pcs, NEW b \in BOOLEAN,
         \/ Jump(s, pc)
         \/ run' = [run EXCEPT ![s].pc = pc, ![s].created = b]
         \/ run' = [run EXCEPT ![s].pc = pc, ![s].payload = b]
         \/ run' = [run EXCEPT ![s] = NoRun]
         \/ \E j \in Jobs : run' = [run EXCEPT ![s] = [NoRun EXCEPT !.pc = pc, !.jobs = {j}]]
         \/ UNCHANGED run
  PROVE  run' \in [Slots -> Run]
<1>1. run \in [Slots -> Run] /\ run[s] \in Run
  BY DEF World
<1>2. NoRun \in Run
  BY DEF NoRun, Run, Pcs
<1>3. ASSUME NEW new \in Run, run' = [run EXCEPT ![s] = new] PROVE run' \in [Slots -> Run]
  BY <1>1, <1>3
<1>4. /\ [run[s] EXCEPT !.pc = pc] \in Run
      /\ [run[s] EXCEPT !.pc = pc, !.created = b] \in Run
      /\ [run[s] EXCEPT !.pc = pc, !.payload = b] \in Run
      /\ \A j \in Jobs : [NoRun EXCEPT !.pc = pc, !.jobs = {j}] \in Run
  BY <1>1, <1>2 DEF Run
<1>5. CASE Jump(s, pc)
  <2>1. run' = [run EXCEPT ![s] = [run[s] EXCEPT !.pc = pc]]
    BY <1>1, <1>5 DEF Jump
  <2> QED
    BY <1>3, <1>4, <2>1
<1>6. CASE run' = [run EXCEPT ![s].pc = pc, ![s].created = b]
  <2>1. run' = [run EXCEPT ![s] = [run[s] EXCEPT !.pc = pc, !.created = b]]
    BY <1>1, <1>6
  <2> QED
    BY <1>3, <1>4, <2>1
<1>7. CASE run' = [run EXCEPT ![s].pc = pc, ![s].payload = b]
  <2>1. run' = [run EXCEPT ![s] = [run[s] EXCEPT !.pc = pc, !.payload = b]]
    BY <1>1, <1>7
  <2> QED
    BY <1>3, <1>4, <2>1
<1>8. CASE run' = [run EXCEPT ![s] = NoRun]
  BY <1>2, <1>3, <1>8
<1>9. CASE \E j \in Jobs : run' = [run EXCEPT ![s] = [NoRun EXCEPT !.pc = pc, !.jobs = {j}]]
  BY <1>3, <1>4, <1>9
<1> QED
  BY <1>1, <1>5, <1>6, <1>7, <1>8, <1>9

(* The steps of a run keep the types.                                      *)
LEMMA RunTyped ==
  ASSUME World, NEW s \in Slots, NEW j \in Jobs, RunClaim(s, j) \/ RunJob(s, j)
  PROVE  World'
<1>1. ASSUME NEW pc \in Pcs, Jump(s, pc) PROVE run' \in [Slots -> Run]
  BY <1>1, JumpTyped
<1>2. CASE RunClaim(s, j)
  BY <1>2, JumpTyped DEF RunClaim, World, worldVars, Pcs
<1>3. CASE RunLoad(s, j)
  BY <1>1, <1>3, JumpTyped DEF RunLoad, World, worldVars, Pcs
<1>4. CASE RunCreate(s, j)
  BY <1>1, <1>4, JumpTyped DEF RunCreate, World, Pcs, KubeStates
<1>5. CASE RunThrow(s, j) \/ RunSucceeded(s, j) \/ RunFailed(s, j) \/ RunRead(s, j)
  BY <1>1, <1>5 DEF RunThrow, RunSucceeded, RunFailed, RunRead, World, worldVars, Pcs
<1>6. CASE RunDeadline(s, j)
  BY <1>1, <1>6 DEF RunDeadline, World, Pcs, KubeStates
<1>7. CASE RunExtract(s, j)
  BY <1>1, <1>7, JumpTyped DEF RunExtract, World, Pcs
<1>8. CASE RunComplete(s, j)
  BY <1>1, <1>8 DEF RunComplete, World, worldVars, Pcs
<1>9. CASE RunDiscard(s, j)
  BY <1>1, <1>9 DEF RunDiscard, World, Pcs
<1>10. CASE RunMarkFailed(s, j)
  BY <1>1, <1>10 DEF RunMarkFailed, World, worldVars, Pcs
<1>11. CASE RunDelete(s, j) \/ RunDeleteFails(s, j)
  BY <1>1, <1>11 DEF RunDelete, RunDeleteFails, World, worldVars, Pcs, KubeStates
<1>12. CASE RunClean(s, j)
  BY <1>12, JumpTyped DEF RunClean, World, Pcs
<1> QED
  BY <1>2, <1>3, <1>4, <1>5, <1>6, <1>7, <1>8, <1>9, <1>10, <1>11, <1>12 DEF RunJob

(* Every step keeps the types of what JobLifecycle does not have.          *)
LEMMA NextWorld == World /\ [RunNext]_runVars => World'
<1> SUFFICES ASSUME World, [RunNext]_runVars PROVE World'
  OBVIOUS
<1>1. ASSUME NEW s \in Slots, NEW j \in Jobs, RunClaim(s, j) \/ RunJob(s, j) PROVE World'
  BY <1>1, RunTyped
<1>2. ASSUME NEW j \in Jobs, Cluster(j) \/ TimePasses(j) PROVE World'
  BY <1>2 DEF Cluster, PodSucceeds, PodFails, KubeForgets, TimePasses, World, worldVars,
              KubeStates
<1>3. ASSUME NEW w \in Sweepers, SweepSelect(w) PROVE World'
  BY <1>3 DEF SweepSelect, World, worldVars
<1>4. ASSUME NEW w \in Sweepers, NEW j \in Jobs, Sweep(w, j) PROVE World'
  BY <1>4 DEF Sweep, SweepRead, SweepSkip, SweepSave, SweepAbort, World, worldVars
<1>5. ASSUME NEW u \in Requests, NEW j \in Jobs, Request(u, j) PROVE World'
  BY <1>5 DEF Request, World
<1>6. CASE DispatcherCrash
  BY <1>6 DEF DispatcherCrash, World, worldVars, Run, NoRun, Pcs
<1>7. CASE ApiCrash \/ UNCHANGED runVars
  BY <1>7 DEF ApiCrash, World, worldVars, runVars
<1> QED
  BY <1>1, <1>2, <1>3, <1>4, <1>5, <1>6, <1>7 DEF RunNext

(* A run gets to where a pod exists only by way of a row that was mounted. *)
LEMMA OnlyUploadsMount ==
  ASSUME RunInv, [RunNext]_runVars, NEW s \in Slots, NEW j \in Jobs,
         run'[s].jobs = {j}, run'[s].pc \in Mounted
  PROVE  \/ run[s].jobs = {j} /\ run[s].pc \in Mounted
         \/ Kept(j)
<1> USE DEF Mounted
<1>1. run \in [Slots -> Run]
  BY DEF RunInv, World
<1>2. CASE UNCHANGED run
  BY <1>2
<1>3. ASSUME NEW t \in Slots, NEW i \in Jobs, RunClaim(t, i) \/ RunJob(t, i), t # s
      PROVE  run'[s] = run[s]
  BY <1>1, <1>3 DEF RunClaim, RunJob, RunLoad, RunCreate, RunThrow, RunSucceeded, RunFailed,
     RunDeadline, RunRead, RunExtract, RunComplete, RunDiscard, RunMarkFailed, RunDelete,
     RunDeleteFails, RunClean, Jump
<1>4. ASSUME NEW i \in Jobs, RunClaim(s, i) \/ RunJob(s, i)
      PROVE  \/ run[s].jobs = {j} /\ run[s].pc \in Mounted
             \/ Kept(j)
  <2>1. CASE RunClaim(s, i)
    BY <1>1, <2>1 DEF RunClaim, NoRun
  <2>2. CASE RunLoad(s, i)
    BY <1>1, <2>2 DEF RunLoad, At, Jump, MayMount, Kept, NoRun, Run
  <2>3. CASE RunCreate(s, i) \/ RunThrow(s, i) \/ RunSucceeded(s, i) \/ RunFailed(s, i)
             \/ RunDeadline(s, i) \/ RunRead(s, i) \/ RunExtract(s, i) \/ RunComplete(s, i)
    <3>1. run[s].pc \in Mounted /\ run'[s].jobs = run[s].jobs
      BY <1>1, <2>3 DEF RunCreate, RunThrow, RunSucceeded, RunFailed, RunDeadline, RunRead,
         RunExtract, RunComplete, At, Jump, Run
    <3> QED
      BY <3>1
  <2>4. CASE RunDiscard(s, i) \/ RunMarkFailed(s, i) \/ RunDelete(s, i)
             \/ RunDeleteFails(s, i) \/ RunClean(s, i)
    <3>1. run'[s].pc \notin Mounted \/ run'[s] = run[s]
      BY <1>1, <2>4 DEF RunDiscard, RunMarkFailed, RunDelete, RunDeleteFails, RunClean, Jump,
         Run, NoRun
    <3> QED
      BY <3>1
  <2> QED
    BY <1>4, <2>1, <2>2, <2>3, <2>4 DEF RunJob
<1>5. CASE DispatcherCrash
  BY <1>5 DEF DispatcherCrash, NoRun
<1>6. ASSUME NEW i \in Jobs, Cluster(i) \/ TimePasses(i) PROVE UNCHANGED run
  BY <1>6 DEF Cluster, PodSucceeds, PodFails, KubeForgets, TimePasses
<1>7. ASSUME NEW w \in Sweepers, SweepSelect(w) \/ \E i \in Jobs : Sweep(w, i)
      PROVE  UNCHANGED run
  BY <1>7 DEF SweepSelect, Sweep, SweepRead, SweepSkip, SweepSave, SweepAbort
<1>8. ASSUME NEW u \in Requests, NEW i \in Jobs, Request(u, i) PROVE UNCHANGED run
  BY <1>8 DEF Request
<1>9. CASE ApiCrash \/ UNCHANGED runVars
  BY <1>2, <1>9 DEF ApiCrash, runVars
<1> QED
  BY <1>2, <1>3, <1>4, <1>5, <1>6, <1>7, <1>8, <1>9 DEF RunNext

(* Every step keeps the invariant.                                         *)
LEMMA NextRunInv == RunInv /\ [RunNext]_runVars => RunInv'
<1> SUFFICES ASSUME RunInv, [RunNext]_runVars PROVE RunInv'
  OBVIOUS
<1>1. Inv /\ TypeOK /\ [Next]_vars
  BY StepRefines DEF RunInv, Inv
<1>2. Inv' /\ World'
  BY <1>1, InvNext, NextWorld DEF RunInv
<1>3. MountedWasUploaded'
  <2> SUFFICES ASSUME NEW s \in Slots, NEW j \in Jobs,
                      run'[s].jobs = {j}, run'[s].pc \in Mounted
               PROVE  Kept(j)'
    BY DEF MountedWasUploaded, Mounted
  <2>1. Kept(j)
    BY OnlyUploadsMount DEF RunInv, MountedWasUploaded
  <2> QED
    BY <1>1, <2>1, KeptForGood
<1>4. ResultWasUploaded'
  <2> SUFFICES ASSUME NEW j \in Jobs, results'[j] = "stored" PROVE Kept(j)'
    BY DEF ResultWasUploaded
  <2>1. results[j] = "stored" \/ \E s \in Slots : At(s, "complete", j)
    BY <1>1, OnlyCommitsStore
  <2>2. Kept(j)
    BY <2>1 DEF RunInv, MountedWasUploaded, ResultWasUploaded, At, Mounted
  <2> QED
    BY <1>1, <2>2, KeptForGood
<1> QED
  BY <1>2, <1>3, <1>4 DEF RunInv

(* Whatever a pod mounts or a run reads out was uploaded.                  *)
THEOREM RunInvariance == RunSpec => []RunInv
BY InitRunInv, NextRunInv, PTL DEF RunSpec

--------------------------------------------------------------------------------
(* Rows, runs, cluster objects, directories and lists stay well typed.     *)
THEOREM GradingTypeCorrect == RunSpec => []RunTypeOK
<1>1. RunInv => RunTypeOK
  BY DEF RunInv, Inv, World, RunTypeOK
<1> QED
  BY <1>1, RunInvariance, PTL

(* No job is graded that was not uploaded, whatever overlaps or crashes.   *)
THEOREM NoGradeWithoutUpload == RunSpec => []GradedWasUploaded
<1>1. RunInv => GradedWasUploaded
  <2> SUFFICES ASSUME RunInv, NEW j \in Jobs, results[j] = "stored"
               PROVE  rows[j].stored
    BY DEF GradedWasUploaded
  <2>1. Kept(j) /\ Exists(j)
    BY DEF RunInv, ResultWasUploaded, Inv, RowsInv, ResultsHaveJobs
  <2> QED
    BY <2>1 DEF Kept, Exists, Existing, Terminal
<1> QED
  BY <1>1, RunInvariance, PTL

(* The dispatcher, the sweeps and the API together implement JobLifecycle. *)
THEOREM ImplementsLifecycle == RunSpec => Spec
<1>1. RunInit => Init
  BY DEF RunInit
<1>2. RunInv /\ [RunNext]_runVars => [Next]_vars
  BY StepRefines DEF RunInv, Inv
<1> QED
  BY <1>1, <1>2, RunInvariance, PTL DEF RunSpec, Spec

(* Hence what was proved of JobLifecycle holds of them.                    *)
COROLLARY GradingImplementsLedger == RunSpec => LedgerSpec /\ []CompletedHasResult
BY ImplementsLifecycle, ImplementsLedger, CompletedJobsAreGraded

(* And a client that polls sees the life of a job that JobRecord allows,   *)
(* which only stale reads take off the course the service's checks set.    *)
COROLLARY GradingImplementsRecord == RunSpec => RecordSpec /\ OverwritesAreStale
BY ImplementsLifecycle, ImplementsRecord, StaleOverwrites

--------------------------------------------------------------------------------
(* A run touches the job it has or one that is pending, and a job that is  *)
(* forgotten is neither.                                                   *)
LEMMA RunsLeaveForgotten ==
  ASSUME TypeOK, World, NEW j \in Jobs, Forgotten(j), NEW s \in Slots, NEW i \in Jobs,
         RunClaim(s, i) \/ RunJob(s, i)
  PROVE  Forgotten(j)'
<1> USE DEF Forgotten, Busy
<1>1. /\ call \in [Callers -> Frame] /\ run \in [Slots -> Run] /\ rows \in [Jobs -> Row]
      /\ s \in Callers /\ Idle.jobs = {} /\ NoRun.jobs = {}
  BY CallersAssumption DEF TypeOK, World, Idle, NoRun
<1>2. i # j
  <2>1. RunClaim(s, i) => rows[i].status = "pending"
    BY DEF RunClaim, Claim
  <2>2. RunJob(s, i) => run[s].jobs = {i}
    BY DEF RunJob, RunLoad, RunCreate, RunThrow, RunSucceeded, RunFailed, RunDeadline, RunRead,
           RunExtract, RunComplete, RunDiscard, RunMarkFailed, RunDelete, RunDeleteFails,
           RunClean, At
  <2> QED
    BY <2>1, <2>2
<1>3. rows'[j] = rows[j]
  BY <1>1, <1>2 DEF RunClaim, Claim, RunJob, RunLoad, RunCreate, RunThrow, RunSucceeded,
     RunFailed, RunDeadline, RunRead, RunExtract, RunComplete, RunDiscard, RunMarkFailed,
     RunDelete, RunDeleteFails, RunClean, CompleteRead, CompleteCommit, FailRead, FailSave,
     Update, Abort, CleanupSubmission, vars
<1>4. \A c \in Callers : j \notin call'[c].jobs
  BY <1>1, <1>2 DEF RunClaim, Claim, RunJob, RunLoad, RunCreate, RunThrow, RunSucceeded,
     RunFailed, RunDeadline, RunRead, RunExtract, RunComplete, RunDiscard, RunMarkFailed,
     RunDelete, RunDeleteFails, RunClean, CompleteRead, CompleteCommit, FailRead, FailSave,
     Abort, CleanupSubmission, vars, Enter, Return
<1>5. stuck' = stuck
  BY DEF RunClaim, RunJob, RunLoad, RunCreate, RunThrow, RunSucceeded, RunFailed, RunDeadline,
     RunRead, RunExtract, RunComplete, RunDiscard, RunMarkFailed, RunDelete, RunDeleteFails,
     RunClean
<1>6. \A t \in Slots : j \notin run'[t].jobs
  <2>1. CASE RunClaim(s, i)
    BY <1>1, <1>2, <2>1 DEF RunClaim, NoRun, Run
  <2>2. CASE RunJob(s, i)
    <3>1. run'[s].jobs \in {run[s].jobs, {}}
      BY <1>1, <2>2 DEF RunJob, RunLoad, RunCreate, RunThrow, RunSucceeded, RunFailed,
         RunDeadline, RunRead, RunExtract, RunComplete, RunDiscard, RunMarkFailed, RunDelete,
         RunDeleteFails, RunClean, Jump, Run
    <3>2. \A t \in Slots \ {s} : run'[t] = run[t]
      BY <1>1, <2>2 DEF RunJob, RunLoad, RunCreate, RunThrow, RunSucceeded, RunFailed,
         RunDeadline, RunRead, RunExtract, RunComplete, RunDiscard, RunMarkFailed, RunDelete,
         RunDeleteFails, RunClean, Jump
    <3> QED
      BY <3>1, <3>2
  <2> QED
    BY <2>1, <2>2
<1> QED
  BY <1>3, <1>4, <1>5, <1>6

(* Nor does any other step.                                                *)
LEMMA ForgottenStays ==
  ASSUME TypeOK, World, NEW j \in Jobs, Forgotten(j), [RunNext]_runVars
  PROVE  Forgotten(j)'
<1> USE DEF Forgotten, Busy
<1>1. /\ call \in [Callers -> Frame] /\ rows \in [Jobs -> Row]
      /\ stuck \in [Sweepers -> SUBSET Jobs] /\ Idle.jobs = {} /\ NoRun.jobs = {}
      /\ Sweepers \subseteq Callers /\ Requests \subseteq Callers
  BY CallersAssumption DEF TypeOK, World, Idle, NoRun
<1>2. ASSUME NEW s \in Slots, NEW i \in Jobs, RunClaim(s, i) \/ RunJob(s, i)
      PROVE  Forgotten(j)'
  BY <1>2, RunsLeaveForgotten
<1>3. ASSUME NEW i \in Jobs, Cluster(i) \/ TimePasses(i) PROVE Forgotten(j)'
  BY <1>1, <1>3 DEF Cluster, PodSucceeds, PodFails, KubeForgets, TimePasses, PassTimeout, vars
<1>4. ASSUME NEW w \in Sweepers, SweepSelect(w) PROVE Forgotten(j)'
  BY <1>1, <1>4 DEF SweepSelect, vars
<1>5. ASSUME NEW w \in Sweepers, NEW i \in Jobs, Sweep(w, i) PROVE Forgotten(j)'
  <2>1. i \in stuck[w] \/ call[w].jobs = {i}
    BY <1>5 DEF Sweep, SweepRead, SweepSkip, SweepSave, SweepAbort, FailSave, Abort, In
  <2>2. i # j
    BY <1>1, <2>1
  <2> QED
    BY <1>1, <1>5, <2>2 DEF Sweep, SweepRead, SweepSkip, SweepSave, SweepAbort, FailRead,
       FailSave, Abort, Update, Enter, Return, vars
<1>6. ASSUME NEW u \in Requests, NEW i \in Jobs, Request(u, i) PROVE Forgotten(j)'
  <2>1. i # j
    BY <1>1, <1>6 DEF Request, Submit, SubmitCreate, SubmitUpload, SubmitSave, SubmitReturn,
       SubmitThrow, SubmitUndo, SubmitDelete, Cancel, CancelRead, CancelSave, CancelPurge,
       Abort, In
  <2>2. rows'[j] = rows[j]
    BY <1>1, <1>6, <2>1 DEF Request, Submit, SubmitCreate, SubmitUpload, SubmitSave,
       SubmitReturn, SubmitThrow, SubmitUndo, SubmitDelete, DeleteRows, Cancel, CancelRead,
       CancelSave, CancelPurge, Abort, Update
  <2>3. call'[u].jobs \in {call[u].jobs, {i}, {}}
        /\ \A c \in Callers \ {u} : call'[c] = call[c]
    BY <1>1, <1>6 DEF Request, Submit, SubmitCreate, SubmitUpload, SubmitSave, SubmitReturn,
       SubmitThrow, SubmitUndo, SubmitDelete, Cancel, CancelRead, CancelSave, CancelPurge,
       Abort, Enter, Goto, Return, Frame
  <2> QED
    BY <1>1, <1>6, <2>1, <2>2, <2>3 DEF Request
<1>7. CASE DispatcherCrash
  BY <1>1, <1>7 DEF DispatcherCrash
<1>8. CASE ApiCrash
  BY <1>1, <1>8 DEF ApiCrash, Crash
<1>9. CASE UNCHANGED runVars
  BY <1>9 DEF runVars, vars
<1> QED
  BY <1>2, <1>3, <1>4, <1>5, <1>6, <1>7, <1>8, <1>9 DEF RunNext

(* A job that is forgotten is so for ever: no sweep, retry, cancellation   *)
(* or restart brings it back, and it never comes to an end.                *)
THEOREM ForgottenForGood ==
  ASSUME NEW j \in Jobs
  PROVE  RunSpec => [](Forgotten(j) => []Forgotten(j))
<1>1. RunInv /\ Forgotten(j) /\ [RunNext]_runVars => Forgotten(j)'
  BY ForgottenStays DEF RunInv, Inv
<1> QED
  BY <1>1, RunInvariance, PTL DEF RunSpec
================================================================================
