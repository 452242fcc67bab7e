------------------------------ MODULE FilesProofs ------------------------------
(***************************************************************************)
(* SubmissionFiles for every finite or infinite set of jobs and actors and *)
(* submissions of any size: the submission of a job that needs it is whole *)
(* on disk, a payload that a result names is there, and a download says    *)
(* that a payload is deleted only of a job that is.                        *)
(***************************************************************************)
EXTENDS SubmissionFiles, TLAPS

(* A job whose submission is still to be looked after, were it put back    *)
(* into the queue.                                                         *)
Live(j) ==
  /\ rows[j].status # "deleted"
  /\ j \notin past.released \cup past.exposed

(* A request that may still write to the submission directory of j, or is  *)
(* about to remove it because that failed.                                 *)
Submitting(u, j) ==
  request[u].jobs = {j} /\ request[u].pc \in {"mkdir", "put", "save", "broken"}

(* No row, no result and no files.                                         *)
RowsAgree ==
  \A j \in Jobs :
    /\ ~Exists(j) => rows[j].result = "none"
    /\ rows[j].status = "absent"
       => ~rows[j].stored /\ ~dirs[j].made /\ dirs[j].input = 0

(* A job is submitted once, and source_path is saved last.                 *)
Submitters ==
  \A j \in Jobs, u \in Requests : Submitting(u, j) =>
    /\ rows[j].status # "absent" /\ ~rows[j].stored
    /\ \A v \in Requests : Submitting(v, j) => u = v

(* What is on disk and what is still to be stored make up the submission.  *)
Uploads ==
  \A j \in Jobs, u \in Requests : request[u].jobs = {j} =>
    /\ request[u].pc = "mkdir" => dirs[j].input = 0 /\ request[u].left = Parts
    /\ request[u].pc = "put" => dirs[j].input + request[u].left <= Parts
    /\ request[u].pc = "put" /\ Live(j)
       => dirs[j].made /\ dirs[j].input + request[u].left = Parts
    /\ request[u].pc = "save" /\ Live(j) => dirs[j].input = Parts

Whole == \A j \in Jobs : Live(j) /\ rows[j].stored => dirs[j].input = Parts

(* A pod mounts a directory that was stored and is there.                  *)
RunsMount ==
  \A j \in Jobs, s \in Slots : j \in run[s].jobs =>
    /\ rows[j].status # "absent"
    /\ run[s].pc \in {"prepare", "wait"} /\ Live(j) => rows[j].stored
    /\ run[s].pc = "wait" /\ Live(j) => dirs[j].made

(* A sweep that has listed the directory of a live job spares it.          *)
SweepsSpare ==
  \A j \in Jobs, p \in Processes : Live(j) =>
    /\ sweep[p].pc \in {"query", "list"} /\ dirs[j].made => j \in sweep[p].jobs
    /\ sweep[p].pc = "remove" => j \notin sweep[p].jobs

(* Retention removes files of rows that are gone.                          *)
RowsFirst ==
  \A p \in Processes : \A j \in retain[p].jobs :
    /\ retain[p].pc = "delete" => rows[j].status # "absent"
    /\ retain[p].pc = "tidy" => rows[j].status = "deleted"

Early == {"load", "prepare", "refuse", "wait", "read", "extract"}

(* Only one run at a time, and none after a result, unless contested; the  *)
(* payload of a run that found one stays until the run is over.            *)
RunsAlone ==
  \A j \in Jobs, s \in Slots : j \in run[s].jobs =>
    /\ run[s].pc \in Early => ~run[s].payload
    /\ j \notin past.contested =>
       /\ \A t \in Slots : j \in run[t].jobs => s = t
       /\ run[s].pc # "clean" => rows[j].result = "none"
       /\ run[s].payload /\ run[s].pc \in {"complete", "commit"}
          => j \in payloads \/ rows[j].status = "deleted"

Recorded ==
  \A j \in Jobs \ past.contested : rows[j].result = "payload" => j \in payloads

(* A download past its second query serves a payload or a deleted job.     *)
Reading ==
  \A r \in Readers : \A j \in reader[r].jobs : reader[r].pc = "stat" =>
    rows[j].result = "payload" \/ rows[j].status = "deleted"

FilesInv ==
  /\ TypeOK /\ RowsAgree /\ Submitters /\ Uploads /\ Whole
  /\ RunsMount /\ SweepsSpare /\ RowsFirst

PayloadInv == FilesInv /\ RunsAlone /\ Recorded /\ Reading

--------------------------------------------------------------------------------
(* Types: the helpers, the actors one by one, and the step.                *)

(* A fresh row is a row.                                                   *)
LEMMA BlankTyped ==
  ASSUME NEW status \in Existing \cup {"absent", "deleted"}
  PROVE  BlankRow(status) \in Row
BY RetriesAssumption DEF BlankRow, Row

(* No directory is a directory.                                            *)
LEMMA NoDirTyped == NoDir \in Dir
BY PartsAssumption DEF NoDir, Dir

(* markFailed saves a row: retry_count never exceeds max_retries.          *)
LEMMA MarkedFailedTyped ==
  ASSUME NEW row \in Row
  PROVE  MarkedFailed(row) \in Row
<1>1. CASE row.retries < MaxRetries
  <2>1. row.retries + 1 \in 0..MaxRetries
    BY <1>1, RetriesAssumption DEF Row
  <2> QED
    BY <1>1, <2>1 DEF MarkedFailed, Row, Existing, Active
<1>2. CASE ~(row.retries < MaxRetries)
  BY <1>2 DEF MarkedFailed, Row, Existing, Terminal
<1> QED
  BY <1>1, <1>2

(* An UPDATE that finds its row or not keeps the types.                    *)
LEMMA UpdateTyped ==
  ASSUME TypeOK, NEW j \in Jobs, NEW new \in Row, Update(j, new)
  PROVE  rows' \in [Jobs -> Row]
BY DEF TypeOK, Update

(* A removal, done or failed, keeps the types.                             *)
LEMMA RemoveTyped ==
  ASSUME TypeOK, NEW j \in Jobs, Remove(j)
  PROVE  dirs' \in [Jobs -> Dir]
BY NoDirTyped DEF TypeOK, Remove

(* Making a directory keeps the types.                                     *)
LEMMA MadeTyped ==
  ASSUME TypeOK, NEW j \in Jobs, dirs' = [dirs EXCEPT ![j].made = TRUE]
  PROVE  dirs' \in [Jobs -> Dir]
BY DEF TypeOK, Dir

(* Moving a request or a run on keeps its type.                            *)
LEMMA FramesTyped ==
  ASSUME TypeOK
  PROVE  /\ \A u \in Requests, pc \in RequestPcs :
              Ask(u, pc) => request' \in [Requests -> Request]
         /\ \A u \in Requests : AskNothing(u) => request' \in [Requests -> Request]
         /\ \A s \in Slots, pc \in RunPcs : Jump(s, pc) => run' \in [Slots -> Run]
         /\ \A s \in Slots :
              run' = [run EXCEPT ![s] = NoRun] => run' \in [Slots -> Run]
<1>1. NoRequest \in Request /\ NoRun \in Run
  BY PartsAssumption DEF NoRequest, Request, RequestPcs, NoRun, Run, RunPcs
<1>2. ASSUME NEW u \in Requests, NEW pc \in RequestPcs, Ask(u, pc)
      PROVE  request' \in [Requests -> Request]
  <2>1. request \in [Requests -> Request] /\ request[u] \in Request
    BY DEF TypeOK
  <2>2. [request[u] EXCEPT !.pc = pc] \in Request
    BY <2>1 DEF Request
  <2> QED
    BY <1>2, <2>1, <2>2 DEF Ask
<1>3. ASSUME NEW s \in Slots, NEW pc \in RunPcs, Jump(s, pc)
      PROVE  run' \in [Slots -> Run]
  <2>1. run \in [Slots -> Run] /\ run[s] \in Run
    BY DEF TypeOK
  <2>2. [run[s] EXCEPT !.pc = pc] \in Run
    BY <2>1 DEF Run
  <2> QED
    BY <1>3, <2>1, <2>2 DEF Jump
<1> QED
  BY <1>1, <1>2, <1>3 DEF TypeOK, AskNothing

(* The history keeps its type.                                             *)
LEMMA PastTyped ==
  ASSUME TypeOK, NEW j \in Jobs,
         \/ Expose(j)
         \/ past' = past
         \/ past' = [past EXCEPT !.released = @ \cup {j}]
         \/ past' = [past EXCEPT !.contested = @ \cup {j}]
  PROVE  past' \in [released : SUBSET Jobs, exposed : SUBSET Jobs, contested : SUBSET Jobs]
BY DEF TypeOK, Expose

(* The steps of submitJob and cancelJob keep the types.                    *)
LEMMA RequestTyped ==
  ASSUME TypeOK, Uploads, NEW u \in Requests, NEW j \in Jobs, Submit(u, j) \/ Cancel(u, j)
  PROVE  TypeOK'
<1> USE FramesTyped DEF RequestPcs
<1>1. CASE SubmitCreate(u, j)
  <2>1. rows' \in [Jobs -> Row]
    BY <1>1, BlankTyped DEF SubmitCreate, TypeOK, Existing, Active
  <2>2. request' \in [Requests -> Request]
    BY <1>1, PartsAssumption DEF SubmitCreate, TypeOK, Request
  <2> QED
    BY <1>1, <2>1, <2>2 DEF SubmitCreate, TypeOK, disk
<1>2. CASE UploadMkdir(u, j)
  BY <1>2, MadeTyped, PastTyped DEF UploadMkdir, TypeOK
<1>3. CASE UploadPart(u, j)
  <2>1. /\ request[u].left \in 0..Parts /\ request[u].left > 0
        /\ dirs[j].input \in 0..Parts /\ dirs[j].input + request[u].left <= Parts
    BY <1>3 DEF UploadPart, At, Uploads, TypeOK, Request, Dir
  <2>2. request[u].left - 1 \in 0..Parts /\ dirs[j].input + 1 \in 0..Parts
    BY <2>1, PartsAssumption
  <2>3. dirs' \in [Jobs -> Dir]
    BY <1>3, <2>2 DEF UploadPart, TypeOK, Dir
  <2>4. request' \in [Requests -> Request]
    <3>1. request[u] \in Request
      BY DEF TypeOK
    <3>2. [request[u] EXCEPT !.left = request[u].left - 1] \in Request
      BY <2>2, <3>1 DEF Request
    <3> QED
      BY <1>3, <3>2 DEF UploadPart, TypeOK
  <2> QED
    BY <1>3, <2>3, <2>4 DEF UploadPart, TypeOK
<1>4. CASE UploadEnd(u, j) \/ UploadThrow(u, j)
  BY <1>4 DEF UploadEnd, UploadThrow, TypeOK, disk
<1>5. CASE UploadRemove(u, j)
  BY <1>5, RemoveTyped DEF UploadRemove, TypeOK
<1>6. CASE SubmitSave(u, j)
  <2>0. rows[j] \in Row
    BY DEF TypeOK
  <2>1. [rows[j] EXCEPT !.stored = TRUE] \in Row
    BY <2>0 DEF Row
  <2>2. rows' \in [Jobs -> Row]
    BY <1>6, <2>1, UpdateTyped DEF SubmitSave, TypeOK
  <2> QED
    BY <1>6, <2>2 DEF SubmitSave, TypeOK, disk
<1>7. CASE SubmitReturn(u, j)
  BY <1>7 DEF SubmitReturn, TypeOK, disk
<1>8. CASE SubmitUndo(u, j)
  BY <1>8, RemoveTyped, PastTyped DEF SubmitUndo, Release, TypeOK
<1>9. CASE SubmitDelete(u, j)
  BY <1>9, BlankTyped, UpdateTyped DEF SubmitDelete, TypeOK, disk
<1>10. CASE CancelRead(u, j)
  <2>1. request' \in [Requests -> Request]
    BY <1>10, PartsAssumption DEF CancelRead, TypeOK, Request
  <2> QED
    BY <1>10, <2>1 DEF CancelRead, TypeOK, disk
<1>11. CASE CancelSave(u, j)
  <2>1. [rows[j] EXCEPT !.status = "cancelled"] \in Row
    BY DEF TypeOK, Row, Existing, Terminal
  <2> QED
    BY <1>11, <2>1, UpdateTyped, PastTyped DEF CancelSave, TypeOK, disk
<1>12. CASE CancelPurge(u, j)
  BY <1>12, RemoveTyped, PastTyped DEF CancelPurge, Release, TypeOK
<1> QED
  BY <1>1, <1>2, <1>3, <1>4, <1>5, <1>6, <1>7, <1>8, <1>9, <1>10, <1>11, <1>12
     DEF Submit, Cancel

(* The steps of runJob keep the types.                                     *)
LEMMA RunTyped ==
  ASSUME TypeOK, NEW s \in Slots, NEW j \in Jobs, RunJob(s, j)
  PROVE  TypeOK'
<1> USE FramesTyped DEF RunPcs
<1>1. CASE RunClaim(s, j)
  <2>1. rows' \in [Jobs -> Row]
    BY <1>1 DEF RunClaim, TypeOK, Row, Existing, Active
  <2>2. run' \in [Slots -> Run]
    BY <1>1 DEF RunClaim, TypeOK, Run, NoRun
  <2>3. past' \in [released : SUBSET Jobs, exposed : SUBSET Jobs, contested : SUBSET Jobs]
    BY <1>1, PastTyped DEF RunClaim
  <2> QED
    BY <1>1, <2>1, <2>2, <2>3 DEF RunClaim, TypeOK, disk
<1>2. CASE RunLoad(s, j)
  <2>1. run' \in [Slots -> Run]
    <3>1. run[s] \in Run /\ NoRun \in Run
      BY DEF TypeOK, NoRun, Run
    <3>2. \A pc \in RunPcs : [run[s] EXCEPT !.pc = pc] \in Run
      BY <3>1 DEF Run
    <3>3. PICK new \in Run : run' = [run EXCEPT ![s] = new]
      BY <1>2, <3>1, <3>2 DEF RunLoad
    <3> QED
      BY <3>3 DEF TypeOK
  <2> QED
    BY <1>2, <2>1 DEF RunLoad, TypeOK, disk
<1>3. CASE RunPrepare(s, j)
  <2>1. run' \in [Slots -> Run]
    BY <1>3 DEF RunPrepare
  <2>2. dirs' \in [Jobs -> Dir]
    BY <1>3, MadeTyped DEF RunPrepare, TypeOK
  <2>3. past' \in [released : SUBSET Jobs, exposed : SUBSET Jobs, contested : SUBSET Jobs]
    BY <1>3, PastTyped DEF RunPrepare
  <2> QED
    BY <1>3, <2>1, <2>2, <2>3 DEF RunPrepare, TypeOK
<1>4. CASE RunWait(s, j)
  <2>1. dirs' \in [Jobs -> Dir]
    <3>1. dirs[j] \in Dir
      BY DEF TypeOK
    <3>2. \A files \in SUBSET Artifacts :
            [dirs[j] EXCEPT !.made = TRUE, !.output = dirs[j].output \cup files] \in Dir
      BY <3>1 DEF Dir
    <3>3. CASE UNCHANGED dirs
      BY <3>3 DEF TypeOK
    <3>4. CASE ~UNCHANGED dirs
      <4>1. PICK files \in SUBSET Artifacts :
              dirs' = [dirs EXCEPT ![j].made = TRUE, ![j].output = @ \cup files]
        BY <1>4, <3>4 DEF RunWait
      <4>2. dirs' = [dirs EXCEPT ![j] =
                       [dirs[j] EXCEPT !.made = TRUE, !.output = dirs[j].output \cup files]]
        BY <4>1 DEF TypeOK
      <4> QED
        BY <3>2, <4>2 DEF TypeOK
    <3> QED
      BY <3>3, <3>4
  <2>2. run' \in [Slots -> Run]
    BY <1>4 DEF RunWait
  <2> QED
    BY <1>4, <2>1, <2>2 DEF RunWait, TypeOK
<1>5. CASE RunRead(s, j) \/ RunComplete(s, j) \/ RunAbort(s, j)
  BY <1>5 DEF RunRead, RunComplete, RunAbort, Thrown, TypeOK, disk
<1>6. CASE RunExtract(s, j)
  <2>1. CASE ExtractMoves(s, j)
    <3>1. dirs' \in [Jobs -> Dir]
      BY <2>1 DEF ExtractMoves, TypeOK, Dir
    <3>2. run' \in [Slots -> Run]
      <4>1. run[s] \in Run
        BY DEF TypeOK
      <4>2. [run[s] EXCEPT !.pc = "complete", !.payload = TRUE] \in Run
        BY <4>1 DEF Run
      <4>3. run' = [run EXCEPT ![s] = [run[s] EXCEPT !.pc = "complete", !.payload = TRUE]]
        BY <2>1 DEF ExtractMoves, TypeOK
      <4> QED
        BY <4>2, <4>3 DEF TypeOK
    <3> QED
      BY <1>6, <2>1, <3>1, <3>2 DEF RunExtract, ExtractMoves, TypeOK
  <2>2. CASE ExtractFails(s, j) \/ ExtractNothing(s, j)
    BY <1>6, <2>2 DEF RunExtract, ExtractFails, ExtractNothing, TypeOK, disk
  <2> QED
    BY <1>6, <2>1, <2>2 DEF RunExtract
<1>7. CASE RunCommit(s, j)
  <2>1. rows' \in [Jobs -> Row]
    BY <1>7 DEF RunCommit, TypeOK, Row, Existing, Terminal
  <2> QED
    BY <1>7, <2>1 DEF RunCommit, TypeOK, disk
<1>8. CASE RunDiscard(s, j)
  BY <1>8 DEF RunDiscard, RemovePayload, TypeOK
<1>9. CASE RunFail(s, j)
  <2>1. rows' \in [Jobs -> Row]
    BY <1>9, MarkedFailedTyped, UpdateTyped DEF RunFail, TypeOK
  <2> QED
    BY <1>9, <2>1 DEF RunFail, TypeOK, disk
<1>10. CASE RunClean(s, j)
  BY <1>10, RemoveTyped, PastTyped DEF RunClean, Release, TypeOK
<1> QED
  BY <1>1, <1>2, <1>3, <1>4, <1>5, <1>6, <1>7, <1>8, <1>9, <1>10 DEF RunJob

(* What a sweep's query adds to the history are jobs.                      *)
LEMMA AnsweredTyped ==
  ASSUME TypeOK, NEW p \in Processes, Answered(p)
  PROVE  past' \in [released : SUBSET Jobs, exposed : SUBSET Jobs, contested : SUBSET Jobs]
<1>1. {j \in sweep[p].jobs : rows[j].status \in Terminal} \subseteq Jobs
  BY DEF TypeOK, Frame
<1> QED
  BY <1>1 DEF Answered, TypeOK

(* The steps of the cleanup timers keep the types.                         *)
LEMMA TimersTyped ==
  ASSUME TypeOK, NEW p \in Processes, Sweep(p) \/ Retain(p)
  PROVE  TypeOK'
<1>1. CASE SweepList(p) \/ SweepQuery(p) \/ SweepListAgain(p) \/ SweepThrow(p)
  <2>1. sweep' \in [Processes -> Frame({"idle", "query", "list", "remove"})]
    BY <1>1 DEF SweepList, SweepQuery, SweepListAgain, SweepThrow, Idle, Frame, TypeOK
  <2>2. past' \in [released : SUBSET Jobs, exposed : SUBSET Jobs, contested : SUBSET Jobs]
    BY <1>1, AnsweredTyped DEF SweepList, SweepQuery, SweepListAgain, SweepThrow, TypeOK
  <2> QED
    BY <1>1, <2>1, <2>2 DEF SweepList, SweepQuery, SweepListAgain, SweepThrow, TypeOK, disk
<1>2. ASSUME NEW j \in Jobs, SweepRemove(p, j) PROVE TypeOK'
  <2>1. sweep' \in [Processes -> Frame({"idle", "query", "list", "remove"})]
    BY <1>2 DEF SweepRemove, Idle, Frame, TypeOK
  <2>2. dirs' \in [Jobs -> Dir]
    BY <1>2, NoDirTyped DEF SweepRemove, TypeOK
  <2> QED
    BY <1>2, <2>1, <2>2 DEF SweepRemove, TypeOK
<1>3. CASE RetainSelect(p)
  <2>1. retain' \in [Processes -> Frame({"idle", "delete", "tidy"})]
    BY <1>3 DEF RetainSelect, Frame, TypeOK
  <2> QED
    BY <1>3, <2>1 DEF RetainSelect, TypeOK, disk
<1>4. CASE RetainDelete(p)
  <2>1. retain' \in [Processes -> Frame({"idle", "delete", "tidy"})]
    BY <1>4 DEF RetainDelete, Frame, TypeOK
  <2>2. rows' \in [Jobs -> Row]
    BY <1>4, BlankTyped DEF RetainDelete, TypeOK
  <2> QED
    BY <1>4, <2>1, <2>2 DEF RetainDelete, TypeOK, disk
<1>5. ASSUME NEW j \in Jobs, RetainTidy(p, j) PROVE TypeOK'
  <2>1. retain' \in [Processes -> Frame({"idle", "delete", "tidy"})]
    BY <1>5 DEF RetainTidy, Idle, Frame, TypeOK
  <2> QED
    BY <1>5, <2>1, RemoveTyped DEF RetainTidy, RemovePayload, TypeOK
<1> QED
  BY <1>1, <1>2, <1>3, <1>4, <1>5 DEF Sweep, Retain

(* Every step keeps the types.                                             *)
LEMMA NextTyped == TypeOK /\ Uploads /\ [Next]_vars => TypeOK'
<1> SUFFICES ASSUME TypeOK, Uploads, [Next]_vars PROVE TypeOK'
  OBVIOUS
<1>1. ASSUME NEW p \in Processes, NEW j \in Jobs, StuckRead(p, j) PROVE TypeOK'
  BY <1>1 DEF StuckRead, TypeOK, disk
<1>2. ASSUME NEW p \in Processes, NEW j \in Jobs, StuckSave(p, j) PROVE TypeOK'
  <2>1. rows' \in [Jobs -> Row]
    BY <1>2, MarkedFailedTyped, UpdateTyped DEF StuckSave, TypeOK
  <2> QED
    BY <1>2, <2>1 DEF StuckSave, TypeOK, disk
<1>3. ASSUME NEW r \in Readers, NEW j \in Jobs, Download(r, j) PROVE TypeOK'
  <2>1. reader' \in [Readers -> Frame({"idle", "result", "stat"})]
    <3>1. reader[r] \in Frame({"idle", "result", "stat"})
      BY DEF TypeOK
    <3>2. PICK new \in Frame({"idle", "result", "stat"}) : reader' = [reader EXCEPT ![r] = new]
      <4>1. /\ Idle \in Frame({"idle", "result", "stat"})
            /\ [pc |-> "result", jobs |-> {j}] \in Frame({"idle", "result", "stat"})
            /\ [reader[r] EXCEPT !.pc = "stat"] \in Frame({"idle", "result", "stat"})
        BY <3>1 DEF Idle, Frame
      <4> QED
        BY <1>3, <4>1 DEF Download, PayloadFind, PayloadResult, PayloadServed, PayloadDeleted
    <3> QED
      BY <3>2 DEF TypeOK
  <2> QED
    BY <1>3, <2>1 DEF Download, PayloadFind, PayloadResult, PayloadServed, PayloadDeleted,
       TypeOK, disk
<1>4. CASE ApiCrash
  BY <1>4, PartsAssumption
     DEF ApiCrash, TypeOK, disk, NoRequest, Request, RequestPcs, Idle, Frame
<1>5. CASE DispatcherCrash
  BY <1>5 DEF DispatcherCrash, TypeOK, disk, NoRun, Run, RunPcs
<1>6. CASE UNCHANGED vars
  BY <1>6 DEF vars, disk, actors, TypeOK
<1> QED
  BY <1>1, <1>2, <1>3, <1>4, <1>5, <1>6, RequestTyped, RunTyped, TimersTyped DEF Next

--------------------------------------------------------------------------------
(* What a step may do to a row, to the past and to a directory.            *)

(* The ways to write a row.                                                *)
Committed(j, s) ==
  [rows[j] EXCEPT !.status = "completed", !.ended = TRUE,
                  !.result = IF run[s].payload THEN "payload" ELSE "plain"]

Saves(j) ==
  \E u \in Requests : At(request[u], "save", j) /\ request'[u].pc = "count"

(* Run s ends its transaction on the row of j.                             *)
Commits(s, j) == At(run[s], "commit", j) /\ run'[s].pc = "clean"

Moved(j) ==
  \/ rows'[j] = rows[j]
  \/ rows[j].status = "absent" /\ rows'[j] = BlankRow("pending")
  \/ Exists(j) /\ rows'[j] = BlankRow("deleted")
  \/ Exists(j) /\ rows'[j] = [rows[j] EXCEPT !.stored = TRUE] /\ Saves(j)
  \/ Exists(j) /\ rows'[j] = [rows[j] EXCEPT !.status = "cancelled"]
  \/ /\ rows[j].status = "pending"
     /\ rows'[j] = [rows[j] EXCEPT !.status = "processing"]
  \/ /\ Exists(j) /\ rows[j].result = "none"
     /\ \E s \in Slots : Commits(s, j) /\ rows'[j] = Committed(j, s)
  \/ Exists(j) /\ rows'[j] = MarkedFailed(rows[j])

(* A step writes a row in one of these ways only.                          *)
LEMMA RowMoves ==
  ASSUME TypeOK, [Next]_vars, NEW j \in Jobs
  PROVE  Moved(j)
<1> DEFINE Goal == Moved(j)
<1> USE DEF Moved
<1>1. ASSUME NEW i \in Jobs, NEW new, Update(i, new)
      PROVE  rows'[j] = rows[j] \/ (i = j /\ Exists(j) /\ rows'[j] = new)
  BY <1>1 DEF Update, TypeOK
<1>2. ASSUME NEW i \in Jobs, Update(i, MarkedFailed(rows[i])) PROVE Goal
  BY <1>1, <1>2
<1>3. ASSUME NEW u \in Requests, NEW i \in Jobs, Submit(u, i) PROVE Goal
  <2>1. CASE SubmitCreate(u, i)
    BY <2>1 DEF SubmitCreate, TypeOK
  <2>2. CASE SubmitSave(u, i)
    <3>1. rows' = rows \/ request'[u].pc = "count"
      BY <2>2 DEF SubmitSave, Ask, TypeOK, Request
    <3> QED
      BY <1>1, <2>2, <3>1 DEF SubmitSave, Saves
  <2>3. CASE SubmitDelete(u, i)
    BY <1>1, <2>3 DEF SubmitDelete
  <2>4. CASE UploadMkdir(u, i) \/ UploadPart(u, i) \/ UploadEnd(u, i) \/ UploadThrow(u, i)
             \/ UploadRemove(u, i) \/ SubmitReturn(u, i) \/ SubmitUndo(u, i)
    BY <2>4 DEF UploadMkdir, UploadPart, UploadEnd, UploadThrow, UploadRemove, SubmitReturn,
                SubmitUndo
  <2> QED
    BY <1>3, <2>1, <2>2, <2>3, <2>4 DEF Submit
<1>4. ASSUME NEW u \in Requests, NEW i \in Jobs, Cancel(u, i) PROVE Goal
  <2>1. CASE CancelSave(u, i)
    <3>1. Update(i, [rows[i] EXCEPT !.status = "cancelled"])
      BY <2>1 DEF CancelSave
    <3> QED
      BY <1>1, <3>1
  <2>2. CASE CancelRead(u, i) \/ CancelPurge(u, i)
    BY <2>2 DEF CancelRead, CancelPurge
  <2> QED
    BY <1>4, <2>1, <2>2 DEF Cancel
<1>5. ASSUME NEW s \in Slots, NEW i \in Jobs, RunJob(s, i) PROVE Goal
  <2>1. CASE RunClaim(s, i)
    BY <2>1 DEF RunClaim, TypeOK
  <2>2. CASE RunCommit(s, i)
    <3>1. CASE i = j
      <4>1. rows'[j] = Committed(j, s)
        BY <2>2, <3>1 DEF RunCommit, TypeOK, Committed
      <4>2. Commits(s, j)
        BY <2>2, <3>1 DEF RunCommit, Commits, Jump, TypeOK, Run
      <4> QED
        BY <2>2, <3>1, <4>1, <4>2 DEF RunCommit
    <3>2. CASE i # j
      BY <2>2, <3>2 DEF RunCommit, TypeOK
    <3> QED
      BY <3>1, <3>2
  <2>3. CASE RunFail(s, i)
    BY <1>2, <2>3 DEF RunFail
  <2>4. CASE RunLoad(s, i) \/ RunPrepare(s, i) \/ RunWait(s, i) \/ RunRead(s, i)
             \/ RunExtract(s, i) \/ RunComplete(s, i) \/ RunAbort(s, i) \/ RunDiscard(s, i)
             \/ RunClean(s, i)
    BY <2>4 DEF RunLoad, RunPrepare, RunWait, RunRead, RunExtract, RunComplete, RunAbort,
                RunDiscard, RunClean
  <2> QED
    BY <1>5, <2>1, <2>2, <2>3, <2>4 DEF RunJob
<1>6. ASSUME NEW p \in Processes, Sweep(p) \/ Retain(p) PROVE Goal
  <2>1. CASE RetainDelete(p)
    BY <2>1 DEF RetainDelete, TypeOK
  <2>2. CASE Sweep(p) \/ RetainSelect(p) \/ \E i \in Jobs : RetainTidy(p, i)
    BY <2>2 DEF Sweep, SweepList, SweepQuery, SweepListAgain, SweepRemove, SweepThrow,
                RetainSelect, RetainTidy
  <2> QED
    BY <1>6, <2>1, <2>2 DEF Retain
<1>7. ASSUME NEW p \in Processes, NEW i \in Jobs, StuckRead(p, i) \/ StuckSave(p, i)
      PROVE  Goal
  BY <1>2, <1>7 DEF StuckRead, StuckSave
<1>8. ASSUME NEW r \in Readers, NEW i \in Jobs, Download(r, i) PROVE Goal
  BY <1>8 DEF Download, PayloadFind, PayloadResult, PayloadServed, PayloadDeleted
<1>9. CASE ApiCrash \/ DispatcherCrash \/ UNCHANGED vars
  BY <1>9 DEF ApiCrash, DispatcherCrash, vars
<1> QED
  BY <1>3, <1>4, <1>5, <1>6, <1>7, <1>8, <1>9 DEF Next

(* History is not undone.                                                  *)
LEMMA PastGrows ==
  ASSUME TypeOK, [Next]_vars
  PROVE  /\ past.released \subseteq past'.released
         /\ past.exposed \subseteq past'.exposed
         /\ past.contested \subseteq past'.contested
<1> DEFINE Grows == /\ past.released \subseteq past'.released
                    /\ past.exposed \subseteq past'.exposed
                    /\ past.contested \subseteq past'.contested
<1>1. ASSUME NEW i \in Jobs,
             \/ past' = past
             \/ Expose(i)
             \/ past' = [past EXCEPT !.released = @ \cup {i}]
             \/ past' = [past EXCEPT !.contested = @ \cup {i}]
      PROVE  Grows
  BY <1>1 DEF Expose, TypeOK
<1>2. CASE past' = past
  BY <1>2
<1>3. ASSUME NEW u \in Requests, NEW i \in Jobs, Submit(u, i) \/ Cancel(u, i) PROVE Grows
  BY <1>1, <1>3 DEF Submit, Cancel, SubmitCreate, UploadMkdir, UploadPart, UploadEnd,
     UploadThrow, UploadRemove, SubmitSave, SubmitReturn, SubmitUndo, SubmitDelete,
     CancelRead, CancelSave, CancelPurge, Release
<1>4. ASSUME NEW s \in Slots, NEW i \in Jobs, RunJob(s, i) PROVE Grows
  BY <1>1, <1>4 DEF RunJob, RunClaim, RunLoad, RunPrepare, RunWait, RunRead, RunExtract,
     RunComplete, RunCommit, RunAbort, RunDiscard, RunFail, RunClean, Release
<1>5. ASSUME NEW p \in Processes, Sweep(p) \/ Retain(p) PROVE Grows
  <2>1. CASE SweepQuery(p)
    BY <2>1 DEF SweepQuery, Answered, TypeOK
  <2>2. CASE past' = past
    BY <2>2
  <2> QED
    BY <1>5, <2>1, <2>2 DEF Sweep, SweepList, SweepListAgain, SweepRemove, SweepThrow, Retain,
       RetainSelect, RetainDelete, RetainTidy
<1>6. ASSUME NEW p \in Processes, NEW i \in Jobs, StuckRead(p, i) \/ StuckSave(p, i)
      PROVE  past' = past
  BY <1>6 DEF StuckRead, StuckSave
<1>7. ASSUME NEW r \in Readers, NEW i \in Jobs, Download(r, i) PROVE past' = past
  BY <1>7 DEF Download, PayloadFind, PayloadResult, PayloadServed, PayloadDeleted
<1>8. CASE ApiCrash \/ DispatcherCrash \/ UNCHANGED vars
  BY <1>2, <1>8 DEF ApiCrash, DispatcherCrash, vars
<1> QED
  BY <1>2, <1>3, <1>4, <1>5, <1>6, <1>7, <1>8 DEF Next

(* A row that is gone stays so, no row comes into being twice, and what a  *)
(* step leaves live was live: who was given up or exposed stays so,        *)
(* whatever a stale markFailed does to the status.                         *)
LEMMA RowsGo ==
  ASSUME TypeOK, RowsAgree, [Next]_vars, NEW j \in Jobs
  PROVE  /\ rows[j].status = "deleted" => rows'[j].status = "deleted"
         /\ rows'[j].status = "absent" => rows'[j] = rows[j]
         /\ rows[j].result = "payload"
            => rows'[j].result = "payload" \/ rows'[j].status = "deleted"
         /\ Live(j)' => Live(j)
         /\ Live(j)' /\ rows[j].stored => rows'[j].stored
         /\ rows'[j].stored /\ ~rows[j].stored => Saves(j)
<1>1. /\ rows[j] \in Row /\ past.released \subseteq past'.released
      /\ past.exposed \subseteq past'.exposed
  BY PastGrows DEF TypeOK
<1>2. /\ rows[j].status = "absent" => ~rows[j].stored
      /\ ~Exists(j) => rows[j].result = "none"
  BY DEF RowsAgree
<1>3. Moved(j)
  BY RowMoves
<1> USE <1>1, <1>2 DEF Live, Row, Exists, Existing, Active, Terminal, BlankRow
<1>4. CASE rows'[j] = rows[j]
  BY <1>4
<1>5. CASE rows[j].status = "absent" /\ rows'[j] = BlankRow("pending")
  BY <1>5
<1>6. CASE Exists(j) /\ rows'[j] = BlankRow("deleted")
  BY <1>6
<1>7. CASE Exists(j) /\ rows'[j] = [rows[j] EXCEPT !.stored = TRUE] /\ Saves(j)
  BY <1>7
<1>8. CASE Exists(j) /\ rows'[j] = [rows[j] EXCEPT !.status = "cancelled"]
  BY <1>8
<1>9. CASE /\ rows[j].status = "pending"
           /\ rows'[j] = [rows[j] EXCEPT !.status = "processing"]
  BY <1>9
<1>10. CASE /\ Exists(j) /\ rows[j].result = "none"
            /\ \E s \in Slots : Commits(s, j) /\ rows'[j] = Committed(j, s)
  <2>1. rows'[j].status = "completed" /\ rows'[j].stored = rows[j].stored
    BY <1>10 DEF Committed
  <2> QED
    BY <1>10, <2>1
<1>11. CASE Exists(j) /\ rows'[j] = MarkedFailed(rows[j])
  <2>1. /\ rows'[j].status \in {"pending", "failed"}
        /\ rows'[j].stored = rows[j].stored /\ rows'[j].result = rows[j].result
    BY <1>11 DEF MarkedFailed
  <2> QED
    BY <1>11, <2>1
<1> HIDE DEF Live, Row, Exists, Existing, Active, Terminal, BlankRow
<1> QED
  BY <1>3, <1>4, <1>5, <1>6, <1>7, <1>8, <1>9, <1>10, <1>11 DEF Moved

(* The ways to write to a directory: leave what is said of it, remove it,  *)
(* which concerns a live job only if its upload is broken, make it where   *)
(* no sweep misses it, store a file.                                       *)
DirMoved(j) ==
  \/ dirs'[j].made = dirs[j].made /\ dirs'[j].input = dirs[j].input
  \/ /\ dirs'[j] = NoDir
     /\ Live(j)' => \E u \in Requests : At(request[u], "broken", j)
  \/ /\ rows[j].status # "absent"
     /\ dirs'[j].made /\ dirs'[j].input = dirs[j].input
     /\ dirs[j].made \/ ~BetweenListings \/ ~Live(j)'
  \/ \E u \in Requests : UploadPart(u, j)

(* A step writes to a directory in one of these ways only.                 *)
LEMMA DirMoves ==
  ASSUME FilesInv, [Next]_vars, NEW j \in Jobs
  PROVE  DirMoved(j)
<1>1. TypeOK /\ dirs \in [Jobs -> Dir] /\ dirs[j] \in Dir
  BY DEF FilesInv, TypeOK
<1>2. /\ Live(j)' => Live(j)
      /\ rows[j].status = "deleted" => ~Live(j)'
  <2>1. Live(j)' => Live(j)
    BY RowsGo DEF FilesInv
  <2> QED
    BY <2>1 DEF Live
<1>3. CASE dirs'[j] = dirs[j]
  BY <1>3 DEF DirMoved
<1>4. ASSUME NEW i \in Jobs, Release(i) PROVE DirMoved(j)
  <2>1. i = j => ~Live(j)'
    BY <1>1, <1>4 DEF Release, Live, TypeOK
  <2> QED
    BY <1>1, <1>4, <2>1 DEF Release, Remove, DirMoved
<1>5. ASSUME NEW i \in Jobs, dirs' = [dirs EXCEPT ![i].made = TRUE], Expose(i),
             rows[i].status # "absent"
      PROVE  DirMoved(j)
  <2>1. CASE i # j
    BY <1>1, <1>5, <2>1 DEF DirMoved
  <2>2. CASE i = j
    <3>1. dirs'[j].made /\ dirs'[j].input = dirs[j].input
      BY <1>1, <1>5, <2>2 DEF Dir
    <3>2. dirs[j].made \/ ~BetweenListings \/ ~Live(j)'
      BY <1>1, <1>5, <2>2 DEF Expose, Live, TypeOK
    <3> QED
      BY <1>5, <2>2, <3>1, <3>2 DEF DirMoved
  <2> QED
    BY <2>1, <2>2
<1>6. ASSUME NEW u \in Requests, NEW i \in Jobs, Submit(u, i) \/ Cancel(u, i)
      PROVE  DirMoved(j)
  <2>1. CASE UploadMkdir(u, i)
    <3>1. rows[i].status # "absent"
      BY <2>1 DEF UploadMkdir, At, FilesInv, Submitters, Submitting
    <3> QED
      BY <1>5, <2>1, <3>1 DEF UploadMkdir
  <2>2. CASE UploadPart(u, i)
    <3>1. i = j \/ dirs'[j] = dirs[j]
      BY <1>1, <2>2 DEF UploadPart
    <3> QED
      BY <1>3, <2>2, <3>1 DEF DirMoved
  <2>3. CASE UploadRemove(u, i)
    BY <1>1, <2>3 DEF UploadRemove, Remove, DirMoved
  <2>4. CASE SubmitUndo(u, i) \/ CancelPurge(u, i)
    BY <1>4, <2>4 DEF SubmitUndo, CancelPurge
  <2>5. CASE \/ SubmitCreate(u, i) \/ UploadEnd(u, i) \/ UploadThrow(u, i) \/ SubmitSave(u, i)
             \/ SubmitReturn(u, i) \/ SubmitDelete(u, i) \/ CancelRead(u, i)
             \/ CancelSave(u, i)
    BY <1>3, <2>5 DEF SubmitCreate, UploadEnd, UploadThrow, SubmitSave, SubmitReturn,
       SubmitDelete, CancelRead, CancelSave, disk
  <2> QED
    BY <1>6, <2>1, <2>2, <2>3, <2>4, <2>5 DEF Submit, Cancel
<1>7. ASSUME NEW s \in Slots, NEW i \in Jobs, RunJob(s, i) PROVE DirMoved(j)
  <2>1. CASE RunPrepare(s, i)
    <3>1. rows[i].status # "absent"
      BY <2>1 DEF RunPrepare, At, FilesInv, RunsMount
    <3> QED
      BY <1>3, <1>5, <2>1, <3>1 DEF RunPrepare
  <2>2. CASE RunWait(s, i)
    <3>1. CASE i # j
      BY <1>1, <1>3, <2>2, <3>1 DEF RunWait
    <3>2. CASE i = j
      <4>1. rows[j].status # "absent" /\ (Live(j) => dirs[j].made)
        BY <2>2, <3>2 DEF RunWait, At, FilesInv, RunsMount
      <4>2. dirs' = dirs \/ (dirs'[j].made /\ dirs'[j].input = dirs[j].input)
        BY <1>1, <2>2, <3>2 DEF RunWait, Dir
      <4> QED
        BY <1>2, <4>1, <4>2 DEF DirMoved
    <3> QED
      BY <3>1, <3>2
  <2>3. CASE RunExtract(s, i)
    <3>1. dirs'[j].made = dirs[j].made /\ dirs'[j].input = dirs[j].input
      BY <1>1, <2>3 DEF RunExtract, ExtractMoves, ExtractFails, ExtractNothing, disk, Dir
    <3> QED
      BY <3>1 DEF DirMoved
  <2>4. CASE RunClean(s, i)
    BY <1>4, <2>4 DEF RunClean
  <2>5. CASE \/ RunClaim(s, i) \/ RunLoad(s, i) \/ RunRead(s, i) \/ RunComplete(s, i)
             \/ RunCommit(s, i) \/ RunAbort(s, i) \/ RunDiscard(s, i) \/ RunFail(s, i)
    BY <1>3, <2>5 DEF RunClaim, RunLoad, RunRead, RunComplete, RunCommit, RunAbort,
       RunDiscard, RunFail, disk
  <2> QED
    BY <1>7, <2>1, <2>2, <2>3, <2>4, <2>5 DEF RunJob
<1>8. ASSUME NEW p \in Processes, Sweep(p) \/ Retain(p) PROVE DirMoved(j)
  <2>1. ASSUME NEW i \in Jobs, SweepRemove(p, i) PROVE DirMoved(j)
    <3>1. i = j => ~Live(j)'
      BY <1>2, <2>1 DEF SweepRemove, FilesInv, SweepsSpare
    <3> QED
      BY <1>1, <2>1, <3>1 DEF SweepRemove, DirMoved
  <2>2. ASSUME NEW i \in Jobs, RetainTidy(p, i) PROVE DirMoved(j)
    <3>1. i = j => ~Live(j)'
      BY <1>2, <2>2 DEF RetainTidy, FilesInv, RowsFirst
    <3> QED
      BY <1>1, <2>2, <3>1 DEF RetainTidy, Remove, DirMoved
  <2>3. CASE \/ SweepList(p) \/ SweepQuery(p) \/ SweepListAgain(p) \/ SweepThrow(p)
             \/ RetainSelect(p) \/ RetainDelete(p)
    BY <1>3, <2>3 DEF SweepList, SweepQuery, SweepListAgain, SweepThrow, RetainSelect,
       RetainDelete, disk
  <2> QED
    BY <1>8, <2>1, <2>2, <2>3 DEF Sweep, Retain
<1>9. ASSUME NEW p \in Processes, NEW i \in Jobs, StuckRead(p, i) \/ StuckSave(p, i)
      PROVE  DirMoved(j)
  BY <1>3, <1>9 DEF StuckRead, StuckSave, disk
<1>10. ASSUME NEW r \in Readers, NEW i \in Jobs, Download(r, i) PROVE DirMoved(j)
  BY <1>3, <1>10 DEF Download, PayloadFind, PayloadResult, PayloadServed, PayloadDeleted, disk
<1>11. CASE ApiCrash \/ DispatcherCrash \/ UNCHANGED vars
  BY <1>3, <1>11 DEF ApiCrash, DispatcherCrash, vars, disk
<1> QED
  BY <1>6, <1>7, <1>8, <1>9, <1>10, <1>11 DEF Next

(* The ways of a request that submits.                                     *)
LEMMA SubmitMoves ==
  ASSUME TypeOK, [Next]_vars, NEW u \in Requests, NEW j \in Jobs, Submitting(u, j)'
  PROVE  \/ request'[u] = request[u]
         \/ SubmitCreate(u, j)
         \/ UploadMkdir(u, j)
         \/ UploadPart(u, j)
         \/ UploadEnd(u, j)
         \/ request'[u].pc = "broken" /\ Submitting(u, j)
<1> DEFINE Goal == \/ request'[u] = request[u]
                   \/ SubmitCreate(u, j)
                   \/ UploadMkdir(u, j)
                   \/ UploadPart(u, j)
                   \/ UploadEnd(u, j)
                   \/ request'[u].pc = "broken" /\ Submitting(u, j)
<1>1. request \in [Requests -> Request]
  BY DEF TypeOK
<1>2. ASSUME NEW v \in Requests, NEW i \in Jobs, Submit(v, i) \/ Cancel(v, i), v # u
      PROVE  request'[u] = request[u]
  BY <1>1, <1>2 DEF Submit, Cancel, SubmitCreate, UploadMkdir, UploadPart, UploadEnd,
     UploadThrow, UploadRemove, SubmitSave, SubmitReturn, SubmitUndo, SubmitDelete,
     CancelRead, CancelSave, CancelPurge, Ask, AskNothing
<1>3. ASSUME NEW i \in Jobs, Submit(u, i) \/ Cancel(u, i) PROVE Goal
  <2>1. CASE SubmitCreate(u, i) \/ UploadMkdir(u, i) \/ UploadPart(u, i) \/ UploadEnd(u, i)
    <3>1. request'[u].jobs = {i}
      BY <1>1, <2>1 DEF SubmitCreate, UploadMkdir, UploadPart, UploadEnd, At, Ask, Request
    <3>2. i = j
      BY <3>1 DEF Submitting
    <3> QED
      BY <2>1, <3>2
  <2>2. CASE UploadThrow(u, i)
    <3>1. /\ request'[u].jobs = request[u].jobs /\ request'[u].pc = "broken"
          /\ request[u].pc \in {"mkdir", "put"}
      BY <1>1, <2>2 DEF UploadThrow, At, Ask, Request
    <3> QED
      BY <3>1 DEF Submitting
  <2>3. CASE \/ UploadRemove(u, i) \/ SubmitSave(u, i) \/ SubmitReturn(u, i)
             \/ SubmitUndo(u, i) \/ SubmitDelete(u, i) \/ Cancel(u, i)
    <3>1. request'[u].pc \notin {"mkdir", "put", "save", "broken"}
      BY <1>1, <2>3 DEF UploadRemove, SubmitSave, SubmitReturn, SubmitUndo, SubmitDelete,
         Cancel, CancelRead, CancelSave, CancelPurge, Ask, AskNothing, NoRequest, Request
    <3> QED
      BY <3>1 DEF Submitting
  <2> QED
    BY <1>3, <2>1, <2>2, <2>3 DEF Submit
<1>4. ASSUME NEW s \in Slots, NEW i \in Jobs, RunJob(s, i) PROVE request' = request
  BY <1>4 DEF RunJob, RunClaim, RunLoad, RunPrepare, RunWait, RunRead, RunExtract,
     RunComplete, RunCommit, RunAbort, RunDiscard, RunFail, RunClean
<1>5. ASSUME NEW p \in Processes, Sweep(p) \/ Retain(p) PROVE Goal
  <2>1. CASE request' = request
    BY <2>1
  <2> QED
    BY <1>5, <2>1 DEF Sweep, SweepList, SweepQuery, SweepListAgain, SweepRemove, SweepThrow,
       Retain, RetainSelect, RetainDelete, RetainTidy
<1>6. ASSUME NEW p \in Processes, NEW i \in Jobs, StuckRead(p, i) \/ StuckSave(p, i)
      PROVE  request' = request
  BY <1>6 DEF StuckRead, StuckSave
<1>7. ASSUME NEW r \in Readers, NEW i \in Jobs, Download(r, i) PROVE request' = request
  BY <1>7 DEF Download, PayloadFind, PayloadResult, PayloadServed, PayloadDeleted
<1>8. CASE ApiCrash
  BY <1>8 DEF ApiCrash, NoRequest, Submitting
<1>9. CASE DispatcherCrash \/ UNCHANGED vars
  BY <1>9 DEF DispatcherCrash, vars, actors
<1> QED
  BY <1>2, <1>3, <1>4, <1>5, <1>6, <1>7, <1>8, <1>9 DEF Next

--------------------------------------------------------------------------------
(* Each part of the invariant for the submissions after a step.            *)

(* A row agrees with itself and its directory after a step.                *)
LEMMA NextRowsAgree ==
  ASSUME FilesInv, [Next]_vars
  PROVE  RowsAgree'
<1> SUFFICES ASSUME NEW j \in Jobs
             PROVE  /\ ~Exists(j)' => rows'[j].result = "none"
                    /\ rows'[j].status = "absent"
                       => ~rows'[j].stored /\ ~dirs'[j].made /\ dirs'[j].input = 0
  BY DEF RowsAgree
<1>1. TypeOK /\ RowsAgree /\ rows[j] \in Row
  BY DEF FilesInv, TypeOK
<1>2. /\ ~Exists(j) => rows[j].result = "none"
      /\ rows[j].status = "absent"
         => ~rows[j].stored /\ ~dirs[j].made /\ dirs[j].input = 0
  BY <1>1 DEF RowsAgree
<1>3. ~Exists(j)' => rows'[j].result = "none"
  <2>1. Moved(j)
    BY <1>1, RowMoves
  <2>2. CASE rows'[j] = rows[j]
    BY <1>2, <2>1, <2>2 DEF Exists
  <2>3. CASE Exists(j) /\ rows'[j] = MarkedFailed(rows[j])
    BY <1>1, <1>2, <2>3 DEF MarkedFailed, Row, Exists, Existing, Active, Terminal
  <2>4. CASE Exists(j) /\ \E s \in Slots : rows'[j] = Committed(j, s)
    BY <1>1, <2>4 DEF Committed, Row, Exists, Existing, Active, Terminal
  <2>5. CASE \/ rows'[j] = BlankRow("pending")
             \/ rows'[j] = BlankRow("deleted")
             \/ Exists(j) /\ rows'[j] = [rows[j] EXCEPT !.stored = TRUE]
             \/ Exists(j) /\ rows'[j] = [rows[j] EXCEPT !.status = "cancelled"]
             \/ /\ rows[j].status = "pending"
                /\ rows'[j] = [rows[j] EXCEPT !.status = "processing"]
    BY <1>1, <1>2, <2>1, <2>5 DEF BlankRow, Row, Exists, Existing, Active, Terminal
  <2> QED
    BY <2>1, <2>2, <2>3, <2>4, <2>5 DEF Moved
<1>4. ASSUME rows'[j].status = "absent"
      PROVE  ~rows'[j].stored /\ ~dirs'[j].made /\ dirs'[j].input = 0
  <2>1. rows'[j] = rows[j] /\ rows[j].status = "absent"
    BY <1>1, <1>4, RowsGo
  <2>2. \A u \in Requests : ~UploadPart(u, j)
    BY <2>1 DEF UploadPart, At, FilesInv, Submitters, Submitting
  <2>3. ~dirs'[j].made /\ dirs'[j].input = 0
    BY <1>2, <2>1, <2>2, DirMoves DEF DirMoved, NoDir
  <2> QED
    BY <1>2, <2>1, <2>3
<1> QED
  BY <1>3, <1>4

(* A job has one submitting request, and no path yet, after a step.        *)
LEMMA NextSubmitters ==
  ASSUME FilesInv, [Next]_vars
  PROVE  Submitters'
<1>1. TypeOK /\ request \in [Requests -> Request] /\ rows \in [Jobs -> Row]
  BY DEF FilesInv, TypeOK
<1>2. ASSUME NEW j \in Jobs, NEW u \in Requests, SubmitCreate(u, j)
      PROVE  /\ rows'[j].status # "absent" /\ ~rows'[j].stored
             /\ \A v \in Requests : Submitting(v, j)' => u = v
  <2>1. rows'[j] = BlankRow("pending") /\ rows[j].status = "absent"
    BY <1>1, <1>2 DEF SubmitCreate
  <2>2. \A v \in Requests \ {u} : request'[v] = request[v]
    BY <1>1, <1>2 DEF SubmitCreate
  <2>3. \A v \in Requests : ~Submitting(v, j)
    BY <2>1 DEF FilesInv, Submitters
  <2> QED
    BY <2>1, <2>2, <2>3 DEF BlankRow, Submitting
<1>3. ASSUME NEW j \in Jobs, NEW u \in Requests, Submitting(u, j)'
      PROVE  Submitting(u, j) \/ SubmitCreate(u, j)
  <2>1. CASE request'[u] = request[u]
    BY <1>3, <2>1 DEF Submitting
  <2>2. CASE UploadMkdir(u, j) \/ UploadPart(u, j) \/ UploadEnd(u, j)
    BY <2>2 DEF UploadMkdir, UploadPart, UploadEnd, At, Submitting
  <2> QED
    BY <1>1, <1>3, <2>1, <2>2, SubmitMoves
<1>4. ASSUME NEW j \in Jobs, NEW u \in Requests, Submitting(u, j)', Submitting(u, j)
      PROVE  /\ rows'[j].status # "absent" /\ ~rows'[j].stored
             /\ \A v \in Requests : Submitting(v, j)' => u = v
  <2>1. /\ rows[j].status # "absent" /\ ~rows[j].stored
        /\ \A v \in Requests : Submitting(v, j) => u = v
    BY <1>4 DEF FilesInv, Submitters
  <2>2. rows'[j].status # "absent"
    BY <2>1, RowsGo DEF FilesInv
  <2>3. ~rows'[j].stored
    <3>1. ~Saves(j)
      BY <1>4, <2>1 DEF Saves, At, Submitting
    <3> QED
      BY <2>1, <3>1, RowsGo DEF FilesInv, TypeOK, Row
  <2>4. ASSUME NEW v \in Requests, Submitting(v, j)' PROVE u = v
    BY <1>3, <2>1, <2>4 DEF SubmitCreate
  <2> QED
    BY <2>2, <2>3, <2>4
<1> QED
  BY <1>2, <1>3, <1>4 DEF Submitters

(* While one request submits, it alone stores files, and only a broken one *)
(* has a live job's directory removed.                                     *)
LEMMA OneUpload ==
  ASSUME FilesInv, [Next]_vars, NEW u \in Requests, NEW j \in Jobs, Submitting(u, j),
         ~UploadPart(u, j)
  PROVE  /\ \/ dirs'[j].input = dirs[j].input /\ (dirs[j].made => dirs'[j].made)
            \/ dirs'[j] = NoDir
         /\ Live(j)' /\ request[u].pc # "broken"
            => dirs'[j].input = dirs[j].input /\ (dirs[j].made => dirs'[j].made)
<1>1. \A v \in Requests : Submitting(v, j) => u = v
  BY DEF FilesInv, Submitters
<1>2. \A v \in Requests : ~UploadPart(v, j)
  BY <1>1 DEF UploadPart, At, Submitting
<1>3. \A v \in Requests : At(request[v], "broken", j) => request[u].pc = "broken"
  BY <1>1 DEF At, Submitting
<1> QED
  BY <1>2, <1>3, DirMoves DEF DirMoved

(* Stored files and files to store make up the submission after a step.    *)
LEMMA NextUploads ==
  ASSUME FilesInv, [Next]_vars, TypeOK'
  PROVE  Uploads'
<1> SUFFICES ASSUME NEW j \in Jobs, NEW u \in Requests, request'[u].jobs = {j},
                    request'[u].pc \in {"mkdir", "put", "save"}
             PROVE  /\ request'[u].pc = "mkdir"
                       => dirs'[j].input = 0 /\ request'[u].left = Parts
                    /\ request'[u].pc = "put"
                       => dirs'[j].input + request'[u].left <= Parts
                    /\ request'[u].pc = "put" /\ Live(j)'
                       => dirs'[j].made /\ dirs'[j].input + request'[u].left = Parts
                    /\ request'[u].pc = "save" /\ Live(j)' => dirs'[j].input = Parts
  BY DEF Uploads
<1>1. /\ request[u] \in Request /\ request'[u] \in Request /\ Parts \in Nat
      /\ dirs[j] \in Dir /\ request \in [Requests -> Request] /\ dirs \in [Jobs -> Dir]
      /\ dirs'[j] \in Dir
  BY PartsAssumption DEF FilesInv, TypeOK
<1>2. Live(j)' => Live(j)
  BY RowsGo DEF FilesInv
<1>3. NoDir.input = 0
  BY DEF NoDir
<1>4. CASE request'[u] = request[u]
  <2>1. Submitting(u, j) /\ request[u].pc # "broken"
    BY <1>4 DEF Submitting
  <2>2. ~UploadPart(u, j)
    <3>1. ASSUME UploadPart(u, j) PROVE FALSE
      <4>1. request'[u].left = request[u].left - 1 /\ request[u].left \in Nat
        BY <1>1, <3>1 DEF UploadPart, Request
      <4> QED
        BY <1>4, <4>1
    <3> QED
      BY <3>1
  <2>3. /\ request[u].pc = "mkdir" => dirs[j].input = 0 /\ request[u].left = Parts
        /\ request[u].pc = "put" => dirs[j].input + request[u].left <= Parts
        /\ request[u].pc = "put" /\ Live(j)
           => dirs[j].made /\ dirs[j].input + request[u].left = Parts
        /\ request[u].pc = "save" /\ Live(j) => dirs[j].input = Parts
    BY <2>1 DEF FilesInv, Uploads, Submitting
  <2>4. CASE dirs'[j].input = dirs[j].input /\ (dirs[j].made => dirs'[j].made)
    BY <1>2, <1>4, <2>3, <2>4
  <2>5. CASE dirs'[j] = NoDir /\ ~Live(j)'
    BY <1>1, <1>3, <1>4, <2>3, <2>5 DEF Request
  <2> QED
    BY <2>1, <2>2, <2>4, <2>5, OneUpload
<1>5. CASE SubmitCreate(u, j)
  <2>1. /\ request'[u] = [pc |-> "mkdir", jobs |-> {j}, left |-> Parts]
        /\ dirs' = dirs /\ dirs[j].input = 0
    BY <1>1, <1>5 DEF SubmitCreate, disk, FilesInv, RowsAgree
  <2> QED
    BY <2>1
<1>6. CASE UploadMkdir(u, j)
  <2>1. /\ request'[u].pc = "put" /\ request'[u].left = request[u].left
        /\ dirs'[j].made /\ dirs'[j].input = dirs[j].input
    BY <1>1, <1>6 DEF UploadMkdir, Ask, Request, Dir
  <2>2. dirs[j].input = 0 /\ request[u].left = Parts
    BY <1>6 DEF UploadMkdir, At, FilesInv, Uploads
  <2> QED
    BY <1>1, <2>1, <2>2
<1>7. CASE UploadPart(u, j)
  <2>1. /\ request'[u].pc = "put" /\ request'[u].left = request[u].left - 1
        /\ dirs'[j].made /\ dirs'[j].input = dirs[j].input + 1
    BY <1>1, <1>7 DEF UploadPart, At, Request, Dir
  <2>2. /\ dirs[j].input + request[u].left <= Parts
        /\ Live(j) => dirs[j].input + request[u].left = Parts
    BY <1>7 DEF UploadPart, At, FilesInv, Uploads
  <2>3. dirs[j].input \in Int /\ request[u].left \in Int
    BY <1>1 DEF Dir, Request
  <2>4. dirs'[j].input + request'[u].left = dirs[j].input + request[u].left
    BY <2>1, <2>3
  <2> QED
    BY <1>2, <2>1, <2>2, <2>4
<1>8. CASE UploadEnd(u, j)
  <2>1. /\ request'[u].pc = "save" /\ dirs' = dirs /\ request[u].left = 0
    BY <1>1, <1>8 DEF UploadEnd, Ask, disk, Request
  <2>2. Live(j) => dirs[j].input + request[u].left = Parts
    BY <1>8 DEF UploadEnd, At, FilesInv, Uploads
  <2> QED
    BY <1>1, <1>2, <2>1, <2>2 DEF Dir
<1> QED
  BY <1>4, <1>5, <1>6, <1>7, <1>8, SubmitMoves DEF FilesInv, Submitting

(* A live job with a source_path has its files after a step.               *)
LEMMA NextWhole ==
  ASSUME FilesInv, [Next]_vars
  PROVE  Whole'
<1> SUFFICES ASSUME NEW j \in Jobs, Live(j)', rows'[j].stored
             PROVE  dirs'[j].input = Parts
  BY DEF Whole
<1>1. Live(j)
  BY RowsGo DEF FilesInv
<1>2. CASE rows[j].stored
  <2>1. dirs[j].input = Parts
    BY <1>1, <1>2 DEF FilesInv, Whole
  <2>2. \A u \in Requests : ~Submitting(u, j)
    BY <1>2 DEF FilesInv, Submitters
  <2> QED
    BY <2>1, <2>2, DirMoves DEF DirMoved, UploadPart, At, Submitting
<1>3. CASE ~rows[j].stored
  <2>1. PICK u \in Requests : At(request[u], "save", j)
    BY <1>3, RowsGo DEF FilesInv, Saves
  <2>2. Submitting(u, j) /\ ~UploadPart(u, j) /\ request[u].pc = "save"
    BY <2>1 DEF At, Submitting, UploadPart
  <2>3. dirs[j].input = Parts
    BY <1>1, <2>1 DEF At, FilesInv, Uploads
  <2> QED
    BY <2>2, <2>3, OneUpload
<1> QED
  BY <1>2, <1>3

(* The ways of a run that has the job.                                     *)
LEMMA RunFrames ==
  ASSUME TypeOK, [Next]_vars, NEW s \in Slots, NEW j \in Jobs, j \in run'[s].jobs
  PROVE  run'[s] = run[s] \/ RunJob(s, j)
<1>1. run \in [Slots -> Run]
  BY DEF TypeOK
<1>2. ASSUME NEW t \in Slots, NEW i \in Jobs, RunJob(t, i), t # s
      PROVE  run'[s] = run[s]
  BY <1>1, <1>2 DEF RunJob, RunClaim, RunLoad, RunPrepare, RunWait, RunRead, RunExtract,
     ExtractMoves, ExtractFails, ExtractNothing, RunComplete, RunCommit, RunAbort,
     RunDiscard, RunFail, RunClean, Jump
<1>3. ASSUME NEW i \in Jobs, RunJob(s, i)
      PROVE  run'[s].jobs \in {{}, {i}}
  <2>1. CASE RunClaim(s, i) \/ RunClean(s, i)
    <3>1. \/ run'[s] = [NoRun EXCEPT !.pc = "load", !.jobs = {i}]
          \/ run'[s] = NoRun
      BY <1>1, <2>1 DEF RunClaim, RunClean
    <3>2. NoRun \in Run /\ NoRun.jobs = {}
      BY DEF NoRun, Run, RunPcs
    <3> QED
      BY <3>1, <3>2 DEF Run
  <2>2. CASE RunLoad(s, i)
    BY <1>1, <2>2 DEF RunLoad, At, NoRun, Run
  <2>3. CASE RunExtract(s, i)
    BY <1>1, <2>3 DEF RunExtract, ExtractMoves, ExtractFails, ExtractNothing, At, Jump, Run
  <2>4. CASE \/ RunPrepare(s, i) \/ RunWait(s, i) \/ RunRead(s, i) \/ RunComplete(s, i)
             \/ RunCommit(s, i) \/ RunAbort(s, i) \/ RunDiscard(s, i) \/ RunFail(s, i)
    <3>1. PICK pc : Jump(s, pc)
      BY <2>4 DEF RunPrepare, RunWait, RunRead, RunComplete, RunCommit, RunAbort, RunDiscard,
         RunFail
    <3>2. run[s].jobs = {i}
      BY <2>4 DEF RunPrepare, RunWait, RunRead, RunComplete, RunCommit, RunAbort, RunDiscard,
         RunFail, At
    <3> QED
      BY <1>1, <3>1, <3>2 DEF Jump, Run
  <2> QED
    BY <1>3, <2>1, <2>2, <2>3, <2>4 DEF RunJob
<1>4. ASSUME NEW u \in Requests, NEW i \in Jobs, Submit(u, i) \/ Cancel(u, i)
      PROVE  run' = run
  BY <1>4 DEF Submit, Cancel, SubmitCreate, UploadMkdir, UploadPart, UploadEnd,
     UploadThrow, UploadRemove, SubmitSave, SubmitReturn, SubmitUndo, SubmitDelete,
     CancelRead, CancelSave, CancelPurge
<1>5. ASSUME NEW p \in Processes, Sweep(p) \/ Retain(p) PROVE run' = run
  BY <1>5 DEF Sweep, SweepList, SweepQuery, SweepListAgain, SweepRemove, SweepThrow,
     Retain, RetainSelect, RetainDelete, RetainTidy
<1>6. ASSUME NEW p \in Processes, NEW i \in Jobs, StuckRead(p, i) \/ StuckSave(p, i)
      PROVE  run' = run
  BY <1>6 DEF StuckRead, StuckSave
<1>7. ASSUME NEW r \in Readers, NEW i \in Jobs, Download(r, i) PROVE run' = run
  BY <1>7 DEF Download, PayloadFind, PayloadResult, PayloadServed, PayloadDeleted
<1>8. CASE DispatcherCrash
  BY <1>8 DEF DispatcherCrash, NoRun
<1>9. CASE ApiCrash \/ UNCHANGED vars
  BY <1>9 DEF ApiCrash, vars, actors
<1> QED
  BY <1>2, <1>3, <1>4, <1>5, <1>6, <1>7, <1>8, <1>9 DEF Next

(* What a pod is about to mount is there after a step.                     *)
LEMMA NextRunsMount ==
  ASSUME FilesInv, [Next]_vars
  PROVE  RunsMount'
<1> SUFFICES ASSUME NEW j \in Jobs, NEW s \in Slots, j \in run'[s].jobs
             PROVE  /\ rows'[j].status # "absent"
                    /\ run'[s].pc \in {"prepare", "wait"} /\ Live(j)' => rows'[j].stored
                    /\ run'[s].pc = "wait" /\ Live(j)' => dirs'[j].made
  BY DEF RunsMount
<1>1. /\ TypeOK /\ run \in [Slots -> Run] /\ dirs \in [Jobs -> Dir]
      /\ Live(j)' => Live(j)
      /\ Live(j)' /\ rows[j].stored => rows'[j].stored
      /\ rows'[j].status = "absent" => rows[j].status = "absent"
  BY RowsGo DEF FilesInv, TypeOK
<1>2. rows[j].stored /\ Live(j)' /\ dirs[j].made => dirs'[j].made
  <2>1. rows[j].stored => \A u \in Requests : ~Submitting(u, j)
    BY DEF FilesInv, Submitters
  <2> QED
    BY <2>1, DirMoves DEF DirMoved, UploadPart, At, Submitting
<1>3. CASE run'[s] = run[s]
  BY <1>1, <1>2, <1>3 DEF FilesInv, RunsMount
<1>4. CASE RunClaim(s, j)
  BY <1>1, <1>4 DEF RunClaim, NoRun
<1>5. CASE RunLoad(s, j)
  <2>1. /\ run[s].jobs = {j} /\ rows' = rows /\ run'[s].pc # "wait"
        /\ run'[s].pc = "prepare" => rows[j].stored
    BY <1>1, <1>5 DEF RunLoad, At, NoRun, Run
  <2> QED
    BY <1>1, <2>1 DEF FilesInv, RunsMount
<1>6. CASE RunPrepare(s, j)
  <2>1. /\ run[s].jobs = {j} /\ run'[s].pc # "prepare"
        /\ run'[s].pc = "wait" => run[s].pc = "prepare" /\ dirs'[j].made
    BY <1>1, <1>6 DEF RunPrepare, At, Jump, Run, Dir
  <2> QED
    BY <1>1, <2>1 DEF FilesInv, RunsMount
<1>7. CASE \/ RunWait(s, j) \/ RunRead(s, j) \/ RunExtract(s, j) \/ RunComplete(s, j)
           \/ RunCommit(s, j) \/ RunAbort(s, j) \/ RunDiscard(s, j) \/ RunFail(s, j)
           \/ RunClean(s, j)
  <2>1. run[s].jobs = {j} /\ run'[s].pc \notin {"prepare", "wait"}
    BY <1>1, <1>7 DEF RunWait, RunRead, RunExtract, ExtractMoves, ExtractFails,
       ExtractNothing, RunComplete, RunCommit, RunAbort, RunDiscard, RunFail, RunClean,
       Thrown, At, Jump, NoRun, Run
  <2> QED
    BY <1>1, <2>1 DEF FilesInv, RunsMount
<1> QED
  BY <1>1, <1>3, <1>4, <1>5, <1>6, <1>7, RunFrames DEF RunJob

(* The ways of a sweep that goes on, and of a retention run.                *)
LEMMA SweepFrames ==
  ASSUME TypeOK, [Next]_vars, NEW p \in Processes
  PROVE  \/ sweep'[p] = sweep[p]
         \/ Sweep(p)
         \/ sweep'[p] = Idle
<1>1. sweep \in [Processes -> Frame({"idle", "query", "list", "remove"})]
  BY DEF TypeOK
<1>2. ASSUME NEW q \in Processes, Sweep(q), p # q
      PROVE  sweep'[p] = sweep[p]
  BY <1>1, <1>2 DEF Sweep, SweepList, SweepQuery, SweepListAgain, SweepRemove, SweepThrow
<1>3. ASSUME NEW u \in Requests, NEW i \in Jobs, Submit(u, i) \/ Cancel(u, i)
      PROVE  sweep' = sweep
  BY <1>3 DEF Submit, Cancel, SubmitCreate, UploadMkdir, UploadPart, UploadEnd,
     UploadThrow, UploadRemove, SubmitSave, SubmitReturn, SubmitUndo, SubmitDelete,
     CancelRead, CancelSave, CancelPurge
<1>4. ASSUME NEW s \in Slots, NEW i \in Jobs, RunJob(s, i) PROVE sweep' = sweep
  BY <1>4 DEF RunJob, RunClaim, RunLoad, RunPrepare, RunWait, RunRead, RunExtract,
     RunComplete, RunCommit, RunAbort, RunDiscard, RunFail, RunClean
<1>5. ASSUME NEW q \in Processes, Retain(q) PROVE sweep' = sweep
  BY <1>5 DEF Retain, RetainSelect, RetainDelete, RetainTidy
<1>6. ASSUME NEW q \in Processes, NEW i \in Jobs, StuckRead(q, i) \/ StuckSave(q, i)
      PROVE  sweep' = sweep
  BY <1>6 DEF StuckRead, StuckSave
<1>7. ASSUME NEW r \in Readers, NEW i \in Jobs, Download(r, i) PROVE sweep' = sweep
  BY <1>7 DEF Download, PayloadFind, PayloadResult, PayloadServed, PayloadDeleted
<1>8. CASE ApiCrash
  BY <1>8 DEF ApiCrash
<1>9. CASE DispatcherCrash \/ UNCHANGED vars
  BY <1>9 DEF DispatcherCrash, vars, actors
<1> QED
  BY <1>2, <1>3, <1>4, <1>5, <1>6, <1>7, <1>8, <1>9 DEF Next

(* No sweep is about to remove a live job's directory after a step.        *)
LEMMA NextSweepsSpare ==
  ASSUME FilesInv, [Next]_vars
  PROVE  SweepsSpare'
<1> SUFFICES ASSUME NEW j \in Jobs, NEW p \in Processes, Live(j)'
             PROVE  /\ sweep'[p].pc \in {"query", "list"} /\ dirs'[j].made
                       => j \in sweep'[p].jobs
                    /\ sweep'[p].pc = "remove" => j \notin sweep'[p].jobs
  BY DEF SweepsSpare
<1>1. /\ TypeOK /\ Live(j)
      /\ sweep \in [Processes -> Frame({"idle", "query", "list", "remove"})]
  BY RowsGo DEF FilesInv, TypeOK
<1>2. /\ sweep[p].pc \in {"query", "list"} /\ dirs[j].made => j \in sweep[p].jobs
      /\ sweep[p].pc = "remove" => j \notin sweep[p].jobs
  BY <1>1 DEF FilesInv, SweepsSpare
<1>3. CASE sweep'[p] = sweep[p]
  <2>1. ASSUME NEW u \in Requests, UploadPart(u, j) PROVE dirs[j].made
    BY <1>1, <2>1 DEF UploadPart, At, FilesInv, Uploads
  <2>2. sweep[p].pc \in {"query", "list"} /\ dirs'[j].made => dirs[j].made
    BY <2>1, DirMoves DEF DirMoved, NoDir, BetweenListings
  <2> QED
    BY <1>2, <1>3, <2>2
<1>4. CASE SweepList(p)
  BY <1>1, <1>4 DEF SweepList, disk
<1>5. CASE SweepQuery(p)
  <2>1. dirs[j].made => rows[j].status # "absent"
    BY DEF FilesInv, RowsAgree
  <2>2. dirs[j].made => j \in sweep[p].jobs
    BY <1>2, <1>5 DEF SweepQuery
  <2>3. dirs[j].made => rows[j].status \notin Terminal
    BY <1>1, <1>5, <2>2 DEF SweepQuery, Answered, Live, TypeOK
  <2>4. dirs[j].made => rows[j].status \in Active
    BY <1>1, <2>1, <2>3 DEF Live, TypeOK, Row, Existing
  <2> QED
    BY <1>1, <1>5, <2>2, <2>4 DEF SweepQuery, disk
<1>6. CASE SweepListAgain(p)
  BY <1>1, <1>2, <1>6 DEF SweepListAgain, Idle
<1>7. ASSUME NEW i \in Jobs, SweepRemove(p, i)
      PROVE  /\ sweep'[p].pc \in {"query", "list"} /\ dirs'[j].made
                => j \in sweep'[p].jobs
             /\ sweep'[p].pc = "remove" => j \notin sweep'[p].jobs
  BY <1>1, <1>2, <1>7 DEF SweepRemove, Idle, Frame
<1>8. CASE sweep'[p] = Idle
  BY <1>8 DEF Idle
<1>9. CASE SweepThrow(p)
  BY <1>1, <1>8, <1>9 DEF SweepThrow
<1> QED
  BY <1>1, <1>3, <1>4, <1>5, <1>6, <1>7, <1>8, <1>9, SweepFrames DEF Sweep

(* The ways of a retention run.                                            *)
LEMMA RetainFrames ==
  ASSUME TypeOK, [Next]_vars, NEW p \in Processes
  PROVE  \/ retain'[p] = retain[p]
         \/ Retain(p)
         \/ retain'[p] = Idle
<1>1. retain \in [Processes -> Frame({"idle", "delete", "tidy"})]
  BY DEF TypeOK
<1>2. ASSUME NEW q \in Processes, Retain(q), p # q
      PROVE  retain'[p] = retain[p]
  BY <1>1, <1>2 DEF Retain, RetainSelect, RetainDelete, RetainTidy
<1>3. ASSUME NEW u \in Requests, NEW i \in Jobs, Submit(u, i) \/ Cancel(u, i)
      PROVE  retain' = retain
  BY <1>3 DEF Submit, Cancel, SubmitCreate, UploadMkdir, UploadPart, UploadEnd,
     UploadThrow, UploadRemove, SubmitSave, SubmitReturn, SubmitUndo, SubmitDelete,
     CancelRead, CancelSave, CancelPurge
<1>4. ASSUME NEW s \in Slots, NEW i \in Jobs, RunJob(s, i) PROVE retain' = retain
  BY <1>4 DEF RunJob, RunClaim, RunLoad, RunPrepare, RunWait, RunRead, RunExtract,
     RunComplete, RunCommit, RunAbort, RunDiscard, RunFail, RunClean
<1>5. ASSUME NEW q \in Processes, Sweep(q) PROVE retain' = retain
  BY <1>5 DEF Sweep, SweepList, SweepQuery, SweepListAgain, SweepRemove, SweepThrow
<1>6. ASSUME NEW q \in Processes, NEW i \in Jobs, StuckRead(q, i) \/ StuckSave(q, i)
      PROVE  retain' = retain
  BY <1>6 DEF StuckRead, StuckSave
<1>7. ASSUME NEW r \in Readers, NEW i \in Jobs, Download(r, i) PROVE retain' = retain
  BY <1>7 DEF Download, PayloadFind, PayloadResult, PayloadServed, PayloadDeleted
<1>8. CASE ApiCrash
  BY <1>8 DEF ApiCrash
<1>9. CASE DispatcherCrash \/ UNCHANGED vars
  BY <1>9 DEF DispatcherCrash, vars, actors
<1> QED
  BY <1>2, <1>3, <1>4, <1>5, <1>6, <1>7, <1>8, <1>9 DEF Next

(* Retention removes files of deleted rows only, after a step.             *)
LEMMA NextRowsFirst ==
  ASSUME FilesInv, [Next]_vars
  PROVE  RowsFirst'
<1> SUFFICES ASSUME NEW p \in Processes, NEW j \in retain'[p].jobs
             PROVE  /\ retain'[p].pc = "delete" => rows'[j].status # "absent"
                    /\ retain'[p].pc = "tidy" => rows'[j].status = "deleted"
  BY DEF RowsFirst
<1>1. TypeOK /\ retain \in [Processes -> Frame({"idle", "delete", "tidy"})]
  BY DEF FilesInv, TypeOK
<1>2. CASE retain'[p] = retain[p]
  <2>1. j \in Jobs /\ j \in retain[p].jobs
    BY <1>1, <1>2 DEF Frame
  <2> QED
    BY <1>2, <2>1, RowsGo DEF FilesInv, RowsFirst
<1>3. CASE RetainSelect(p)
  BY <1>1, <1>3 DEF RetainSelect, Terminal
<1>4. CASE RetainDelete(p)
  <2>1. /\ j \in Jobs /\ j \in retain[p].jobs /\ rows[j].status # "absent"
        /\ retain'[p].pc = "tidy"
    BY <1>1, <1>4 DEF RetainDelete, Frame, FilesInv, RowsFirst
  <2>2. rows[j].status \in Existing \cup {"deleted"}
    BY <2>1 DEF FilesInv, TypeOK, Row
  <2> QED
    BY <1>4, <2>1, <2>2 DEF RetainDelete, Exists, BlankRow
<1>5. ASSUME NEW i \in Jobs, RetainTidy(p, i)
      PROVE  retain'[p] = Idle \/ rows'[j].status = "deleted"
  BY <1>1, <1>5 DEF RetainTidy, Frame, FilesInv, RowsFirst
<1>6. retain'[p] # Idle
  BY DEF Idle
<1> QED
  BY <1>1, <1>2, <1>3, <1>4, <1>5, <1>6, RetainFrames DEF Retain

(* Every step keeps the invariant for the submissions.                     *)
LEMMA NextFilesInv == FilesInv /\ [Next]_vars => FilesInv'
<1> SUFFICES ASSUME FilesInv, [Next]_vars PROVE FilesInv'
  OBVIOUS
<1>1. TypeOK'
  BY NextTyped DEF FilesInv
<1> QED
  BY <1>1, NextRowsAgree, NextSubmitters, NextUploads, NextWhole, NextRunsMount,
     NextSweepsSpare, NextRowsFirst DEF FilesInv

--------------------------------------------------------------------------------
(* Each part of the invariant for the payloads after a step.               *)

(* Only a run that has the job removes its payload, or retention once the  *)
(* row is gone.                                                            *)
LEMMA PayloadMoves ==
  ASSUME PayloadInv, [Next]_vars, NEW j \in Jobs, j \in payloads, j \notin payloads'
  PROVE  \/ rows[j].status = "deleted"
         \/ \E s \in Slots : RunExtract(s, j) \/ RunDiscard(s, j)
<1> DEFINE Goal == \/ rows[j].status = "deleted"
                   \/ \E s \in Slots : RunExtract(s, j) \/ RunDiscard(s, j)
<1>1. ASSUME NEW u \in Requests, NEW i \in Jobs, Submit(u, i) \/ Cancel(u, i)
      PROVE  payloads' = payloads
  BY <1>1 DEF Submit, Cancel, SubmitCreate, UploadMkdir, UploadPart, UploadEnd,
     UploadThrow, UploadRemove, SubmitSave, SubmitReturn, SubmitUndo, SubmitDelete,
     CancelRead, CancelSave, CancelPurge, disk
<1>2. ASSUME NEW s \in Slots, NEW i \in Jobs, RunJob(s, i) PROVE Goal
  <2>1. CASE RunExtract(s, i)
    <3>1. i = j
      BY <2>1 DEF RunExtract, ExtractMoves, ExtractFails, ExtractNothing, disk
    <3> QED
      BY <2>1, <3>1
  <2>2. CASE RunDiscard(s, i)
    <3>1. i = j
      BY <2>2 DEF RunDiscard, RemovePayload
    <3> QED
      BY <2>2, <3>1
  <2>3. CASE payloads' = payloads
    BY <2>3
  <2> QED
    BY <1>2, <2>1, <2>2, <2>3 DEF RunJob, RunClaim, RunLoad, RunPrepare, RunWait, RunRead,
       RunComplete, RunCommit, RunAbort, RunFail, RunClean, disk
<1>3. ASSUME NEW p \in Processes, Sweep(p) \/ Retain(p) PROVE Goal
  <2>1. ASSUME NEW i \in Jobs, RetainTidy(p, i) PROVE Goal
    <3>1. i = j /\ j \in retain[p].jobs /\ retain[p].pc = "tidy"
      BY <2>1 DEF RetainTidy, RemovePayload
    <3> QED
      BY <3>1 DEF PayloadInv, FilesInv, RowsFirst
  <2>2. CASE payloads' = payloads
    BY <2>2
  <2> QED
    BY <1>3, <2>1, <2>2 DEF Sweep, SweepList, SweepQuery, SweepListAgain, SweepRemove,
       SweepThrow, Retain, RetainSelect, RetainDelete, disk
<1>4. ASSUME NEW p \in Processes, NEW i \in Jobs, StuckRead(p, i) \/ StuckSave(p, i)
      PROVE  payloads' = payloads
  BY <1>4 DEF StuckRead, StuckSave, disk
<1>5. ASSUME NEW r \in Readers, NEW i \in Jobs, Download(r, i) PROVE payloads' = payloads
  BY <1>5 DEF Download, PayloadFind, PayloadResult, PayloadServed, PayloadDeleted, disk
<1>6. CASE ApiCrash \/ DispatcherCrash \/ UNCHANGED vars
  BY <1>6 DEF ApiCrash, DispatcherCrash, vars, disk
<1> QED
  BY <1>1, <1>2, <1>3, <1>4, <1>5, <1>6 DEF Next

(* A download comes to its file only through its second query.             *)
LEMMA ReaderFrames ==
  ASSUME TypeOK, [Next]_vars, NEW r \in Readers, NEW j \in reader'[r].jobs,
         reader'[r].pc = "stat"
  PROVE  reader'[r] = reader[r] \/ PayloadResult(r, j)
<1>1. reader \in [Readers -> Frame({"idle", "result", "stat"})]
  BY DEF TypeOK
<1>2. ASSUME NEW q \in Readers, NEW i \in Jobs, Download(q, i)
      PROVE  reader'[r] = reader[r] \/ PayloadResult(r, j)
  <2>1. CASE q # r
    BY <1>1, <1>2, <2>1
       DEF Download, PayloadFind, PayloadResult, PayloadServed, PayloadDeleted
  <2>2. CASE q = r
    <3>1. PayloadResult(r, i)
      BY <1>1, <1>2, <2>2 DEF Download, PayloadFind, PayloadServed, PayloadDeleted, Idle
    <3>2. i = j
      BY <1>1, <3>1 DEF PayloadResult, At, Idle, Frame
    <3> QED
      BY <3>1, <3>2
  <2> QED
    BY <2>1, <2>2
<1>3. ASSUME NEW u \in Requests, NEW i \in Jobs, Submit(u, i) \/ Cancel(u, i)
      PROVE  reader' = reader
  BY <1>3 DEF Submit, Cancel, SubmitCreate, UploadMkdir, UploadPart, UploadEnd,
     UploadThrow, UploadRemove, SubmitSave, SubmitReturn, SubmitUndo, SubmitDelete,
     CancelRead, CancelSave, CancelPurge
<1>4. ASSUME NEW s \in Slots, NEW i \in Jobs, RunJob(s, i) PROVE reader' = reader
  BY <1>4 DEF RunJob, RunClaim, RunLoad, RunPrepare, RunWait, RunRead, RunExtract,
     RunComplete, RunCommit, RunAbort, RunDiscard, RunFail, RunClean
<1>5. ASSUME NEW p \in Processes, Sweep(p) \/ Retain(p) PROVE reader' = reader
  BY <1>5 DEF Sweep, SweepList, SweepQuery, SweepListAgain, SweepRemove, SweepThrow,
     Retain, RetainSelect, RetainDelete, RetainTidy
<1>6. ASSUME NEW p \in Processes, NEW i \in Jobs, StuckRead(p, i) \/ StuckSave(p, i)
      PROVE  reader' = reader
  BY <1>6 DEF StuckRead, StuckSave
<1>7. CASE ApiCrash
  BY <1>7 DEF ApiCrash, Idle
<1>8. CASE DispatcherCrash \/ UNCHANGED vars
  BY <1>8 DEF DispatcherCrash, vars, actors
<1> QED
  BY <1>2, <1>3, <1>4, <1>5, <1>6, <1>7, <1>8 DEF Next

(* A result comes from a run that commits.                                 *)
LEMMA ResultMoves ==
  ASSUME TypeOK, [Next]_vars, NEW j \in Jobs,
         rows'[j].result # "none", rows'[j].result # rows[j].result
  PROVE  \E s \in Slots : /\ Commits(s, j) /\ Exists(j)
                          /\ rows'[j].result = "payload" => run[s].payload
<1>1. Moved(j) /\ rows[j] \in Row
  BY RowMoves DEF TypeOK
<1>2. ~(Exists(j) /\ rows'[j] = MarkedFailed(rows[j]))
  BY <1>1 DEF MarkedFailed, Row
<1>3. PICK s \in Slots : Exists(j) /\ Commits(s, j) /\ rows'[j] = Committed(j, s)
  BY <1>1, <1>2 DEF Moved, BlankRow, Row
<1>4. rows'[j].result = IF run[s].payload THEN "payload" ELSE "plain"
  BY <1>1, <1>3 DEF Committed, Row
<1> QED
  BY <1>3, <1>4

(* Where a run of j was before the step.                                   *)
LEMMA RunStays ==
  ASSUME TypeOK, [Next]_vars, NEW s \in Slots, NEW j \in Jobs, j \in run'[s].jobs
  PROVE  \/ RunClaim(s, j)
         \/ j \in run[s].jobs /\ (run'[s] = run[s] \/ RunJob(s, j))
<1>1. RunJob(s, j) => RunClaim(s, j) \/ j \in run[s].jobs
  BY DEF RunJob, RunLoad, RunPrepare, RunWait, RunRead, RunExtract, RunComplete, RunCommit,
     RunAbort, RunDiscard, RunFail, RunClean, At
<1> QED
  BY <1>1, RunFrames

(* Unless contested, a job has one run and no result, after a step.        *)
LEMMA NextRunsAlone ==
  ASSUME PayloadInv, [Next]_vars
  PROVE  RunsAlone'
<1>1. /\ TypeOK /\ run \in [Slots -> Run] /\ rows \in [Jobs -> Row]
      /\ past.contested \subseteq past'.contested
  BY PastGrows DEF PayloadInv, FilesInv, TypeOK
<1>2. ASSUME NEW j \in Jobs, NEW s \in Slots, RunClaim(s, j), j \notin past'.contested
      PROVE  /\ rows'[j].result = "none"
             /\ \A t \in Slots : j \in run'[t].jobs => s = t
  <2>1. rows[j].result = "none" /\ \A t \in Slots : j \notin run[t].jobs
    BY <1>1, <1>2 DEF RunClaim, TypeOK
  <2>2. rows'[j].result = "none"
    BY <1>1, <1>2, <2>1 DEF RunClaim, Row
  <2>3. \A t \in Slots \ {s} : run'[t] = run[t]
    BY <1>1, <1>2 DEF RunClaim
  <2> QED
    BY <2>1, <2>2, <2>3
<1>3. ASSUME NEW j \in Jobs, NEW s \in Slots, j \in run'[s].jobs
      PROVE  run'[s].pc \in Early => ~run'[s].payload
  <2>1. CASE RunClaim(s, j)
    BY <1>1, <2>1 DEF RunClaim, NoRun
  <2>2. CASE run'[s] = run[s] /\ j \in run[s].jobs
    BY <2>2 DEF PayloadInv, RunsAlone
  <2>3. CASE RunLoad(s, j) \/ RunPrepare(s, j) \/ RunWait(s, j) \/ RunRead(s, j)
    <3>1. j \in run[s].jobs /\ run[s].pc \in Early
      BY <2>3 DEF RunLoad, RunPrepare, RunWait, RunRead, At, Early
    <3>2. ~run[s].payload
      BY <3>1 DEF PayloadInv, RunsAlone
    <3> QED
      BY <1>1, <2>3, <3>2 DEF RunLoad, RunPrepare, RunWait, RunRead, Jump, NoRun, Run
  <2>4. CASE RunExtract(s, j)
    BY <1>1, <2>4 DEF RunExtract, ExtractMoves, ExtractFails, ExtractNothing, Jump, Run, Early
  <2>5. CASE \/ RunComplete(s, j) \/ RunCommit(s, j) \/ RunAbort(s, j) \/ RunDiscard(s, j)
             \/ RunFail(s, j) \/ RunClean(s, j)
    <3>1. run'[s].pc \notin Early
      BY <1>1, <1>3, <2>5 DEF RunComplete, RunCommit, RunAbort, RunDiscard, RunFail, RunClean,
         Thrown, Jump, NoRun, Run, Early
    <3> QED
      BY <3>1
  <2> QED
    BY <1>1, <1>3, <2>1, <2>2, <2>3, <2>4, <2>5, RunStays DEF RunJob
<1>4. ASSUME NEW j \in Jobs, NEW s \in Slots, j \in run'[s].jobs, j \notin past'.contested
      PROVE  \A t \in Slots : j \in run'[t].jobs => s = t
  <2> SUFFICES ASSUME NEW t \in Slots, j \in run'[t].jobs PROVE s = t
    OBVIOUS
  <2>1. CASE RunClaim(s, j) \/ RunClaim(t, j)
    BY <1>2, <1>4, <2>1
  <2>2. CASE j \in run[s].jobs /\ j \in run[t].jobs
    BY <1>1, <1>4, <2>2 DEF PayloadInv, RunsAlone
  <2> QED
    BY <1>1, <1>4, <2>1, <2>2, RunStays
<1>5. ASSUME NEW j \in Jobs, NEW s \in Slots, j \in run'[s].jobs, j \notin past'.contested,
             run'[s].pc # "clean"
      PROVE  rows'[j].result = "none"
  <2>1. CASE RunClaim(s, j)
    BY <1>2, <1>5, <2>1
  <2>2. CASE j \in run[s].jobs /\ (run'[s] = run[s] \/ RunJob(s, j))
    <3>1. /\ \A t \in Slots : j \in run[t].jobs => s = t
          /\ run[s].pc # "clean" => rows[j].result = "none"
      BY <1>1, <1>5, <2>2 DEF PayloadInv, RunsAlone
    <3>2. run[s].pc # "clean"
      <4>1. RunClean(s, j) => run'[s].jobs = {}
        BY <1>1 DEF RunClean, NoRun
      <4>2. RunJob(s, j) => run[s].pc # "clean" \/ RunClean(s, j)
        BY DEF RunJob, RunClaim, RunLoad, RunPrepare, RunWait, RunRead, RunExtract,
           RunComplete, RunCommit, RunAbort, RunDiscard, RunFail, At, NoRun
      <4> QED
        BY <1>5, <2>2, <4>1, <4>2
    <3>3. \A t \in Slots : ~Commits(t, j)
      BY <1>5, <3>1 DEF Commits, At
    <3> QED
      BY <1>1, <3>1, <3>2, <3>3, ResultMoves
  <2> QED
    BY <1>1, <1>5, <2>1, <2>2, RunStays
<1>6. ASSUME NEW j \in Jobs, NEW s \in Slots, j \in run'[s].jobs, j \notin past'.contested,
             run'[s].payload, run'[s].pc \in {"complete", "commit"}
      PROVE  j \in payloads' \/ rows'[j].status = "deleted"
  <2>1. CASE RunClaim(s, j)
    BY <1>1, <1>6, <2>1 DEF RunClaim, NoRun
  <2>2. CASE run'[s] = run[s] /\ j \in run[s].jobs
    <3>1. /\ \A t \in Slots : j \in run[t].jobs => s = t
          /\ j \in payloads \/ rows[j].status = "deleted"
      BY <1>1, <1>6, <2>2 DEF PayloadInv, RunsAlone
    <3>2. \A t \in Slots : RunExtract(t, j) \/ RunDiscard(t, j) => s = t
      BY <3>1 DEF RunExtract, RunDiscard, At
    <3>3. ~RunExtract(s, j) /\ ~RunDiscard(s, j)
      BY <1>6, <2>2 DEF RunExtract, RunDiscard, At
    <3>4. rows[j].status = "deleted" => rows'[j].status = "deleted"
      BY RowsGo DEF PayloadInv, FilesInv
    <3> QED
      BY <3>1, <3>2, <3>3, <3>4, PayloadMoves
  <2>3. CASE RunExtract(s, j)
    <3>1. ~run[s].payload
      BY <2>3 DEF RunExtract, At, PayloadInv, RunsAlone, Early
    <3> QED
      BY <1>1, <1>6, <2>3, <3>1
         DEF RunExtract, ExtractMoves, ExtractFails, ExtractNothing, Jump, Run
  <2>4. CASE RunComplete(s, j)
    <3>1. run[s].payload
      BY <1>1, <1>6, <2>4 DEF RunComplete, Jump, Run
    <3>2. j \in payloads \/ rows[j].status = "deleted"
      BY <1>1, <1>6, <2>4, <3>1 DEF RunComplete, At, PayloadInv, RunsAlone
    <3> QED
      BY <2>4, <3>2 DEF RunComplete, disk
  <2>5. CASE \/ RunLoad(s, j) \/ RunPrepare(s, j) \/ RunWait(s, j) \/ RunRead(s, j)
             \/ RunCommit(s, j) \/ RunAbort(s, j) \/ RunDiscard(s, j) \/ RunFail(s, j)
             \/ RunClean(s, j)
    <3>1. run'[s].pc \notin {"complete", "commit"}
      BY <1>1, <2>5 DEF RunLoad, RunPrepare, RunWait, RunRead, RunCommit, RunAbort,
         RunDiscard, RunFail, RunClean, Thrown, Jump, NoRun, Run
    <3> QED
      BY <1>6, <3>1
  <2> QED
    BY <1>1, <1>6, <2>1, <2>2, <2>3, <2>4, <2>5, RunStays DEF RunJob
<1> QED
  BY <1>3, <1>4, <1>5, <1>6 DEF RunsAlone

(* The payload a result names is there after a step.                       *)
LEMMA NextRecorded ==
  ASSUME PayloadInv, [Next]_vars
  PROVE  Recorded'
<1> SUFFICES ASSUME NEW j \in Jobs, j \notin past'.contested, rows'[j].result = "payload"
             PROVE  j \in payloads'
  BY DEF Recorded
<1>1. TypeOK /\ j \notin past.contested
  BY PastGrows DEF PayloadInv, FilesInv
<1>2. CASE rows[j].result = "payload"
  <2>1. j \in payloads /\ rows[j].status # "deleted"
    BY <1>1, <1>2 DEF PayloadInv, FilesInv, Recorded, RowsAgree, Exists, Existing, Active,
       Terminal
  <2>2. \A s \in Slots : ~RunExtract(s, j) /\ ~RunDiscard(s, j)
    BY <1>1, <1>2 DEF RunExtract, RunDiscard, At, PayloadInv, RunsAlone
  <2> QED
    BY <2>1, <2>2, PayloadMoves
<1>3. CASE rows[j].result # "payload"
  <2>1. PICK s \in Slots : Commits(s, j) /\ Exists(j) /\ run[s].payload
    BY <1>1, <1>3, ResultMoves
  <2>2. rows[j].status # "deleted" /\ At(run[s], "commit", j)
    BY <2>1 DEF Exists, Existing, Active, Terminal, Commits
  <2>3. j \in payloads /\ \A t \in Slots : j \in run[t].jobs => s = t
    BY <1>1, <2>1, <2>2 DEF At, PayloadInv, RunsAlone
  <2>4. \A t \in Slots : ~RunExtract(t, j) /\ ~RunDiscard(t, j)
    BY <2>2, <2>3 DEF RunExtract, RunDiscard, At
  <2> QED
    BY <2>2, <2>3, <2>4, PayloadMoves
<1> QED
  BY <1>2, <1>3

(* What a download has read still holds, or the job is gone.               *)
LEMMA NextReading ==
  ASSUME PayloadInv, [Next]_vars
  PROVE  Reading'
<1> SUFFICES ASSUME NEW r \in Readers, NEW j \in reader'[r].jobs, reader'[r].pc = "stat"
             PROVE  rows'[j].result = "payload" \/ rows'[j].status = "deleted"
  BY DEF Reading
<1>1. TypeOK /\ reader \in [Readers -> Frame({"idle", "result", "stat"})]
  BY DEF PayloadInv, FilesInv, TypeOK
<1>2. CASE reader'[r] = reader[r]
  <2>1. /\ j \in Jobs
        /\ rows[j].result = "payload" \/ rows[j].status = "deleted"
    BY <1>1, <1>2 DEF Frame, PayloadInv, Reading
  <2> QED
    BY <2>1, RowsGo DEF PayloadInv, FilesInv
<1>3. CASE PayloadResult(r, j)
  BY <1>1, <1>3 DEF PayloadResult, Idle
<1> QED
  BY <1>1, <1>2, <1>3, ReaderFrames

--------------------------------------------------------------------------------
(* The theorems.                                                           *)

(* The invariant holds on an empty volume.                                 *)
LEMMA InitPayloadInv == Init => PayloadInv
<1> SUFFICES ASSUME Init PROVE PayloadInv
  OBVIOUS
<1>1. TypeOK
  <2>1. BlankRow("absent") \in Row /\ NoDir \in Dir
    BY BlankTyped, NoDirTyped
  <2>2. NoRequest \in Request /\ NoRun \in Run
    BY PartsAssumption DEF NoRequest, Request, RequestPcs, NoRun, Run, RunPcs
  <2> QED
    BY <2>1, <2>2 DEF Init, TypeOK, Frame, Idle
<1>2. RowsAgree /\ Whole /\ Recorded
  BY DEF Init, RowsAgree, Whole, Recorded, BlankRow, NoDir, Exists, Existing, Active, Terminal
<1>3. Submitters /\ Uploads /\ RunsMount /\ RunsAlone
  BY DEF Init, Submitters, Uploads, Submitting, RunsMount, RunsAlone, NoRequest, NoRun
<1>4. SweepsSpare /\ RowsFirst /\ Reading
  BY DEF Init, SweepsSpare, RowsFirst, Reading, Idle
<1> QED
  BY <1>1, <1>2, <1>3, <1>4 DEF PayloadInv, FilesInv

(* The invariant the others rest on: what every actor has read before an   *)
(* await still agrees with the rows and the volume when it goes on.        *)
THEOREM FilesInvariance == Spec => []PayloadInv
<1>1. PayloadInv /\ [Next]_vars => PayloadInv'
  BY NextFilesInv, NextRunsAlone, NextRecorded, NextReading DEF PayloadInv
<1> QED
  BY <1>1, InitPayloadInv, PTL DEF Spec

(* Rows, directories and frames keep their types; an upload never stores   *)
(* more than the submission has.                                           *)
THEOREM FilesTypeCorrect == Spec => []TypeOK
<1>1. PayloadInv => TypeOK
  BY DEF PayloadInv, FilesInv
<1> QED
  BY <1>1, FilesInvariance, PTL

(* The submission of a job that waits or runs is whole on disk, jobs that  *)
(* a stale save requeued included, unless it was given up, its directory   *)
(* was made between the two listings of cleanupOrphanedFiles, or the job   *)
(* had ended when a sweep asked which jobs are active.                     *)
THEOREM WholeSubmissions == Spec => []SubmissionIsWhole
<1>1. PayloadInv => SubmissionIsWhole
  BY DEF PayloadInv, FilesInv, Whole, Live, Active, SubmissionIsWhole
<1> QED
  BY <1>1, FilesInvariance, PTL

(* The payload that the result of a completed job names is on disk, unless *)
(* the job is contested: claimed while another run of it was alive, or     *)
(* although it had a result.                                               *)
THEOREM PayloadsStay == Spec => []RecordedPayloadIsThere
<1>1. PayloadInv => RecordedPayloadIsThere
  BY DEF PayloadInv, Recorded, RecordedPayloadIsThere
<1> QED
  BY <1>1, FilesInvariance, PTL

(* PAYLOAD_DELETED is answered only for a job whose row is deleted, unless *)
(* the job is contested.                                                   *)
THEOREM DeletedForGood == Spec => DeletedPayloadIsGone
<1>1. PayloadInv =>
        \A r \in Readers, j \in Jobs \ past.contested :
          PayloadDeleted(r, j) => rows[j].status = "deleted"
  BY DEF PayloadInv, Recorded, Reading, PayloadDeleted, At
<1>2. PayloadInv /\ [Next]_vars =>
        [\A r \in Readers, j \in Jobs \ past.contested :
           PayloadDeleted(r, j) => rows[j].status = "deleted"]_vars
  BY <1>1
<1> QED
  BY <1>2, FilesInvariance, PTL DEF Spec, DeletedPayloadIsGone

--------------------------------------------------------------------------------
(* The record that a client polls.                                         *)
StatusShown == [j \in Jobs |-> rows[j].status]

HasResult == {j \in Jobs : rows[j].result # "none"}

RecordStep == Record!Next \/ UNCHANGED <<StatusShown, HasResult>>

OnlyRow(j) == \A i \in Jobs \ {j} : rows'[i] = rows[i]

(* Retention apart, a step writes one row at most.                         *)
LEMMA OneRow ==
  ASSUME TypeOK, [Next]_vars, \A p \in Processes : ~RetainDelete(p)
  PROVE  UNCHANGED rows \/ \E j \in Jobs : OnlyRow(j)
<1>. DEFINE Goal == UNCHANGED rows \/ \E j \in Jobs : OnlyRow(j)
<1>1. ASSUME NEW i \in Jobs, NEW new, Update(i, new) PROVE Goal
  BY <1>1 DEF Update, OnlyRow, TypeOK
<1>2. ASSUME NEW u \in Requests, NEW i \in Jobs, Submit(u, i) PROVE Goal
  <2>1. CASE SubmitCreate(u, i)
    BY <2>1 DEF SubmitCreate, OnlyRow, TypeOK
  <2>2. CASE SubmitSave(u, i) \/ SubmitDelete(u, i)
    BY <1>1, <2>2 DEF SubmitSave, SubmitDelete
  <2>3. CASE UploadMkdir(u, i) \/ UploadPart(u, i) \/ UploadEnd(u, i) \/ UploadThrow(u, i)
             \/ UploadRemove(u, i) \/ SubmitReturn(u, i) \/ SubmitUndo(u, i)
    BY <2>3 DEF UploadMkdir, UploadPart, UploadEnd, UploadThrow, UploadRemove, SubmitReturn,
                SubmitUndo
  <2>. QED
    BY <1>2, <2>1, <2>2, <2>3 DEF Submit
<1>3. ASSUME NEW u \in Requests, NEW i \in Jobs, Cancel(u, i) PROVE Goal
  BY <1>1, <1>3 DEF Cancel, CancelRead, CancelSave, CancelPurge
<1>4. ASSUME NEW s \in Slots, NEW i \in Jobs, RunJob(s, i) PROVE Goal
  <2>1. CASE RunClaim(s, i)
    BY <2>1 DEF RunClaim, OnlyRow, TypeOK
  <2>2. CASE RunCommit(s, i)
    BY <2>2 DEF RunCommit, OnlyRow, TypeOK
  <2>3. CASE RunFail(s, i)
    BY <1>1, <2>3 DEF RunFail
  <2>4. CASE RunLoad(s, i) \/ RunPrepare(s, i) \/ RunWait(s, i) \/ RunRead(s, i)
             \/ RunExtract(s, i) \/ RunComplete(s, i) \/ RunAbort(s, i) \/ RunDiscard(s, i)
             \/ RunClean(s, i)
    BY <2>4 DEF RunLoad, RunPrepare, RunWait, RunRead, RunExtract, RunComplete, RunAbort,
                RunDiscard, RunClean
  <2>. QED
    BY <1>4, <2>1, <2>2, <2>3, <2>4 DEF RunJob
<1>5. ASSUME NEW p \in Processes, Sweep(p) \/ Retain(p) PROVE Goal
  BY <1>5 DEF Sweep, SweepList, SweepQuery, SweepListAgain, SweepRemove, SweepThrow,
              Retain, RetainSelect, RetainTidy
<1>6. ASSUME NEW p \in Processes, NEW i \in Jobs, StuckRead(p, i) \/ StuckSave(p, i)
      PROVE  Goal
  BY <1>1, <1>6 DEF StuckRead, StuckSave
<1>7. ASSUME NEW r \in Readers, NEW i \in Jobs, Download(r, i) PROVE Goal
  BY <1>7 DEF Download, PayloadFind, PayloadResult, PayloadServed, PayloadDeleted
<1>8. CASE ApiCrash \/ DispatcherCrash \/ UNCHANGED vars
  BY <1>8 DEF ApiCrash, DispatcherCrash, vars
<1>. QED
  BY <1>2, <1>3, <1>4, <1>5, <1>6, <1>7, <1>8 DEF Next

(* What the record sees of one row that is written.                        *)
LEMMA RecordMoves ==
  ASSUME TypeOK, NEW j \in Jobs, OnlyRow(j), NEW new,
         rows'[j].status = new, rows'[j].result = rows[j].result
  PROVE  /\ StatusShown' = [StatusShown EXCEPT ![j] = new]
         /\ HasResult' = HasResult
BY DEF StatusShown, HasResult, OnlyRow, TypeOK

(* Each of the ways to write one row is a step of the record, or none.     *)
LEMMA RecordOneRow ==
  ASSUME PayloadInv, NEW j \in Jobs, OnlyRow(j), Moved(j)
  PROVE  RecordStep
<1>0. TypeOK /\ rows[j] \in Row
  BY DEF PayloadInv, FilesInv, TypeOK
<1>1. ASSUME rows'[j].status = rows[j].status, rows'[j].result = rows[j].result
      PROVE  RecordStep
  BY <1>1 DEF RecordStep, StatusShown, HasResult, OnlyRow
<1>2. ASSUME Exists(j), rows'[j].status \in {"pending", "failed", "cancelled"},
             rows'[j].result = rows[j].result
      PROVE  RecordStep
  <2>1. PICK new \in {"pending", "failed", "cancelled"} : rows'[j].status = new
    BY <1>2
  <2>2. StatusShown' = [StatusShown EXCEPT ![j] = new] /\ HasResult' = HasResult
    BY <1>0, <1>2, <2>1, RecordMoves
  <2>3. StatusShown[j] \in Record!Shown
    BY <1>2 DEF StatusShown, Exists, Existing, Active, Terminal, Record!Shown
  <2>4. Record!Overwrite(j)
    BY <2>2, <2>3 DEF Record!Overwrite, StatusShown, HasResult
  <2>. QED
    BY <2>4 DEF RecordStep, Record!Next
<1>3. CASE rows'[j] = rows[j]
  BY <1>1, <1>3
<1>4. CASE rows[j].status = "absent" /\ rows'[j] = BlankRow("pending")
  <2>1. rows'[j].status = "pending" /\ rows'[j].result = rows[j].result
    BY <1>4 DEF PayloadInv, FilesInv, RowsAgree, Exists, Existing, Active, Terminal, BlankRow
  <2>2. StatusShown' = [StatusShown EXCEPT ![j] = "pending"] /\ HasResult' = HasResult
    BY <1>0, <2>1, RecordMoves
  <2>3. Record!Create(j)
    BY <1>4, <2>2 DEF Record!Create, StatusShown, HasResult
  <2>. QED
    BY <2>3 DEF RecordStep, Record!Next
<1>5. CASE Exists(j) /\ rows'[j] = BlankRow("deleted")
  <2>1. StatusShown' = [i \in Jobs |-> IF i \in {j} THEN "deleted" ELSE StatusShown[i]]
    BY <1>5 DEF StatusShown, OnlyRow, BlankRow
  <2>2. HasResult' = HasResult \ {j}
    BY <1>5 DEF HasResult, OnlyRow, BlankRow
  <2>3. StatusShown[j] \in Record!Shown
    BY <1>5 DEF StatusShown, Exists, Existing, Active, Terminal, Record!Shown
  <2>4. Record!Delete({j})
    BY <2>1, <2>2, <2>3 DEF Record!Delete, StatusShown, HasResult
  <2>. QED
    BY <2>4 DEF RecordStep, Record!Next
<1>6. CASE Exists(j) /\ rows'[j] = [rows[j] EXCEPT !.stored = TRUE]
  BY <1>0, <1>1, <1>6 DEF Row
<1>7. CASE Exists(j) /\ rows'[j] = [rows[j] EXCEPT !.status = "cancelled"]
  BY <1>0, <1>2, <1>7 DEF Row
<1>8. CASE /\ rows[j].status = "pending"
           /\ rows'[j] = [rows[j] EXCEPT !.status = "processing"]
  <2>1. rows'[j].status = "processing" /\ rows'[j].result = rows[j].result
    BY <1>0, <1>8 DEF Row
  <2>2. StatusShown' = [StatusShown EXCEPT ![j] = "processing"] /\ HasResult' = HasResult
    BY <1>0, <2>1, RecordMoves
  <2>3. Record!Claim(j)
    BY <1>8, <2>2 DEF Record!Claim, StatusShown, HasResult
  <2>. QED
    BY <2>3 DEF RecordStep, Record!Next
<1>9. ASSUME NEW s \in Slots, Exists(j), rows[j].result = "none", rows'[j] = Committed(j, s)
      PROVE  RecordStep
  <2>1. rows'[j].status = "completed" /\ rows'[j].result # "none"
    BY <1>0, <1>9 DEF Committed, Row
  <2>2. StatusShown' = [StatusShown EXCEPT ![j] = "completed"]
    BY <2>1 DEF StatusShown, OnlyRow
  <2>3. j \notin HasResult /\ HasResult' = HasResult \cup {j}
    BY <1>9, <2>1 DEF HasResult, OnlyRow
  <2>4. StatusShown[j] \in Record!Shown
    BY <1>9 DEF StatusShown, Exists, Existing, Active, Terminal, Record!Shown
  <2>5. Record!Grade(j)
    BY <2>2, <2>3, <2>4 DEF Record!Grade, StatusShown, HasResult
  <2>. QED
    BY <2>5 DEF RecordStep, Record!Next
<1>10. CASE Exists(j) /\ rows'[j] = MarkedFailed(rows[j])
  <2>1. rows'[j].status \in {"pending", "failed"} /\ rows'[j].result = rows[j].result
    BY <1>0, <1>10 DEF MarkedFailed, Row
  <2>. QED
    BY <1>2, <1>10, <2>1
<1>. QED
  BY <1>3, <1>4, <1>5, <1>6, <1>7, <1>8, <1>9, <1>10 DEF Moved

(* Retention deletes what it selected and is still there.                  *)
LEMMA RecordRetained ==
  ASSUME TypeOK, NEW p \in Processes, RetainDelete(p)
  PROVE  RecordStep
<1>1. PICK gone \in SUBSET Jobs : gone = {j \in retain[p].jobs : Exists(j)}
  BY DEF TypeOK, Frame
<1>2. \A j \in Jobs : rows'[j] = IF j \in gone THEN BlankRow("deleted") ELSE rows[j]
  BY <1>1 DEF RetainDelete
<1>3. StatusShown' = [j \in Jobs |-> IF j \in gone THEN "deleted" ELSE StatusShown[j]]
  BY <1>2 DEF BlankRow, StatusShown
<1>4. HasResult' = HasResult \ gone
  BY <1>2 DEF BlankRow, HasResult
<1>5. \A j \in gone : StatusShown[j] \in Record!Shown
  BY <1>1 DEF StatusShown, Exists, Existing, Active, Terminal, Record!Shown
<1>6. Record!Delete(gone)
  BY <1>3, <1>4, <1>5 DEF Record!Delete, StatusShown, HasResult
<1>. QED
  BY <1>6 DEF RecordStep, Record!Next

(* The files' view of a job's life implements the one the lifecycle service*)
(* implements: it adds no way to become completed, or to reappear.         *)
THEOREM FilesImplementRecord == Spec => RecordSpec
<1>1. Init => Record!Init
  BY DEF Init, BlankRow, Record!Init
<1>2. PayloadInv /\ [Next]_vars => [Record!Next]_(Record!recordVars)
  <2>. SUFFICES ASSUME PayloadInv, [Next]_vars
                PROVE  RecordStep
    BY DEF Record!recordVars, RecordStep, StatusShown, HasResult
  <2>1. TypeOK
    BY DEF PayloadInv, FilesInv
  <2>2. CASE UNCHANGED rows
    BY <2>2 DEF RecordStep, StatusShown, HasResult
  <2>3. CASE \E j \in Jobs : OnlyRow(j)
    BY <2>1, <2>3, RowMoves, RecordOneRow
  <2>4. CASE \E p \in Processes : RetainDelete(p)
    BY <2>1, <2>4, RecordRetained
  <2>. QED
    BY <2>1, <2>2, <2>3, <2>4, OneRow
<1>. QED
  BY <1>1, <1>2, FilesInvariance, PTL DEF Spec, RecordSpec, Record!Spec

================================================================================
