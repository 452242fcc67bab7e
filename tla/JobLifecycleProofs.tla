-------------------------- MODULE JobLifecycleProofs --------------------------
(***************************************************************************)
(* What JobLifecycle guarantees for every set of jobs and callers and      *)
(* every max_retries: the inductive invariant Inv, the safety properties   *)
(* it implies and the refinement of GradeLedger.                           *)
(***************************************************************************)
EXTENDS JobLifecycle, FiniteSetTheorems, TLAPS

(* A result row belongs to a job row that exists, and a job whose result   *)
(* was purged is gone for good: the foreign key and its cascade.           *)
ResultsHaveJobs ==
  \A j \in Jobs : /\ results[j] = "stored" => Exists(j)
                  /\ results[j] = "purged" => rows[j].status = "deleted"

(* CompletedHasResult survives a deletion only because of ResultsHaveJobs, *)
(* and CountedOnce a commit only because results[j] = "none" before it.    *)
RowsInv ==
  /\ ResultsHaveJobs
  /\ CompletedHasResult
  /\ FinishedRowsExpire
  /\ CountedOnce

Inv == TypeOK /\ RowsInv

--------------------------------------------------------------------------------
(* Lemmas about the helpers the actions are built from.                    *)

(* A row that was just created or deleted is a row of the table.           *)
LEMMA BlankRowType ==
  ASSUME NEW status \in Statuses
  PROVE  BlankRow(status) \in Row
BY MaxRetriesAssumption DEF BlankRow, Row

(* No call in flight is a frame.                                           *)
LEMMA IdleType == Idle \in Frame
BY BlankRowType DEF Idle, Frame, NoRow, Ops, Statuses

(* UPDATE keeps the table well typed.                                      *)
LEMMA UpdateType ==
  ASSUME TypeOK, NEW j \in Jobs, NEW new \in Row, Update(j, new)
  PROVE  rows' \in [Jobs -> Row]
BY DEF TypeOK, Update

(* So does DELETE with its cascade.                                        *)
LEMMA DeleteRowsType ==
  ASSUME TypeOK, NEW S \in SUBSET Jobs, DeleteRows(S)
  PROVE  /\ rows' \in [Jobs -> Row]
         /\ results' \in [Jobs -> {"none", "stored", "purged"}]
<1>1. BlankRow("deleted") \in Row
  BY BlankRowType DEF Statuses
<1>. QED
  BY <1>1 DEF TypeOK, DeleteRows

(* Entering, advancing and leaving a call keep the frames well typed.      *)
LEMMA CallType ==
  ASSUME TypeOK, NEW c \in Callers, NEW op \in Ops,
         \/ Goto(c, op)
         \/ Return(c)
         \/ \E j \in Jobs, snap \in Row : Enter(c, op, j, snap)
  PROVE  call' \in [Callers -> Frame]
<1>1. CASE Goto(c, op)
  <2>1. [call[c] EXCEPT !.op = op] \in Frame
    BY DEF TypeOK, Frame
  <2>. QED
    BY <1>1, <2>1 DEF TypeOK, Goto
<1>2. CASE Return(c)
  BY <1>2, IdleType DEF TypeOK, Return
<1>3. CASE \E j \in Jobs, snap \in Row : Enter(c, op, j, snap)
  BY <1>3 DEF TypeOK, Enter, Frame
<1>. QED
  BY <1>1, <1>2, <1>3

(* What markFailed remembers and what it saves are rows; a retry is only   *)
(* counted below max_retries.                                              *)
LEMMA FailTypes ==
  ASSUME NEW row \in Row, NEW snap \in Row
  PROVE  /\ Snapshot(row) \in Row
         /\ Failed(row, snap) \in Row
         /\ MayRetry(snap) => Requeued(row, snap) \in Row
<1>1. Snapshot(row) \in Row
  BY DEF Snapshot, Row
<1>2. Failed(row, snap) \in Row
  BY DEF Failed, Row, Statuses, Existing, Terminal
<1>3. ASSUME MayRetry(snap) PROVE Requeued(row, snap) \in Row
  <2>1. snap.retries + 1 \in 0..MaxRetries
    BY <1>3, MaxRetriesAssumption DEF MayRetry, Row
  <2>. QED
    BY <2>1 DEF Requeued, Row, Statuses, Existing, Terminal
<1>. QED
  BY <1>1, <1>2, <1>3

--------------------------------------------------------------------------------
(* What each way to touch the tables does to RowsInv.                      *)

(* A step that leaves the tables alone.                                    *)
LEMMA RowsUnchanged ==
  ASSUME RowsInv, UNCHANGED <<rows, results, completions>>
  PROVE  RowsInv'
BY DEF RowsInv, ResultsHaveJobs, CompletedHasResult, FinishedRowsExpire,
       CountedOnce, Graded, Exists

(* An UPDATE that moves a row between the statuses a job can have, that    *)
(* does not make it completed and that dates it when it makes it failed.   *)
LEMMA RowsUpdated ==
  ASSUME TypeOK, RowsInv, NEW j \in Jobs, NEW new \in Row, Update(j, new),
         Exists(j) =>
           /\ new.status \in Existing
           /\ new.status = "completed" => rows[j].status = "completed"
           /\ new.status \in {"completed", "failed"} => new.ended,
         UNCHANGED <<results, completions>>
  PROVE  RowsInv'
<1>1. CASE ~Exists(j)
  <2>1. rows' = rows
    BY <1>1 DEF Update
  <2>. QED
    BY <2>1, RowsUnchanged
<1>2. CASE Exists(j)
  <2>1. rows' = [rows EXCEPT ![j] = new]
    BY <1>2 DEF Update
  <2>2. ResultsHaveJobs'
    BY <1>2, <2>1 DEF TypeOK, RowsInv, ResultsHaveJobs, Exists, Existing, Terminal
  <2>3. CompletedHasResult'
    BY <1>2, <2>1 DEF TypeOK, RowsInv, CompletedHasResult
  <2>4. FinishedRowsExpire'
    BY <1>2, <2>1 DEF TypeOK, RowsInv, FinishedRowsExpire
  <2>5. CountedOnce'
    BY DEF RowsInv, CountedOnce, Graded
  <2>. QED
    BY <2>2, <2>3, <2>4, <2>5 DEF RowsInv
<1>. QED
  BY <1>1, <1>2

(* A DELETE: the result goes with its row, the grade stays counted.        *)
LEMMA RowsDeleted ==
  ASSUME TypeOK, RowsInv, NEW S \in SUBSET Jobs, DeleteRows(S),
         UNCHANGED completions
  PROVE  RowsInv' /\ Graded' = Graded
<1>1. ResultsHaveJobs'
  BY DEF TypeOK, RowsInv, ResultsHaveJobs, DeleteRows, BlankRow, Exists,
         Existing, Terminal
<1>2. CompletedHasResult'
  BY DEF TypeOK, RowsInv, CompletedHasResult, DeleteRows, BlankRow
<1>3. FinishedRowsExpire'
  BY DEF TypeOK, RowsInv, FinishedRowsExpire, DeleteRows, BlankRow
<1>4. Graded' = Graded
  BY DEF TypeOK, DeleteRows, Graded
<1>5. CountedOnce'
  BY <1>4 DEF RowsInv, CountedOnce
<1>. QED
  BY <1>1, <1>2, <1>3, <1>4, <1>5 DEF RowsInv

(* A commit: the job had no result, so its grade is new and counted once.  *)
LEMMA RowsCommitted ==
  ASSUME TypeOK, RowsInv, NEW c \in Callers, NEW j \in Jobs, CompleteCommit(c, j)
  PROVE  /\ RowsInv'
         /\ j \notin Graded
         /\ Graded' = Graded \cup {j}
<1>. USE DEF CompleteCommit, CanCommit
<1>1. ResultsHaveJobs'
  BY DEF TypeOK, RowsInv, ResultsHaveJobs, Exists, Existing, Terminal
<1>2. CompletedHasResult'
  BY DEF TypeOK, RowsInv, CompletedHasResult
<1>3. FinishedRowsExpire'
  BY DEF TypeOK, Row, RowsInv, FinishedRowsExpire
<1>4. /\ j \notin Graded
      /\ Graded' = Graded \cup {j}
  BY DEF TypeOK, Graded
<1>5. CountedOnce'
  <2>1. IsFiniteSet(Graded)
    BY JobsAssumption, FS_Subset DEF Graded
  <2>2. Cardinality(Graded') = Cardinality(Graded) + 1
    BY <1>4, <2>1, FS_AddElement
  <2>. QED
    BY <2>2 DEF RowsInv, CountedOnce
<1>. QED
  BY <1>1, <1>2, <1>3, <1>4, <1>5 DEF RowsInv

--------------------------------------------------------------------------------
(* The inductive invariant.                                                *)

(* Inv holds of the empty tables.                                          *)
LEMMA InvInit == Init => Inv
<1>. SUFFICES ASSUME Init PROVE Inv
  OBVIOUS
<1>1. TypeOK
  BY BlankRowType, IdleType DEF Init, TypeOK, NoRow, Statuses
<1>2. ResultsHaveJobs /\ CompletedHasResult /\ FinishedRowsExpire
  BY DEF Init, ResultsHaveJobs, CompletedHasResult, FinishedRowsExpire, NoRow,
         BlankRow
<1>3. CountedOnce
  <2>1. Graded = {}
    BY DEF Init, Graded
  <2>. QED
    BY <2>1, FS_EmptySet DEF Init, CountedOnce
<1>. QED
  BY <1>1, <1>2, <1>3 DEF Inv, RowsInv

(* submitJob preserves it: a row created over an absent one has no result, *)
(* and its deletion by the catch block cascades.                           *)
LEMMA SubmitInv ==
  ASSUME Inv, NEW c \in Callers, NEW j \in Jobs, Submit(c, j)
  PROVE  Inv'
<1>. USE DEF Inv
<1>1. CASE SubmitCreate(c, j)
  <2>1. BlankRow("pending") \in Row /\ NoRow \in Row
    BY BlankRowType DEF NoRow, Statuses, Existing
  <2>2. TypeOK'
    <3>1. rows' \in [Jobs -> Row]
      BY <1>1, <2>1 DEF SubmitCreate, TypeOK
    <3>2. call' \in [Callers -> Frame]
      BY <1>1, <2>1, CallType DEF SubmitCreate, Ops
    <3>. QED
      BY <1>1, <3>1, <3>2 DEF SubmitCreate, TypeOK
  <2>3. results[j] = "none"
    BY <1>1 DEF SubmitCreate, TypeOK, RowsInv, ResultsHaveJobs, Exists, Existing,
                Terminal
  <2>4. ResultsHaveJobs' /\ CompletedHasResult' /\ FinishedRowsExpire'
    BY <1>1, <2>3 DEF SubmitCreate, TypeOK, RowsInv, ResultsHaveJobs,
                      CompletedHasResult, FinishedRowsExpire, BlankRow, Exists
  <2>5. CountedOnce'
    BY <1>1 DEF SubmitCreate, RowsInv, CountedOnce, Graded
  <2>. QED
    BY <2>2, <2>4, <2>5 DEF RowsInv
<1>2. CASE SubmitUpload(c, j)
  <2>1. TypeOK'
    BY <1>2, CallType DEF SubmitUpload, TypeOK, Ops
  <2>. QED
    BY <1>2, <2>1, RowsUnchanged DEF SubmitUpload
<1>3. CASE SubmitSave(c, j)
  <2>. DEFINE new == [rows[j] EXCEPT !.stored = TRUE]
  <2>1. new \in Row
    BY DEF TypeOK, Row
  <2>2. TypeOK'
    BY <1>3, <2>1, UpdateType, CallType DEF SubmitSave, TypeOK, Ops
  <2>3. RowsInv'
    <3>1. Exists(j) => /\ new.status \in Existing
                       /\ new.status = "completed" => rows[j].status = "completed"
                       /\ new.status \in {"completed", "failed"} => new.ended
      BY DEF Exists, TypeOK, Row, RowsInv, FinishedRowsExpire
    <3>. QED
      BY <1>3, <2>1, <3>1, RowsUpdated DEF SubmitSave
  <2>. QED
    BY <2>2, <2>3
<1>4. CASE SubmitReturn(c, j)
  <2>1. TypeOK'
    BY <1>4, CallType DEF SubmitReturn, TypeOK, Ops
  <2>. QED
    BY <1>4, <2>1, RowsUnchanged DEF SubmitReturn
<1>5. CASE SubmitThrow(c, j)
  <2>1. TypeOK'
    BY <1>5, CallType DEF SubmitThrow, TypeOK, Ops
  <2>. QED
    BY <1>5, <2>1, RowsUnchanged DEF SubmitThrow
<1>6. CASE SubmitUndo(c, j)
  <2>1. TypeOK'
    BY <1>6, CallType DEF SubmitUndo, TypeOK, Ops
  <2>. QED
    BY <1>6, <2>1, RowsUnchanged DEF SubmitUndo
<1>7. CASE SubmitDelete(c, j)
  <2>1. TypeOK'
    <3>1. rows' \in [Jobs -> Row] /\ results' \in [Jobs -> {"none", "stored", "purged"}]
      BY <1>7, DeleteRowsType DEF SubmitDelete
    <3>. QED
      BY <1>7, <3>1, CallType DEF SubmitDelete, TypeOK, Ops
  <2>. QED
    BY <1>7, <2>1, RowsDeleted DEF SubmitDelete
<1>. QED
  BY <1>1, <1>2, <1>3, <1>4, <1>5, <1>6, <1>7 DEF Submit

(* markCompleted preserves it: the insert of the second result is refused. *)
LEMMA MarkCompletedInv ==
  ASSUME Inv, NEW c \in Callers, NEW j \in Jobs, MarkCompleted(c, j)
  PROVE  Inv'
<1>. USE DEF Inv
<1>1. CASE CompleteRead(c, j)
  <2>1. BlankRow(rows[j].status) \in Row
    BY BlankRowType DEF TypeOK, Row
  <2>2. TypeOK'
    BY <1>1, <2>1, CallType DEF CompleteRead, TypeOK, Ops
  <2>. QED
    BY <1>1, <2>2, RowsUnchanged DEF CompleteRead
<1>2. CASE CompleteCommit(c, j)
  <2>1. [rows[j] EXCEPT !.status = "completed", !.ended = TRUE] \in Row
    BY DEF TypeOK, Row, Statuses, Existing, Terminal
  <2>2. rows' \in [Jobs -> Row]
    BY <1>2, <2>1 DEF CompleteCommit, TypeOK
  <2>3. TypeOK'
    BY <1>2, <2>2, CallType DEF CompleteCommit, TypeOK, Ops
  <2>. QED
    BY <1>2, <2>3, RowsCommitted
<1>. QED
  BY <1>1, <1>2 DEF MarkCompleted

(* markFailed preserves it: its stale save neither makes a job completed   *)
(* nor takes completed_at away, and counts retries up to max_retries.      *)
LEMMA MarkFailedInv ==
  ASSUME Inv, NEW c \in Callers, NEW j \in Jobs, MarkFailed(c, j)
  PROVE  Inv'
<1>. USE DEF Inv
<1>1. CASE FailRead(c, j)
  <2>1. Snapshot(rows[j]) \in Row
    BY FailTypes DEF TypeOK
  <2>2. TypeOK'
    BY <1>1, <2>1, CallType DEF FailRead, TypeOK, Ops
  <2>. QED
    BY <1>1, <2>2, RowsUnchanged DEF FailRead
<1>2. CASE FailSave(c, j)
  <2>. DEFINE snap == call[c].snap
              new == IF MayRetry(snap) THEN Requeued(rows[j], snap)
                                       ELSE Failed(rows[j], snap)
  <2>1. rows[j] \in Row /\ snap \in Row
    BY DEF TypeOK, Frame
  <2>2. new \in Row
    BY <2>1, FailTypes
  <2>3. Update(j, new) /\ Return(c) /\ UNCHANGED <<results, completions, inputs>>
    BY <1>2 DEF FailSave
  <2>4. TypeOK'
    <3>1. rows' \in [Jobs -> Row]
      BY <2>2, <2>3, UpdateType
    <3>. QED
      BY <2>3, <3>1, CallType DEF TypeOK, Ops
  <2>5. Exists(j) => /\ new.status \in Existing
                     /\ new.status = "completed" => rows[j].status = "completed"
                     /\ new.status \in {"completed", "failed"} => new.ended
    <3>1. CASE MayRetry(snap)
      BY <2>1, <3>1 DEF Requeued, Row, Exists, Existing, Terminal, RowsInv,
                        FinishedRowsExpire
    <3>2. CASE ~MayRetry(snap)
      BY <2>1, <3>2 DEF Failed, Row, Exists, Existing, Terminal
    <3>. QED
      BY <3>1, <3>2
  <2>6. RowsInv'
    BY <2>2, <2>3, <2>5, RowsUpdated
  <2>. QED
    BY <2>4, <2>6
<1>. QED
  BY <1>1, <1>2 DEF MarkFailed

(* cancelJob preserves it, also when it overwrites a job that has started. *)
LEMMA CancelInv ==
  ASSUME Inv, NEW c \in Callers, NEW j \in Jobs, Cancel(c, j)
  PROVE  Inv'
<1>. USE DEF Inv
<1>1. CASE CancelRead(c, j)
  <2>1. BlankRow(rows[j].status) \in Row
    BY BlankRowType DEF TypeOK, Row
  <2>2. TypeOK'
    BY <1>1, <2>1, CallType DEF CancelRead, TypeOK, Ops
  <2>. QED
    BY <1>1, <2>2, RowsUnchanged DEF CancelRead
<1>2. CASE CancelSave(c, j)
  <2>. DEFINE new == [rows[j] EXCEPT !.status = "cancelled"]
  <2>1. new \in Row /\ new.status = "cancelled"
    BY DEF TypeOK, Row, Statuses, Existing, Terminal
  <2>2. Update(j, new) /\ Goto(c, "purge") /\ UNCHANGED <<results, completions, inputs>>
    BY <1>2 DEF CancelSave
  <2>3. TypeOK'
    <3>1. rows' \in [Jobs -> Row]
      BY <2>1, <2>2, UpdateType
    <3>. QED
      BY <2>2, <3>1, CallType DEF TypeOK, Ops
  <2>4. RowsInv'
    <3>. HIDE DEF new
    <3>1. new.status \in Existing
      BY <2>1 DEF Existing, Terminal
    <3>. QED
      BY <2>1, <2>2, <3>1, RowsUpdated
  <2>. QED
    BY <2>3, <2>4
<1>3. CASE CancelPurge(c, j)
  <2>1. TypeOK'
    BY <1>3, CallType DEF CancelPurge, TypeOK, Ops
  <2>. QED
    BY <1>3, <2>1, RowsUnchanged DEF CancelPurge
<1>. QED
  BY <1>1, <1>2, <1>3 DEF Cancel

(* Retention preserves it whatever has become of the jobs it selected.     *)
LEMMA RetainInv ==
  ASSUME Inv, NEW c \in Callers, Retain(c)
  PROVE  Inv'
<1>. USE DEF Inv
<1>1. ASSUME NEW S \in SUBSET Jobs, RetainSelect(c, S)
      PROVE  Inv'
  <2>1. [op |-> "retain", jobs |-> S, snap |-> NoRow] \in Frame
    BY BlankRowType DEF Frame, Ops, NoRow, Statuses
  <2>2. TypeOK'
    BY <1>1, <2>1 DEF RetainSelect, TypeOK
  <2>. QED
    BY <1>1, <2>2, RowsUnchanged DEF RetainSelect
<1>2. CASE RetainDelete(c)
  <2>1. call[c].jobs \in SUBSET Jobs
    BY DEF TypeOK, Frame
  <2>2. TypeOK'
    <3>1. rows' \in [Jobs -> Row] /\ results' \in [Jobs -> {"none", "stored", "purged"}]
      BY <1>2, <2>1, DeleteRowsType DEF RetainDelete
    <3>. QED
      BY <1>2, <3>1, CallType DEF RetainDelete, TypeOK, Ops
  <2>. QED
    BY <1>2, <2>1, <2>2, RowsDeleted DEF RetainDelete
<1>3. CASE RetainTidy(c)
  <2>1. TypeOK'
    BY <1>3, CallType DEF RetainTidy, TypeOK, Ops
  <2>. QED
    BY <1>3, <2>1, RowsUnchanged DEF RetainTidy
<1>. QED
  BY <1>1, <1>2, <1>3 DEF Retain

(* So does everything else: the claim, the passage of time, a call that is *)
(* aborted, the removal of files and a crash.                              *)
LEMMA OthersInv ==
  ASSUME Inv,
         \/ \E j \in Jobs : Claim(j) \/ PassTimeout(j) \/ CleanupSubmission(j)
         \/ \E c \in Callers, j \in Jobs : Abort(c, j)
         \/ \E C \in SUBSET Callers : Crash(C)
  PROVE  Inv'
<1>. USE DEF Inv
<1>1. ASSUME NEW j \in Jobs, Claim(j) \/ PassTimeout(j)
      PROVE  Inv'
  <2>1. PICK new \in Row : /\ rows' = [rows EXCEPT ![j] = new]
                           /\ new.status = "processing"
    <3>1. CASE Claim(j)
      <4>. DEFINE new == [rows[j] EXCEPT !.status = "processing", !.started = "recent"]
      <4>1. new \in Row /\ new.status = "processing"
        BY DEF TypeOK, Row, Statuses, Existing
      <4>2. rows' = [rows EXCEPT ![j] = new]
        BY <3>1 DEF Claim, TypeOK, Row
      <4>. QED
        BY <4>1, <4>2
    <3>2. CASE PassTimeout(j)
      <4>. DEFINE new == [rows[j] EXCEPT !.started = "overdue"]
      <4>1. new \in Row /\ new.status = "processing"
        BY <3>2 DEF PassTimeout, TypeOK, Row
      <4>2. rows' = [rows EXCEPT ![j] = new]
        BY <3>2 DEF PassTimeout, TypeOK, Row
      <4>. QED
        BY <4>1, <4>2
    <3>. QED
      BY <1>1, <3>1, <3>2
  <2>2. Exists(j) /\ UNCHANGED <<results, completions, inputs, call>>
    BY <1>1 DEF Claim, PassTimeout, Exists, Existing
  <2>3. TypeOK'
    BY <2>1, <2>2 DEF TypeOK
  <2>4. RowsInv'
    <3>1. Update(j, new)
      BY <2>1, <2>2 DEF Update
    <3>2. new.status \in Existing
      BY <2>1 DEF Existing
    <3>. QED
      BY <2>1, <2>2, <3>1, <3>2, RowsUpdated
  <2>. QED
    BY <2>3, <2>4
<1>2. ASSUME NEW j \in Jobs, CleanupSubmission(j)
      PROVE  Inv'
  <2>1. TypeOK'
    BY <1>2 DEF CleanupSubmission, TypeOK
  <2>. QED
    BY <1>2, <2>1, RowsUnchanged DEF CleanupSubmission
<1>3. ASSUME NEW c \in Callers, NEW j \in Jobs, Abort(c, j)
      PROVE  Inv'
  <2>1. TypeOK'
    BY <1>3, CallType DEF Abort, TypeOK, Ops
  <2>. QED
    BY <1>3, <2>1, RowsUnchanged DEF Abort
<1>4. ASSUME NEW C \in SUBSET Callers, Crash(C)
      PROVE  Inv'
  <2>1. TypeOK'
    BY <1>4, IdleType DEF Crash, TypeOK
  <2>. QED
    BY <1>4, <2>1, RowsUnchanged DEF Crash
<1>. QED
  BY <1>1, <1>2, <1>3, <1>4

(* Every step preserves Inv.                                               *)
LEMMA InvNext == Inv /\ [Next]_vars => Inv'
<1>. SUFFICES ASSUME Inv, [Next]_vars PROVE Inv'
  OBVIOUS
<1>1. CASE UNCHANGED vars
  <2>1. TypeOK'
    BY <1>1 DEF vars, Inv, TypeOK
  <2>. QED
    BY <1>1, <2>1, RowsUnchanged DEF vars, Inv
<1>2. CASE Next
  BY <1>2, SubmitInv, MarkCompletedInv, MarkFailedInv, CancelInv, RetainInv,
     OthersInv DEF Next
<1>. QED
  BY <1>1, <1>2

--------------------------------------------------------------------------------
(* The theorems.                                                           *)

(* Inv holds in every reachable state.                                     *)
THEOREM Invariance == Spec => []Inv
<1>. QED
  BY InvInit, InvNext, PTL DEF Spec

(* The tables and the frames stay well typed: retry_count, for one, never  *)
(* exceeds max_retries, however many stale markFailed calls overlap.       *)
THEOREM TypeCorrect == Spec => []TypeOK
<1>1. Inv => TypeOK
  BY DEF Inv
<1>. QED
  BY Invariance, <1>1, PTL

(* A job shown as completed has its grade.                                 *)
THEOREM CompletedJobsAreGraded == Spec => []CompletedHasResult
<1>1. Inv => CompletedHasResult
  BY DEF Inv, RowsInv
<1>. QED
  BY Invariance, <1>1, PTL

(* The image's statistics count every graded job exactly once.             *)
THEOREM GradesCountedOnce == Spec => []CountedOnce
<1>1. Inv => CountedOnce
  BY DEF Inv, RowsInv
<1>. QED
  BY Invariance, <1>1, PTL

(* Every job completed or failed for good has the completed_at that        *)
(* retention looks for.                                                    *)
THEOREM FinishedJobsExpire == Spec => []FinishedRowsExpire
<1>1. Inv => FinishedRowsExpire
  BY DEF Inv, RowsInv
<1>. QED
  BY Invariance, <1>1, PTL

--------------------------------------------------------------------------------
(* The refinement.  Only a commit is a step of the ledger; a deletion      *)
(* purges the result and keeps the grade, every other step leaves the      *)
(* results and the counter alone.                                          *)

(* The empty tables are an empty ledger.                                   *)
LEMMA LedgerInit == Init => Ledger!Init
<1>. SUFFICES ASSUME Init PROVE Ledger!Init
  OBVIOUS
<1>1. Graded = {}
  BY DEF Init, Graded
<1>. QED
  BY <1>1 DEF Init, Ledger!Init

(* A step of the service is a step of the ledger or a stutter.             *)
LEMMA LedgerNext == Inv /\ [Next]_vars => [Ledger!Next]_(Ledger!ledgerVars)
<1>. SUFFICES ASSUME Inv, [Next]_vars
              PROVE  Ledger!Next \/ UNCHANGED <<Graded, completions>>
  BY DEF Ledger!ledgerVars
<1>1. ASSUME UNCHANGED <<results, completions>>
      PROVE  UNCHANGED <<Graded, completions>>
  BY <1>1 DEF Graded
<1>2. ASSUME NEW S \in SUBSET Jobs, DeleteRows(S), UNCHANGED completions
      PROVE  UNCHANGED <<Graded, completions>>
  BY <1>2, RowsDeleted DEF Inv
<1>3. CASE UNCHANGED vars
  BY <1>1, <1>3 DEF vars
<1>4. CASE \E j \in Jobs : Claim(j) \/ PassTimeout(j) \/ CleanupSubmission(j)
  BY <1>1, <1>4 DEF Claim, PassTimeout, CleanupSubmission
<1>5. ASSUME NEW c \in Callers, NEW j \in Jobs, Submit(c, j)
      PROVE  UNCHANGED <<Graded, completions>>
  <2>1. CASE SubmitDelete(c, j)
    BY <1>2, <2>1 DEF SubmitDelete
  <2>2. CASE ~SubmitDelete(c, j)
    BY <1>1, <1>5, <2>2 DEF Submit, SubmitCreate, SubmitUpload, SubmitSave,
       SubmitReturn, SubmitThrow, SubmitUndo
  <2>. QED
    BY <2>1, <2>2
<1>6. ASSUME NEW c \in Callers, NEW j \in Jobs, MarkCompleted(c, j)
      PROVE  Ledger!Next \/ UNCHANGED <<Graded, completions>>
  <2>1. CASE CompleteRead(c, j)
    BY <1>1, <2>1 DEF CompleteRead
  <2>2. CASE CompleteCommit(c, j)
    <3>1. j \notin Graded /\ Graded' = Graded \cup {j}
      BY <2>2, RowsCommitted DEF Inv
    <3>2. completions' = completions + 1
      BY <2>2 DEF CompleteCommit
    <3>. QED
      BY <3>1, <3>2 DEF Ledger!Next, Ledger!Grade
  <2>. QED
    BY <1>6, <2>1, <2>2 DEF MarkCompleted
<1>7. ASSUME NEW c \in Callers, NEW j \in Jobs,
             MarkFailed(c, j) \/ Cancel(c, j) \/ Abort(c, j)
      PROVE  UNCHANGED <<Graded, completions>>
  BY <1>1, <1>7 DEF MarkFailed, FailRead, FailSave, Cancel, CancelRead, CancelSave,
     CancelPurge, Abort
<1>8. ASSUME NEW c \in Callers, Retain(c)
      PROVE  UNCHANGED <<Graded, completions>>
  <2>1. CASE RetainDelete(c)
    <3>1. call[c].jobs \in SUBSET Jobs
      BY DEF Inv, TypeOK, Frame
    <3>. QED
      BY <1>2, <2>1, <3>1 DEF RetainDelete
  <2>2. CASE ~RetainDelete(c)
    BY <1>1, <1>8, <2>2 DEF Retain, RetainSelect, RetainTidy
  <2>. QED
    BY <2>1, <2>2
<1>9. CASE \E C \in SUBSET Callers : Crash(C)
  BY <1>1, <1>9 DEF Crash
<1>. QED
  BY <1>3, <1>4, <1>5, <1>6, <1>7, <1>8, <1>9 DEF Next

(* The service implements the ledger: a job is graded at most once and     *)
(* counted when it is, whatever its row goes through.                      *)
THEOREM ImplementsLedger == Spec => LedgerSpec
<1>. QED
  BY LedgerInit, LedgerNext, Invariance, PTL DEF Spec, LedgerSpec, Ledger!Spec
--------------------------------------------------------------------------------
(* Decisions and what they are made on.                                    *)

(* A call that is about to save has read what it checks before.            *)
Checked ==
  \A c \in Callers :
    /\ call[c].op = "complete" => call[c].snap.status = "processing"
    /\ call[c].op = "cancel" => call[c].snap.status = "pending"
    /\ call[c].op = "fail" => call[c].snap.status \in Existing \ {"completed"}

(* Steps that begin no call leave the checks of the others alone.          *)
LEMMA CheckedStays ==
  ASSUME TypeOK, Checked,
         \A c \in Callers : \/ call'[c] = call[c]
                            \/ call'[c].op \notin {"complete", "cancel", "fail"}
  PROVE  Checked'
BY DEF Checked

(* A call begins with a row that it has just read.                         *)
LEMMA CheckedBegins ==
  ASSUME TypeOK, Checked, NEW c \in Callers, NEW j \in Jobs,
         CompleteRead(c, j) \/ CancelRead(c, j) \/ FailRead(c, j)
  PROVE  Checked'
<1>1. \A b \in Callers \ {c} : call'[b] = call[b]
  BY DEF CompleteRead, CancelRead, FailRead, Enter, TypeOK
<1>2. CASE CompleteRead(c, j)
  <2>1. call'[c].op = "complete" /\ call'[c].snap.status = "processing"
    BY <1>2 DEF CompleteRead, Enter, TypeOK, BlankRow
  <2>. QED
    BY <1>1, <2>1 DEF Checked
<1>3. CASE CancelRead(c, j)
  <2>1. call'[c].op = "cancel" /\ call'[c].snap.status = "pending"
    BY <1>3 DEF CancelRead, Enter, TypeOK, BlankRow
  <2>. QED
    BY <1>1, <2>1 DEF Checked
<1>4. CASE FailRead(c, j)
  <2>1. rows[j] \in Row /\ call'[c].op = "fail" /\ call'[c].snap = Snapshot(rows[j])
    BY <1>4 DEF FailRead, Enter, TypeOK
  <2>2. call'[c].snap.status \in Existing \ {"completed"}
    BY <1>4, <2>1 DEF FailRead, Snapshot, Row, Exists
  <2>. QED
    BY <1>1, <2>1, <2>2 DEF Checked
<1>. QED
  BY <1>2, <1>3, <1>4

(* Every step keeps the checks.                                            *)
LEMMA NextChecked == TypeOK /\ Checked /\ [Next]_vars => Checked'
<1>. SUFFICES ASSUME TypeOK, Checked, [Next]_vars
              PROVE  Checked'
  OBVIOUS
<1>1. CASE UNCHANGED call
  BY <1>1, CheckedStays
<1>2. ASSUME NEW c \in Callers, NEW op \in Ops \ {"complete", "cancel", "fail"},
             Goto(c, op) \/ Return(c) \/ \E j \in Jobs : Enter(c, op, j, NoRow)
      PROVE  Checked'
  BY <1>2, CheckedStays DEF Goto, Return, Enter, Idle, TypeOK, Frame
<1>3. ASSUME NEW c \in Callers, NEW j \in Jobs, Submit(c, j) PROVE Checked'
  BY <1>2, <1>3 DEF Submit, SubmitCreate, SubmitUpload, SubmitSave, SubmitReturn, SubmitThrow,
                    SubmitUndo, SubmitDelete, Ops
<1>4. ASSUME NEW c \in Callers, NEW j \in Jobs,
             CompleteCommit(c, j) \/ FailSave(c, j) \/ Abort(c, j)
      PROVE  Checked'
  BY <1>2, <1>4 DEF CompleteCommit, FailSave, Abort, Ops
<1>5. ASSUME NEW c \in Callers, NEW j \in Jobs, CancelSave(c, j) \/ CancelPurge(c, j)
      PROVE  Checked'
  BY <1>2, <1>5 DEF CancelSave, CancelPurge, Ops
<1>6. ASSUME NEW c \in Callers, Retain(c) PROVE Checked'
  BY <1>2, <1>6, CheckedStays DEF Retain, RetainSelect, RetainDelete, RetainTidy, Ops, TypeOK
<1>7. CASE \E C \in SUBSET Callers : Crash(C)
  BY <1>7, CheckedStays DEF Crash, Idle
<1>8. CASE \E j \in Jobs : Claim(j) \/ PassTimeout(j) \/ CleanupSubmission(j)
  BY <1>1, <1>8 DEF Claim, PassTimeout, CleanupSubmission
<1>9. CASE UNCHANGED vars
  BY <1>1, <1>9 DEF vars
<1>. QED
  BY <1>3, <1>4, <1>5, <1>6, <1>7, <1>8, <1>9, CheckedBegins
     DEF Next, MarkCompleted, MarkFailed, Cancel

(* What may happen to the status of one row in one step.                   *)
Overwritten(j) ==
  \/ rows'[j].status = rows[j].status
  \/ <<rows[j].status, rows'[j].status>> \in Decisions
  \/ \E c \in Callers, op \in {"complete", "fail", "cancel"} :
       In(c, op, j) /\ call'[c] # call[c] /\ call[c].snap.status # rows[j].status

(* The three saves: their decision suits the row they read.                *)
LEMMA SavesAreDecided ==
  ASSUME TypeOK, Checked, NEW c \in Callers, NEW i \in Jobs, NEW j \in Jobs,
         CompleteCommit(c, i) \/ FailSave(c, i) \/ CancelSave(c, i)
  PROVE  Overwritten(j)
<1>0. rows[j] \in Row /\ call[c] \in Frame
  BY DEF TypeOK
<1>1. CASE i # j
  <2>1. rows'[j] = rows[j]
    BY <1>1 DEF CompleteCommit, FailSave, CancelSave, Update, TypeOK
  <2>. QED
    BY <2>1 DEF Overwritten
<1>2. CASE i = j /\ ~Exists(j)
  <2>1. rows'[j] = rows[j]
    BY <1>2 DEF CompleteCommit, CanCommit, FailSave, CancelSave, Update
  <2>. QED
    BY <2>1 DEF Overwritten
<1>3. CASE i = j /\ Exists(j) /\ CompleteCommit(c, i)
  <2>1. rows'[j].status = "completed"
    BY <1>3 DEF CompleteCommit, TypeOK, Row
  <2>2. In(c, "complete", j) /\ call[c].snap.status = "processing" /\ call'[c] # call[c]
    BY <1>3 DEF CompleteCommit, In, Return, Idle, TypeOK, Frame, Checked
  <2>. QED
    BY <2>1, <2>2 DEF Overwritten, Decisions
<1>4. CASE i = j /\ Exists(j) /\ CancelSave(c, i)
  <2>1. rows'[j].status = "cancelled"
    BY <1>0, <1>4 DEF CancelSave, Update, TypeOK, Row
  <2>2. In(c, "cancel", j) /\ call[c].snap.status = "pending" /\ call'[c] # call[c]
    BY <1>0, <1>4 DEF CancelSave, In, Goto, TypeOK, Frame, Checked
  <2>. QED
    BY <2>1, <2>2 DEF Overwritten, Decisions
<1>5. CASE i = j /\ Exists(j) /\ FailSave(c, i)
  <2>1. rows'[j].status \in {rows[j].status, "pending", "failed"}
    <3>1. Requeued(rows[j], call[c].snap).status \in {rows[j].status, "pending"}
      BY <1>0 DEF Requeued, Row
    <3>2. Failed(rows[j], call[c].snap).status \in {rows[j].status, "failed"}
      BY <1>0 DEF Failed, Row
    <3>3. \/ rows'[j] = Requeued(rows[j], call[c].snap)
          \/ rows'[j] = Failed(rows[j], call[c].snap)
      BY <1>5 DEF FailSave, Update, TypeOK
    <3>. QED
      BY <3>1, <3>2, <3>3
  <2>2. /\ In(c, "fail", j) /\ call[c].snap.status # "completed"
        /\ call'[c] # call[c]
    BY <1>5 DEF FailSave, In, Return, Idle, TypeOK, Frame, Checked
  <2>3. CASE rows[j].status = "completed"
    BY <2>2, <2>3 DEF Overwritten
  <2>4. CASE rows[j].status # "completed"
    BY <1>5, <2>1, <2>4 DEF Overwritten, Decisions, Exists
  <2>. QED
    BY <2>3, <2>4
<1>. QED
  BY <1>1, <1>2, <1>3, <1>4, <1>5

(* A DELETE is decided whatever the status is.                             *)
LEMMA DeletesAreDecided ==
  ASSUME NEW S \in SUBSET Jobs, NEW j \in Jobs, DeleteRows(S)
  PROVE  Overwritten(j)
<1>1. rows'[j] = rows[j] \/ (Exists(j) /\ rows'[j].status = "deleted")
  BY DEF DeleteRows, BlankRow
<1>. QED
  BY <1>1 DEF Overwritten, Decisions, Exists

(* A status that the service's checks rule out is saved by a caller that   *)
(* checked an older row: but for stale reads, the life of a job is the one *)
(* its checks describe.                                                    *)
THEOREM StaleOverwrites == Spec => OverwritesAreStale
<1>1. Init => Checked
  BY DEF Init, Checked, Idle
<1>2. TypeOK /\ Checked /\ [Next]_vars => [\A j \in Jobs : Overwritten(j)]_vars
  <2>. SUFFICES ASSUME TypeOK, Checked, Next, NEW j \in Jobs
                PROVE  Overwritten(j)
    OBVIOUS
  <2>0. ASSUME rows'[j].status = rows[j].status PROVE Overwritten(j)
    BY <2>0 DEF Overwritten
  <2>1. ASSUME NEW i \in Jobs, Claim(i) \/ PassTimeout(i) \/ CleanupSubmission(i)
        PROVE  Overwritten(j)
    <3>1. CASE Claim(i) /\ i = j
      <4>1. rows[j].status = "pending" /\ rows'[j].status = "processing"
        BY <3>1 DEF Claim, TypeOK, Row
      <4>. QED
        BY <4>1 DEF Overwritten, Decisions
    <3>2. CASE ~(Claim(i) /\ i = j)
      <4>1. rows'[j].status = rows[j].status
        BY <2>1, <3>2 DEF Claim, PassTimeout, CleanupSubmission, TypeOK, Row
      <4>. QED
        BY <2>0, <4>1
    <3>. QED
      BY <3>1, <3>2
  <2>2. ASSUME NEW c \in Callers, NEW i \in Jobs, Submit(c, i) PROVE Overwritten(j)
    <3>1. CASE SubmitCreate(c, i) /\ i = j
      <4>1. rows[j].status = "absent" /\ rows'[j].status = "pending"
        BY <3>1 DEF SubmitCreate, BlankRow, TypeOK
      <4>. QED
        BY <4>1 DEF Overwritten, Decisions
    <3>2. CASE SubmitDelete(c, i)
      BY <3>2, DeletesAreDecided DEF SubmitDelete
    <3>3. CASE ~(SubmitCreate(c, i) /\ i = j) /\ ~SubmitDelete(c, i)
      <4>1. rows'[j].status = rows[j].status
        BY <2>2, <3>3 DEF Submit, SubmitCreate, SubmitUpload, SubmitSave, SubmitReturn,
                          SubmitThrow, SubmitUndo, Update, TypeOK, Row
      <4>. QED
        BY <2>0, <4>1
    <3>. QED
      BY <3>1, <3>2, <3>3
  <2>3. ASSUME NEW c \in Callers, NEW i \in Jobs,
               MarkCompleted(c, i) \/ MarkFailed(c, i) \/ Cancel(c, i) \/ Abort(c, i)
        PROVE  Overwritten(j)
    <3>1. CASE CompleteCommit(c, i) \/ FailSave(c, i) \/ CancelSave(c, i)
      BY <3>1, SavesAreDecided
    <3>2. CASE ~(CompleteCommit(c, i) \/ FailSave(c, i) \/ CancelSave(c, i))
      BY <2>0, <2>3, <3>2 DEF MarkCompleted, CompleteRead, MarkFailed, FailRead, Cancel,
                              CancelRead, CancelPurge, Abort
    <3>. QED
      BY <3>1, <3>2
  <2>4. ASSUME NEW c \in Callers, Retain(c) PROVE Overwritten(j)
    <3>1. CASE RetainDelete(c)
      <4>1. call[c].jobs \in SUBSET Jobs
        BY DEF TypeOK, Frame
      <4>. QED
        BY <3>1, <4>1, DeletesAreDecided DEF RetainDelete
    <3>2. CASE ~RetainDelete(c)
      BY <2>0, <2>4, <3>2 DEF Retain, RetainSelect, RetainTidy
    <3>. QED
      BY <3>1, <3>2
  <2>5. CASE \E C \in SUBSET Callers : Crash(C)
    BY <2>0, <2>5 DEF Crash
  <2>. QED
    BY <2>1, <2>2, <2>3, <2>4, <2>5 DEF Next
<1>3. Inv => TypeOK
  BY DEF Inv
<1>4. [\A j \in Jobs : Overwritten(j)]_vars =>
      [\A j \in Jobs :
         \/ rows'[j].status = rows[j].status
         \/ <<rows[j].status, rows'[j].status>> \in Decisions
         \/ \E c \in Callers, op \in {"complete", "fail", "cancel"} :
              /\ In(c, op, j) /\ call'[c] # call[c]
              /\ call[c].snap.status # rows[j].status]_vars
  BY DEF Overwritten
<1>. QED
  BY <1>1, <1>2, <1>3, <1>4, NextChecked, Invariance, PTL DEF Spec, OverwritesAreStale

--------------------------------------------------------------------------------
(* The refinement of JobRecord.  Nobody but a commit completes a row, and  *)
(* it stores the result; a deletion takes the result along; an UPDATE of   *)
(* another call finds a row or does nothing.                               *)
StatusShown == [j \in Jobs |-> rows[j].status]

HasResult == {j \in Jobs : results[j] = "stored"}

RecordStep == Record!Next \/ UNCHANGED <<StatusShown, HasResult>>

(* A step that writes neither a status nor a result.                       *)
LEMMA RecordStutters ==
  ASSUME \A j \in Jobs : rows'[j].status = rows[j].status, UNCHANGED results
  PROVE  RecordStep
BY DEF RecordStep, StatusShown, HasResult

(* An UPDATE that does not complete a row.                                 *)
LEMMA RecordUpdated ==
  ASSUME TypeOK, NEW j \in Jobs, NEW new \in Row, Update(j, new),
         Exists(j) => new.status \in {rows[j].status, "pending", "failed", "cancelled"},
         UNCHANGED results
  PROVE  RecordStep
<1>1. CASE ~Exists(j)
  BY <1>1, RecordStutters DEF Update
<1>2. CASE Exists(j) /\ new.status = rows[j].status
  BY <1>2, RecordStutters DEF Update, TypeOK
<1>3. CASE Exists(j) /\ new.status \in {"pending", "failed", "cancelled"}
  <2>1. rows' = [rows EXCEPT ![j] = new]
    BY <1>3 DEF Update
  <2>2. StatusShown' = [StatusShown EXCEPT ![j] = new.status]
    BY <2>1 DEF StatusShown, TypeOK
  <2>3. HasResult' = HasResult
    BY DEF HasResult
  <2>4. StatusShown[j] \in Record!Shown
    BY <1>3 DEF StatusShown, Record!Shown, Exists, Existing, Terminal
  <2>5. Record!Overwrite(j)
    BY <1>3, <2>2, <2>3, <2>4 DEF Record!Overwrite, StatusShown, HasResult
  <2>. QED
    BY <2>5 DEF RecordStep, Record!Next
<1>. QED
  BY <1>1, <1>2, <1>3

(* A DELETE.                                                               *)
LEMMA RecordDeleted ==
  ASSUME Inv, NEW S \in SUBSET Jobs, DeleteRows(S)
  PROVE  RecordStep
<1>1. PICK gone \in SUBSET Jobs : gone = {j \in S : Exists(j)}
  OBVIOUS
<1>2. StatusShown' = [j \in Jobs |-> IF j \in gone THEN "deleted" ELSE StatusShown[j]]
  BY <1>1 DEF DeleteRows, BlankRow, StatusShown
<1>3. HasResult' = HasResult \ gone
  BY <1>1 DEF DeleteRows, HasResult, Inv, TypeOK
<1>4. \A j \in gone : StatusShown[j] \in Record!Shown
  BY <1>1 DEF StatusShown, Record!Shown, Exists, Existing, Terminal
<1>5. Record!Delete(gone)
  BY <1>2, <1>3, <1>4 DEF Record!Delete, StatusShown, HasResult
<1>. QED
  BY <1>5 DEF RecordStep, Record!Next

(* A submission and a commit.                                              *)
LEMMA RecordCreated ==
  ASSUME TypeOK, NEW c \in Callers, NEW j \in Jobs,
         SubmitCreate(c, j) \/ CompleteCommit(c, j)
  PROVE  RecordStep
<1>1. CASE SubmitCreate(c, j)
  <2>1. StatusShown' = [StatusShown EXCEPT ![j] = "pending"] /\ StatusShown[j] = "absent"
    BY <1>1 DEF SubmitCreate, BlankRow, StatusShown, TypeOK
  <2>2. HasResult' = HasResult
    BY <1>1 DEF SubmitCreate, HasResult
  <2>3. Record!Create(j)
    BY <2>1, <2>2 DEF Record!Create, StatusShown, HasResult
  <2>. QED
    BY <2>3 DEF RecordStep, Record!Next
<1>2. CASE CompleteCommit(c, j)
  <2>1. StatusShown' = [StatusShown EXCEPT ![j] = "completed"]
    <3>1. /\ rows \in [Jobs -> Row]
          /\ rows' = [rows EXCEPT ![j] = [rows[j] EXCEPT !.status = "completed", !.ended = TRUE]]
      BY <1>2 DEF CompleteCommit, TypeOK
    <3>2. [rows[j] EXCEPT !.status = "completed", !.ended = TRUE].status = "completed"
      BY <3>1 DEF Row
    <3>. QED
      BY <3>1, <3>2 DEF StatusShown
  <2>2. j \notin HasResult /\ HasResult' = HasResult \cup {j}
    BY <1>2 DEF CompleteCommit, CanCommit, HasResult, TypeOK
  <2>3. StatusShown[j] \in Record!Shown
    BY <1>2 DEF CompleteCommit, CanCommit, StatusShown, Record!Shown, Exists, Existing, Terminal
  <2>4. Record!Grade(j)
    BY <2>1, <2>2, <2>3 DEF Record!Grade, StatusShown, HasResult
  <2>. QED
    BY <2>4 DEF RecordStep, Record!Next
<1>. QED
  BY <1>1, <1>2

(* The save of markFailed, on whatever the row is by then.                 *)
LEMMA RecordFailed ==
  ASSUME TypeOK, NEW c \in Callers, NEW j \in Jobs, FailSave(c, j)
  PROVE  RecordStep
<1>. DEFINE snap == call[c].snap
            new == IF MayRetry(snap) THEN Requeued(rows[j], snap) ELSE Failed(rows[j], snap)
<1>1. Update(j, new) /\ UNCHANGED results
  BY DEF FailSave
<1>2. snap \in Row /\ rows[j] \in Row
  BY DEF TypeOK, Frame
<1>3. /\ new \in Row
      /\ new.status \in {rows[j].status, "pending", "failed"}
  <2>1. CASE MayRetry(snap)
    <3>1. Requeued(rows[j], snap) \in Row
      BY <1>2, <2>1, FailTypes
    <3>2. Requeued(rows[j], snap).status \in {rows[j].status, "pending"}
      BY <1>2 DEF Requeued, Row
    <3>. QED
      BY <2>1, <3>1, <3>2
  <2>2. CASE ~MayRetry(snap)
    <3>1. Failed(rows[j], snap) \in Row
      BY <1>2, FailTypes
    <3>2. Failed(rows[j], snap).status \in {rows[j].status, "failed"}
      BY <1>2 DEF Failed, Row
    <3>. QED
      BY <2>2, <3>1, <3>2
  <2>. QED
    BY <2>1, <2>2
<1>. HIDE DEF new
<1>. QED
  BY <1>1, <1>3, RecordUpdated

(* Every step of the service is one step of the record, or none.           *)
LEMMA RecordNext == Inv /\ [Next]_vars => [Record!Next]_(Record!recordVars)
<1>. SUFFICES ASSUME Inv, [Next]_vars
              PROVE  RecordStep
  BY DEF Record!recordVars, RecordStep, StatusShown, HasResult
<1>0. TypeOK
  BY DEF Inv
<1>1. ASSUME UNCHANGED <<rows, results>> PROVE RecordStep
  BY <1>1, RecordStutters
<1>2. CASE UNCHANGED vars
  BY <1>1, <1>2 DEF vars
<1>3. CASE \E j \in Jobs : Claim(j) \/ PassTimeout(j) \/ CleanupSubmission(j)
  <2>1. ASSUME NEW j \in Jobs, Claim(j) PROVE RecordStep
    <3>1. StatusShown' = [StatusShown EXCEPT ![j] = "processing"] /\ StatusShown[j] = "pending"
      BY <1>0, <2>1 DEF Claim, StatusShown, TypeOK, Row
    <3>2. HasResult' = HasResult
      BY <2>1 DEF Claim, HasResult
    <3>3. Record!Claim(j)
      BY <3>1, <3>2 DEF Record!Claim, StatusShown, HasResult
    <3>. QED
      BY <3>3 DEF RecordStep, Record!Next
  <2>2. ASSUME NEW j \in Jobs, PassTimeout(j) PROVE RecordStep
    BY <1>0, <2>2, RecordStutters DEF PassTimeout, TypeOK, Row
  <2>3. ASSUME NEW j \in Jobs, CleanupSubmission(j) PROVE RecordStep
    BY <1>1, <2>3 DEF CleanupSubmission
  <2>. QED
    BY <1>3, <2>1, <2>2, <2>3
<1>4. ASSUME NEW c \in Callers, NEW j \in Jobs, Submit(c, j) PROVE RecordStep
  <2>1. CASE SubmitCreate(c, j)
    BY <1>0, <2>1, RecordCreated
  <2>2. CASE SubmitSave(c, j)
    <3>1. [rows[j] EXCEPT !.stored = TRUE] \in Row
      BY <1>0 DEF TypeOK, Row
    <3>2. [rows[j] EXCEPT !.stored = TRUE].status = rows[j].status
      BY <1>0 DEF TypeOK, Row
    <3>. QED
      BY <1>0, <2>2, <3>1, <3>2, RecordUpdated DEF SubmitSave
  <2>3. CASE SubmitDelete(c, j)
    BY <2>3, RecordDeleted DEF SubmitDelete
  <2>4. CASE SubmitUpload(c, j) \/ SubmitReturn(c, j) \/ SubmitThrow(c, j) \/ SubmitUndo(c, j)
    BY <1>1, <2>4 DEF SubmitUpload, SubmitReturn, SubmitThrow, SubmitUndo
  <2>. QED
    BY <1>4, <2>1, <2>2, <2>3, <2>4 DEF Submit
<1>5. ASSUME NEW c \in Callers, NEW j \in Jobs, MarkCompleted(c, j) PROVE RecordStep
  BY <1>0, <1>1, <1>5, RecordCreated DEF MarkCompleted, CompleteRead
<1>6. ASSUME NEW c \in Callers, NEW j \in Jobs, MarkFailed(c, j) PROVE RecordStep
  BY <1>0, <1>1, <1>6, RecordFailed DEF MarkFailed, FailRead
<1>7. ASSUME NEW c \in Callers, NEW j \in Jobs, Cancel(c, j) PROVE RecordStep
  <2>1. CASE CancelSave(c, j)
    <3>1. [rows[j] EXCEPT !.status = "cancelled"] \in Row
      BY <1>0 DEF TypeOK, Row, Statuses, Existing, Terminal
    <3>2. [rows[j] EXCEPT !.status = "cancelled"].status = "cancelled"
      BY <1>0 DEF TypeOK, Row
    <3>. QED
      BY <1>0, <2>1, <3>1, <3>2, RecordUpdated DEF CancelSave
  <2>2. CASE CancelRead(c, j) \/ CancelPurge(c, j)
    BY <1>1, <2>2 DEF CancelRead, CancelPurge
  <2>. QED
    BY <1>7, <2>1, <2>2 DEF Cancel
<1>8. ASSUME NEW c \in Callers, NEW j \in Jobs, Abort(c, j) PROVE RecordStep
  BY <1>1, <1>8 DEF Abort
<1>9. ASSUME NEW c \in Callers, Retain(c) PROVE RecordStep
  <2>1. CASE RetainDelete(c)
    <3>1. call[c].jobs \in SUBSET Jobs
      BY <1>0 DEF TypeOK, Frame
    <3>. QED
      BY <2>1, <3>1, RecordDeleted DEF RetainDelete
  <2>2. CASE ~RetainDelete(c)
    BY <1>1, <1>9, <2>2 DEF Retain, RetainSelect, RetainTidy
  <2>. QED
    BY <2>1, <2>2
<1>10. CASE \E C \in SUBSET Callers : Crash(C)
  BY <1>1, <1>10 DEF Crash
<1>. QED
  BY <1>2, <1>3, <1>4, <1>5, <1>6, <1>7, <1>8, <1>9, <1>10 DEF Next

(* To a client that polls it, a job becomes completed once and in the step *)
(* that grades it, and never reappears after its deletion.                 *)
THEOREM ImplementsRecord == Spec => RecordSpec
<1>1. Init => Record!Init
  BY DEF Init, NoRow, BlankRow, Record!Init
<1>. QED
  BY <1>1, RecordNext, Invariance, PTL DEF Spec, RecordSpec, Record!Spec
================================================================================
