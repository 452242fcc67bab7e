------------------------------ MODULE GradeLedger ------------------------------
(***************************************************************************)
(* What the execution service promises about grades, with no notion of     *)
(* queues, retries or rows: a job is graded at most once, and the image's  *)
(* statistics count each graded job exactly once.  JobLifecycle implements *)
(* this module (JobLifecycle!LedgerSpec).                                  *)
(***************************************************************************)
EXTENDS Integers, FiniteSets

CONSTANT Jobs          \* the job ids the database may ever allocate

VARIABLES graded,      \* the jobs a grade was recorded for, ever
          counted      \* total_completed_jobs of the image

ledgerVars == <<graded, counted>>

Init ==
  /\ graded = {}
  /\ counted = 0

(* A grade is recorded: the only way either quantity changes.              *)
Grade(j) ==
  /\ j \notin graded
  /\ graded' = graded \cup {j}
  /\ counted' = counted + 1

Next == \E j \in Jobs : Grade(j)

Spec == Init /\ [][Next]_ledgerVars
================================================================================
