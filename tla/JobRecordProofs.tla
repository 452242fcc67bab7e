---------------------------- MODULE JobRecordProofs ----------------------------
(***************************************************************************)
(* What JobRecord, and with it whatever implements it, promises to a       *)
(* client for any set of jobs.                                             *)
(***************************************************************************)
EXTENDS JobRecord, TLAPS

(* Grades belong to jobs that are shown, and a completed job has one.      *)
RecordInv ==
  /\ status \in [Jobs -> Shown \cup {"absent", "deleted"}]
  /\ graded \in SUBSET Jobs
  /\ \A j \in graded : status[j] \in Shown
  /\ \A j \in Jobs : status[j] = "completed" => j \in graded

(* The invariant is preserved by each step.                                *)
LEMMA NextRecordInv == RecordInv /\ [Next]_recordVars => RecordInv'
<1>. SUFFICES ASSUME RecordInv, [Next]_recordVars
              PROVE  RecordInv'
  OBVIOUS
<1>. USE DEF RecordInv, Shown
<1>1. ASSUME NEW j \in Jobs, Create(j) \/ Claim(j) PROVE RecordInv'
  BY <1>1 DEF Create, Claim
<1>2. ASSUME NEW j \in Jobs, Grade(j) PROVE RecordInv'
  BY <1>2 DEF Grade
<1>3. ASSUME NEW j \in Jobs, Overwrite(j) PROVE RecordInv'
  BY <1>3 DEF Overwrite
<1>4. ASSUME NEW S \in SUBSET Jobs, Delete(S) PROVE RecordInv'
  BY <1>4 DEF Delete
<1>5. CASE UNCHANGED recordVars
  BY <1>5 DEF recordVars
<1>. QED
  BY <1>1, <1>2, <1>3, <1>4, <1>5 DEF Next

(* It holds of every behaviour.                                            *)
THEOREM RecordInvariance == Spec => []RecordInv
<1>1. Init => RecordInv
  BY DEF Init, RecordInv
<1>. QED
  BY <1>1, NextRecordInv, PTL DEF Spec

(* A client that sees completed can fetch the result, a job becomes        *)
(* completed at most once, only a deletion takes a result away, and what   *)
(* is deleted stays so: statuses may go back, answers do not.              *)
THEOREM AnswersStay ==
  Spec => /\ [](\A j \in Jobs : status[j] = "completed" => j \in graded)
          /\ [][\A j \in Jobs :
                 /\ status[j] = "deleted" => status'[j] = "deleted"
                 /\ status[j] # "completed" /\ status'[j] = "completed"
                    => j \notin graded /\ j \in graded'
                 /\ j \in graded => j \in graded' \/ status'[j] = "deleted"]_recordVars
<1>. DEFINE Stays(j) ==
       /\ status[j] = "deleted" => status'[j] = "deleted"
       /\ status[j] # "completed" /\ status'[j] = "completed"
          => j \notin graded /\ j \in graded'
       /\ j \in graded => j \in graded' \/ status'[j] = "deleted"
<1>1. RecordInv => \A j \in Jobs : status[j] = "completed" => j \in graded
  BY DEF RecordInv
<1>2. RecordInv /\ [Next]_recordVars => [\A j \in Jobs : Stays(j)]_recordVars
  <2>. SUFFICES ASSUME RecordInv, Next, NEW j \in Jobs
                PROVE  Stays(j)
    OBVIOUS
  <2>. USE DEF RecordInv, Shown
  <2>1. ASSUME NEW i \in Jobs, Create(i) \/ Claim(i) PROVE Stays(j)
    BY <2>1 DEF Create, Claim
  <2>2. ASSUME NEW i \in Jobs, Grade(i) PROVE Stays(j)
    BY <2>2 DEF Grade
  <2>3. ASSUME NEW i \in Jobs, Overwrite(i) PROVE Stays(j)
    BY <2>3 DEF Overwrite
  <2>4. ASSUME NEW S \in SUBSET Jobs, Delete(S) PROVE Stays(j)
    BY <2>4 DEF Delete
  <2>. QED
    BY <2>1, <2>2, <2>3, <2>4 DEF Next
<1>. QED
  BY <1>1, <1>2, RecordInvariance, PTL DEF Spec
================================================================================
