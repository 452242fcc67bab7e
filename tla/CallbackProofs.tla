----------------------------- MODULE CallbackProofs -----------------------------
(***************************************************************************)
(* CallbackDelivery for every set of jobs and deliverers: what the log and *)
(* result_delivered say of each other, and that the concurrent deliveries  *)
(* implement CallbackContract.                                             *)
(*                                                                         *)
(* Only RecordAttempt and Delete write what the properties are about, and  *)
(* both under the lock of the job's row; the one fact about the frames is  *)
(* that a delivery that is about to record a success has been received.    *)
(***************************************************************************)
EXTENDS CallbackDelivery, FiniteSetTheorems, TLAPS

(* A delivery in hand that succeeded was received.                         *)
SuccessWasReceived ==
  \A d \in Deliverers, j \in Jobs :
    Working(d, "log", j) /\ task[d].success => j \in received

LogInv == TypeOK /\ LogIsNumbered /\ DeliveredByLastAttempt

Inv == LogInv /\ SuccessWasReceived /\ DeliveredWasReceived

logged == <<delivered, log>>

--------------------------------------------------------------------------------
(* The invariant holds before the first delivery.                          *)
LEMMA InitInv == Init => Inv
BY DEF Init, Inv, LogInv, TypeOK, LogIsNumbered, DeliveredByLastAttempt, Entry,
       SuccessWasReceived, DeliveredWasReceived, Task, NoTask, Working

(* A step of a deliverer leaves the frames well typed.                     *)
LEMMA BeginTyped ==
  ASSUME TypeOK, NEW d \in Deliverers, NEW j \in Jobs, Begin(d, j)
  PROVE  task' \in [Deliverers -> Task]
BY DEF TypeOK, Begin, NoTask, Task

(* Ending a delivery, by the dispatcher or a loop, keeps the types.        *)
LEMMA ReturnTyped ==
  ASSUME TypeOK, NEW d \in Deliverers, Return(d)
  PROVE  task' \in [Deliverers -> Task]
BY DEF TypeOK, Return, NoTask, Task

(* What does not write the log or the marker keeps what they say.          *)
LEMMA LogUntouched ==
  ASSUME LogInv, TypeOK', UNCHANGED logged
  PROVE  LogInv'
BY DEF LogInv, LogIsNumbered, DeliveredByLastAttempt, logged

(* Every step keeps the types.                                             *)
LEMMA NextTypeOK == TypeOK /\ [Next]_vars => TypeOK'
<1> SUFFICES ASSUME TypeOK, [Next]_vars PROVE TypeOK'
  OBVIOUS
<1> USE DEF Deliverers
<1>1. ASSUME NEW d \in Deliverers, NEW j \in Jobs, Complete(d, j) PROVE TypeOK'
  <2>1. task' \in [Deliverers -> Task]
    BY <1>1, BeginTyped DEF Complete
  <2> QED
    BY <1>1, <2>1 DEF Complete, TypeOK
<1>2. ASSUME NEW d \in Deliverers, NEW j \in Jobs, Find(d, j) PROVE TypeOK'
  <2>1. task' \in [Deliverers -> Task]
    <3>1. CASE ShouldPost(j)
      <4>1. task' = [task EXCEPT ![d].pc = "post"]
        BY <1>2, <3>1 DEF Find
      <4> QED
        BY <4>1 DEF TypeOK, Task
    <3>2. CASE ~ShouldPost(j)
      BY <1>2, <3>2, ReturnTyped DEF Find
    <3> QED
      BY <3>1, <3>2
  <2> QED
    BY <1>2, <2>1 DEF Find, TypeOK
<1>3. ASSUME NEW d \in Deliverers, NEW j \in Jobs, Post(d, j) PROVE TypeOK'
  <2>1. PICK success \in BOOLEAN :
          task' = [task EXCEPT ![d].pc = "log", ![d].success = success]
    BY <1>3 DEF Post
  <2>2. task' \in [Deliverers -> Task]
    BY <2>1 DEF TypeOK, Task
  <2>3. received' \in SUBSET Jobs
    BY <1>3 DEF Post, TypeOK
  <2> QED
    BY <1>3, <2>2, <2>3 DEF Post, TypeOK
<1>4. ASSUME NEW d \in Deliverers, NEW j \in Jobs, RecordAttempt(d, j) PROVE TypeOK'
  <2>1. task' \in [Deliverers -> Task]
    BY <1>4, ReturnTyped DEF RecordAttempt
  <2>2. task[d].success \in BOOLEAN
    BY DEF TypeOK, Task
  <2>3. [attempt |-> AttemptNumber(d, j), success |-> task[d].success] \in Entry
    BY <2>2 DEF TypeOK, AttemptNumber, Entry
  <2>4. log' \in [Jobs -> Seq(Entry)]
    <3>1. Append(log[j], [attempt |-> AttemptNumber(d, j),
                          success |-> task[d].success]) \in Seq(Entry)
      BY <2>3 DEF TypeOK
    <3> QED
      BY <1>4, <3>1 DEF RecordAttempt, TypeOK
  <2>5. delivered' \in SUBSET Jobs
    BY <1>4 DEF RecordAttempt, TypeOK
  <2> QED
    BY <1>4, <2>1, <2>4, <2>5 DEF RecordAttempt, TypeOK
<1>5. ASSUME NEW r \in Retriers, RetrySelect(r) PROVE TypeOK'
  BY <1>5 DEF RetrySelect, TypeOK
<1>6. ASSUME NEW r \in Retriers, NEW j \in Jobs, RetryNext(r, j) PROVE TypeOK'
  <2>1. task' \in [Deliverers -> Task]
    BY <1>6, BeginTyped DEF RetryNext
  <2> QED
    BY <1>6, <2>1 DEF RetryNext, TypeOK
<1>7. ASSUME NEW d \in Deliverers, Fail(d) PROVE TypeOK'
  <2>1. task' \in [Deliverers -> Task]
    BY <1>7, ReturnTyped DEF Fail
  <2> QED
    BY <1>7, <2>1 DEF Fail, TypeOK
<1>8. ASSUME NEW j \in Jobs, Delete(j) PROVE TypeOK'
  BY <1>8 DEF Delete, TypeOK
<1>9. CASE UNCHANGED vars
  BY <1>9 DEF vars, TypeOK
<1> QED
  BY <1>1, <1>2, <1>3, <1>4, <1>5, <1>6, <1>7, <1>8, <1>9 DEF Next, Deliver

--------------------------------------------------------------------------------
(* An attempt recorded under the lock: the log of the job grows by one     *)
(* entry with the next number, and ends if it was a success.               *)
LEMMA AttemptRecorded ==
  ASSUME LogInv, TypeOK', NEW d \in Deliverers, NEW j \in Jobs, RecordAttempt(d, j),
         MayRecord(j)
  PROVE  LogInv'
<1> DEFINE entry == [attempt |-> AttemptNumber(d, j), success |-> task[d].success]
<1>1. /\ log[j] \in Seq(Entry) /\ log' = [log EXCEPT ![j] = Append(log[j], entry)]
      /\ delivered' = IF task[d].success THEN delivered \cup {j} ELSE delivered
      /\ j \notin delivered /\ task[d].success \in BOOLEAN
  BY DEF RecordAttempt, MayRecord, LogInv, TypeOK, Task
<1>2. /\ Len(log'[j]) = Len(log[j]) + 1
      /\ log'[j][Len(log[j]) + 1] = entry
      /\ \A i \in 1..Len(log[j]) : log'[j][i] = log[j][i]
  <2>1. log'[j] = Append(log[j], entry)
    BY <1>1 DEF LogInv, TypeOK
  <2> HIDE DEF entry
  <2> QED
    BY <1>1, <2>1
<1>3. \A k \in Jobs \ {j} : log'[k] = log[k] /\ (k \in delivered' <=> k \in delivered)
  BY <1>1 DEF LogInv, TypeOK
<1>4. j \in delivered' <=> task[d].success
  BY <1>1
<1>5. Len(log[j]) \in Nat
  BY <1>1
<1>6. entry.attempt = Len(log[j]) + 1 /\ entry.success = task[d].success
  BY DEF AttemptNumber
<1> HIDE DEF entry
<1>7. LogIsNumbered'
  <2>1. ASSUME NEW i \in 1..Len(log'[j]) PROVE log'[j][i].attempt = i
    BY <1>2, <1>5, <1>6 DEF LogInv, LogIsNumbered
  <2>2. ASSUME NEW k \in Jobs \ {j}, NEW i \in 1..Len(log'[k])
        PROVE log'[k][i].attempt = i
    <3>1. log'[k] = log[k] /\ i \in 1..Len(log[k])
      BY <1>3
    <3> QED
      BY <3>1 DEF LogInv, LogIsNumbered
  <2> QED
    BY <2>1, <2>2 DEF LogIsNumbered
<1>8. DeliveredByLastAttempt'
  <2>1. ASSUME NEW i \in 1..Len(log'[j])
        PROVE  log'[j][i].success <=> (j \in delivered' /\ i = Len(log'[j]))
    <3>1. CASE i = Len(log[j]) + 1
      BY <1>2, <1>4, <1>6, <3>1
    <3>2. CASE i # Len(log[j]) + 1
      <4>1. i \in 1..Len(log[j]) /\ i # Len(log'[j])
        BY <1>2, <1>5, <3>2
      <4>2. ~log[j][i].success
        BY <4>1, <1>1 DEF LogInv, DeliveredByLastAttempt
      <4> QED
        BY <1>2, <4>1, <4>2
    <3> QED
      BY <3>1, <3>2
  <2>2. ASSUME NEW k \in Jobs \ {j}, NEW i \in 1..Len(log'[k])
        PROVE  log'[k][i].success <=> (k \in delivered' /\ i = Len(log'[k]))
    <3>1. log'[k] = log[k] /\ i \in 1..Len(log[k]) /\ (k \in delivered' <=> k \in delivered)
      BY <1>3
    <3>2. log[k][i].success <=> (k \in delivered /\ i = Len(log[k]))
      BY <3>1 DEF LogInv, DeliveredByLastAttempt
    <3> QED
      BY <3>1, <3>2
  <2> QED
    BY <2>1, <2>2 DEF DeliveredByLastAttempt
<1> QED
  BY <1>7, <1>8 DEF LogInv

(* Every step keeps log and marker in agreement.                           *)
LEMMA NextLogInv == LogInv /\ [Next]_vars => LogInv'
<1> SUFFICES ASSUME LogInv, [Next]_vars PROVE LogInv'
  OBVIOUS
<1>1. TypeOK'
  BY NextTypeOK DEF LogInv
<1>2. CASE UNCHANGED logged
  BY <1>1, <1>2, LogUntouched
<1>3. ASSUME NEW d \in Deliverers, NEW j \in Jobs, RecordAttempt(d, j) PROVE LogInv'
  <2>1. CASE MayRecord(j)
    BY <1>1, <1>3, <2>1, AttemptRecorded
  <2>2. CASE ~MayRecord(j)
    BY <1>2, <1>3, <2>2 DEF RecordAttempt, logged
  <2> QED
    BY <2>1, <2>2
<1>4. ASSUME NEW j \in Jobs, Delete(j) PROVE LogInv'
  <2>1. /\ log'[j] = <<>>
        /\ \A k \in Jobs \ {j} :
             log'[k] = log[k] /\ (k \in delivered' <=> k \in delivered)
    BY <1>4 DEF Delete, LogInv, TypeOK
  <2>2. Len(log'[j]) = 0
    BY <2>1
  <2>3. 1..Len(log'[j]) = {}
    BY <2>2
  <2>4. LogIsNumbered'
    BY <2>1, <2>3 DEF LogInv, LogIsNumbered
  <2>5. DeliveredByLastAttempt'
    <3>1. ASSUME NEW k \in Jobs \ {j}, NEW i \in 1..Len(log'[k])
          PROVE  log'[k][i].success <=> (k \in delivered' /\ i = Len(log'[k]))
      <4>1. log'[k] = log[k] /\ i \in 1..Len(log[k]) /\ (k \in delivered' <=> k \in delivered)
        BY <2>1
      <4>2. log[k][i].success <=> (k \in delivered /\ i = Len(log[k]))
        BY <4>1 DEF LogInv, DeliveredByLastAttempt
      <4> QED
        BY <4>1, <4>2
    <3> QED
      BY <2>3, <3>1 DEF DeliveredByLastAttempt
  <2> QED
    BY <1>1, <2>4, <2>5 DEF LogInv
<1>5. \/ UNCHANGED logged
      \/ \E d \in Deliverers, j \in Jobs : RecordAttempt(d, j)
      \/ \E j \in Jobs : Delete(j)
  BY DEF Next, Deliver, Complete, Find, Post, RetrySelect, RetryNext, Fail, vars, logged
<1> QED
  BY <1>2, <1>3, <1>4, <1>5

--------------------------------------------------------------------------------
(* A success in hand, or on record, is one the receiver has seen.          *)
LEMMA NextReceived ==
  Inv /\ [Next]_vars => SuccessWasReceived' /\ DeliveredWasReceived'
<1> SUFFICES ASSUME Inv, [Next]_vars
             PROVE  SuccessWasReceived' /\ DeliveredWasReceived'
  OBVIOUS
<1>1. TypeOK
  BY DEF Inv, LogInv
<1>2. ASSUME NEW d \in Deliverers, NEW j \in Jobs, Post(d, j)
      PROVE  SuccessWasReceived' /\ DeliveredWasReceived'
  <2>1. PICK success \in BOOLEAN :
          /\ task' = [task EXCEPT ![d].pc = "log", ![d].success = success]
          /\ received' \in IF success THEN {received \cup {j}}
                                      ELSE {received, received \cup {j}}
    BY <1>2 DEF Post
  <2>2. received \subseteq received' /\ (success => j \in received')
    BY <2>1
  <2>3. /\ task'[d].success = success /\ task'[d].jobs = {j}
        /\ \A e \in Deliverers \ {d} : task'[e] = task[e]
    BY <1>1, <1>2, <2>1 DEF TypeOK, Task, Post, Working
  <2>4. UNCHANGED delivered
    BY <1>2 DEF Post
  <2> QED
    BY <2>2, <2>3, <2>4 DEF Inv, SuccessWasReceived, DeliveredWasReceived, Working
<1>3. ASSUME NEW d \in Deliverers, NEW j \in Jobs, RecordAttempt(d, j)
      PROVE  SuccessWasReceived' /\ DeliveredWasReceived'
  <2>1. /\ UNCHANGED received /\ task'[d] = NoTask
        /\ \A e \in Deliverers \ {d} : task'[e] = task[e]
    BY <1>1, <1>3 DEF RecordAttempt, Return, TypeOK
  <2>2. delivered' \subseteq delivered \cup (IF task[d].success THEN {j} ELSE {})
    BY <1>3 DEF RecordAttempt
  <2>3. task[d].success => j \in received
    BY <1>3 DEF RecordAttempt, Inv, SuccessWasReceived
  <2> QED
    BY <2>1, <2>2, <2>3 DEF Inv, SuccessWasReceived, DeliveredWasReceived, Working, NoTask
<1>4. ASSUME UNCHANGED received, delivered' \subseteq delivered,
             \A d \in Deliverers : task'[d] = task[d] \/ task'[d].pc # "log"
      PROVE  SuccessWasReceived' /\ DeliveredWasReceived'
  BY <1>4 DEF Inv, SuccessWasReceived, DeliveredWasReceived, Working
<1>5. ASSUME NEW d \in Deliverers, NEW j \in Jobs, Complete(d, j) \/ Find(d, j)
      PROVE  SuccessWasReceived' /\ DeliveredWasReceived'
  <2>1. \A e \in Deliverers : task'[e] = task[e] \/ task'[e].pc # "log"
    <3>1. ASSUME Find(d, j), ShouldPost(j)
          PROVE  \A e \in Deliverers : task'[e] = task[e] \/ task'[e].pc # "log"
      <4>1. task' = [task EXCEPT ![d].pc = "post"]
        BY <3>1 DEF Find
      <4> QED
        BY <1>1, <4>1 DEF TypeOK, Task
    <3>2. CASE Begin(d, j)
      BY <1>1, <3>2 DEF Begin, NoTask, TypeOK
    <3>3. CASE Return(d)
      BY <1>1, <3>3 DEF Return, NoTask, TypeOK
    <3> QED
      BY <1>5, <3>1, <3>2, <3>3 DEF Complete, Find
  <2> QED
    BY <1>4, <1>5, <2>1 DEF Complete, Find
<1>6. ASSUME NEW r \in Retriers, NEW j \in Jobs, RetryNext(r, j)
      PROVE  SuccessWasReceived' /\ DeliveredWasReceived'
  <2>1. \A e \in Deliverers : task'[e] = task[e] \/ task'[e].pc # "log"
    BY <1>1, <1>6 DEF RetryNext, Begin, NoTask, TypeOK, Task
  <2> QED
    BY <1>4, <1>6, <2>1 DEF RetryNext
<1>7. ASSUME NEW d \in Deliverers, Fail(d)
      PROVE  SuccessWasReceived' /\ DeliveredWasReceived'
  <2>1. \A e \in Deliverers : task'[e] = task[e] \/ task'[e].pc # "log"
    BY <1>1, <1>7 DEF Fail, Return, NoTask, TypeOK, Task
  <2> QED
    BY <1>4, <1>7, <2>1 DEF Fail
<1>8. CASE (\E r \in Retriers : RetrySelect(r)) \/ (\E j \in Jobs : Delete(j)) \/ UNCHANGED vars
  BY <1>4, <1>8 DEF RetrySelect, Delete, vars
<1> QED
  BY <1>2, <1>3, <1>5, <1>6, <1>7, <1>8 DEF Next, Deliver

--------------------------------------------------------------------------------
(* Types and the agreement of log, marker and receivers in every state.    *)
THEOREM Invariance == Spec => []Inv
<1>1. Inv /\ [Next]_vars => Inv'
  BY NextLogInv, NextReceived DEF Inv
<1> QED
  BY <1>1, InitInv, PTL DEF Spec

(* Jobs, log, frames and lists stay well typed.                            *)
THEOREM CallbackTypeCorrect == Spec => []TypeOK
BY Invariance, PTL DEF Inv, LogInv

(* The attempts of a job are numbered without gaps or repetitions, however *)
(* many deliveries are under way.                                          *)
THEOREM NumberedLog == Spec => []LogIsNumbered
BY Invariance, PTL DEF Inv, LogInv

(* result_delivered and the log agree: the one success is the last entry.  *)
THEOREM DeliveredOnce == Spec => []DeliveredByLastAttempt
BY Invariance, PTL DEF Inv, LogInv

(* Nothing is marked delivered that its receiver has not seen.             *)
THEOREM NoFalseDelivery == Spec => []DeliveredWasReceived
BY Invariance, PTL DEF Inv

--------------------------------------------------------------------------------
(* Every step is a step of the contract or changes nothing it speaks of.   *)
LEMMA StepIsContractStep ==
  Inv /\ [Next]_vars => [Contract!Next]_(Contract!contractVars)
<1> SUFFICES ASSUME Inv, [Next]_vars PROVE [Contract!Next]_(Contract!contractVars)
  OBVIOUS
<1>1. TypeOK
  BY DEF Inv, LogInv
<1>2. CASE UNCHANGED logged
  BY <1>2 DEF logged, Contract!contractVars
<1>3. ASSUME NEW d \in Deliverers, NEW j \in Jobs, RecordAttempt(d, j)
      PROVE  [Contract!Next]_(Contract!contractVars)
  <2>1. CASE MayRecord(j)
    <3>1. \A k \in Jobs : Len(log'[k]) = IF k = j THEN Len(log[j]) + 1 ELSE Len(log[k])
      BY <1>1, <1>3, <2>1 DEF RecordAttempt, TypeOK
    <3>2. Contract!Record(j)
      BY <1>3, <2>1, <3>1 DEF RecordAttempt, MayRecord, Contract!Record
    <3> QED
      BY <3>2 DEF Contract!Next
  <2>2. CASE ~MayRecord(j)
    BY <1>2, <1>3, <2>2 DEF RecordAttempt, logged
  <2> QED
    BY <2>1, <2>2
<1>4. ASSUME NEW j \in Jobs, Delete(j)
      PROVE  [Contract!Next]_(Contract!contractVars)
  <2>1. \A k \in Jobs : Len(log'[k]) = IF k = j THEN 0 ELSE Len(log[k])
    BY <1>1, <1>4 DEF Delete, TypeOK
  <2>2. Contract!Forget(j)
    BY <1>4, <2>1 DEF Delete, Contract!Forget
  <2> QED
    BY <2>2 DEF Contract!Next
<1>5. \/ UNCHANGED logged
      \/ \E d \in Deliverers, j \in Jobs : RecordAttempt(d, j)
      \/ \E j \in Jobs : Delete(j)
  BY DEF Next, Deliver, Complete, Find, Post, RetrySelect, RetryNext, Fail, vars, logged
<1> QED
  BY <1>2, <1>3, <1>4, <1>5

(* The concurrent deliveries implement the contract: a receiver sees one   *)
(* attempt recorded after the other, and none after one that succeeded.    *)
THEOREM ImplementsContract == Spec => ContractSpec
<1>1. Init => Contract!Init
  BY DEF Init, Contract!Init
<1> QED
  BY <1>1, Invariance, StepIsContractStep, PTL DEF Spec, ContractSpec, Contract!Spec

--------------------------------------------------------------------------------
(* The budget.  A retry loop that has a job in its list or in hand may add *)
(* one more attempt, and so may the delivery markCompleted started.        *)
Held(j) == {r \in Retriers : j \in batch[r] \/ j \in task[r].jobs}

First(j) == \E d \in Immediates : j \in task[d].jobs

Due(j) == Cardinality(Held(j)) + IF First(j) THEN 1 ELSE 0

DueWithinBudget ==
  \A j \in Jobs : Len(log[j]) + Due(j) <= MaxAttempts + Cardinality(Retriers)

OpenUntouched ==
  \A j \in Jobs : status[j] = "open" =>
    log[j] = <<>> /\ Held(j) = {} /\ ~First(j)

(* There is one immediate delivery of a job, and what a retry loop has in  *)
(* hand is off its list.                                                   *)
HandledOnce ==
  /\ \A j \in Jobs, d, e \in Immediates :
       j \in task[d].jobs /\ j \in task[e].jobs => d = e
  /\ \A r \in Retriers : task[r].jobs \cap batch[r] = {}

BudgetInv == TypeOK /\ DueWithinBudget /\ OpenUntouched /\ HandledOnce

(* A set of retry loops is finite and no larger than that of all loops.    *)
LEMMA HeldFinite ==
  ASSUME NEW S \in SUBSET Retriers
  PROVE  /\ IsFiniteSet(S) /\ Cardinality(S) \in Nat
         /\ Cardinality(S) <= Cardinality(Retriers)
BY DeliverersAssumption, FS_Subset, FS_CardinalityType

(* The budget holds before the first attempt.                              *)
LEMMA InitBudget == Init => BudgetInv
<1> SUFFICES ASSUME Init PROVE BudgetInv
  OBVIOUS
<1>1. TypeOK
  BY InitInv DEF Inv, LogInv
<1>2. \A j \in Jobs : Held(j) = {} /\ ~First(j) /\ log[j] = <<>> /\ Len(log[j]) = 0
  BY DEF Init, Held, First, NoTask, Deliverers
<1>3. \A j \in Jobs : Due(j) = 0
  <2> SUFFICES ASSUME NEW j \in Jobs PROVE Due(j) = 0
    OBVIOUS
  <2>1. Cardinality(Held(j)) = 0 /\ ~First(j)
    BY <1>2, FS_EmptySet
  <2> QED
    BY <2>1 DEF Due
<1>4. Cardinality(Retriers) \in Nat
  BY HeldFinite
<1>5. HandledOnce
  BY DEF Init, HandledOnce, NoTask, Deliverers
<1> QED
  BY <1>1, <1>2, <1>3, <1>4, <1>5, MaxAttemptsAssumption
     DEF BudgetInv, DueWithinBudget, OpenUntouched

(* Who holds less, or the same, and logs no more keeps the budget.         *)
LEMMA LessIsDue ==
  ASSUME TypeOK, TypeOK', NEW j \in Jobs,
         Len(log[j]) + Due(j) <= MaxAttempts + Cardinality(Retriers),
         Held(j)' \subseteq Held(j), First(j)' => First(j),
         Len(log'[j]) <= Len(log[j])
  PROVE  Len(log'[j]) + Due(j)' <= MaxAttempts + Cardinality(Retriers)
<1>1. Held(j) \subseteq Retriers /\ Held(j)' \subseteq Retriers
  BY DEF Held
<1>2. /\ Cardinality(Held(j)') <= Cardinality(Held(j))
      /\ Cardinality(Held(j)') \in Nat /\ Cardinality(Held(j)) \in Nat
      /\ Cardinality(Retriers) \in Nat
  BY <1>1, HeldFinite, FS_Subset
<1>3. Len(log'[j]) \in Nat /\ Len(log[j]) \in Nat
  BY DEF TypeOK
<1>4. Due(j) = Cardinality(Held(j)) + IF First(j) THEN 1 ELSE 0
  BY DEF Due
<1>5. Due(j)' = Cardinality(Held(j)') + IF First(j)' THEN 1 ELSE 0
  BY DEF Due
<1> QED
  BY <1>2, <1>3, <1>4, <1>5, MaxAttemptsAssumption

(* A step that logs nothing and takes jobs from lists and hands only.      *)
LEMMA FewerHeld ==
  ASSUME BudgetInv, TypeOK', NEW d \in Deliverers,
         \A e \in Deliverers \ {d} : task'[e] = task[e],
         task'[d].jobs \subseteq task[d].jobs,
         \A r \in Retriers : batch'[r] \subseteq batch[r],
         \A j \in Jobs : status'[j] = "open" => status[j] = "open",
         UNCHANGED log
  PROVE  BudgetInv'
<1>1. \A j \in Jobs : Held(j)' \subseteq Held(j) /\ (First(j)' => First(j))
  BY DEF Held, First, Deliverers
<1>2. \A j \in Jobs : Len(log'[j]) <= Len(log[j])
  BY DEF BudgetInv, TypeOK
<1>3. DueWithinBudget'
  BY <1>1, <1>2, LessIsDue DEF BudgetInv, DueWithinBudget
<1>4. OpenUntouched'
  BY <1>1 DEF BudgetInv, OpenUntouched
<1>5. HandledOnce'
  BY DEF BudgetInv, HandledOnce, Deliverers
<1> QED
  BY <1>3, <1>4, <1>5 DEF BudgetInv

(* An attempt is recorded, or not: who records holds the job no longer.    *)
LEMMA RecordWithinBudget ==
  ASSUME BudgetInv, TypeOK', NEW d \in Deliverers, NEW j \in Jobs, RecordAttempt(d, j)
  PROVE  BudgetInv'
<1>1. /\ task' = [task EXCEPT ![d] = NoTask] /\ task[d].jobs = {j}
      /\ UNCHANGED <<status, batch>>
  BY DEF RecordAttempt, Return, Working
<1>2. /\ task'[d].jobs = {} /\ task \in [Deliverers -> Task]
      /\ \A e \in Deliverers \ {d} : task'[e] = task[e]
  BY <1>1 DEF BudgetInv, TypeOK, NoTask
<1>3. /\ \A k \in Jobs \ {j} : log'[k] = log[k]
      /\ Len(log'[j]) <= Len(log[j]) + 1
      /\ \A k \in Jobs : Len(log[k]) \in Nat /\ Len(log'[k]) \in Nat
  <2>1. CASE MayRecord(j)
    BY <2>1 DEF RecordAttempt, BudgetInv, TypeOK
  <2>2. CASE ~MayRecord(j)
    BY <2>2 DEF RecordAttempt, BudgetInv, TypeOK
  <2> QED
    BY <2>1, <2>2
<1>4. \A k \in Jobs : Held(k)' \subseteq Held(k) /\ (First(k)' => First(k))
  BY <1>1, <1>2 DEF Held, First, Deliverers
<1>5. Len(log'[j]) + Due(j)' <= MaxAttempts + Cardinality(Retriers)
  <2>1. Len(log[j]) + Due(j) <= MaxAttempts + Cardinality(Retriers)
    BY DEF BudgetInv, DueWithinBudget
  <2>2. /\ Due(j) = Cardinality(Held(j)) + IF First(j) THEN 1 ELSE 0
        /\ Due(j)' = Cardinality(Held(j)') + IF First(j)' THEN 1 ELSE 0
    BY DEF Due
  <2>3. Held(j) \subseteq Retriers /\ Held(j)' \subseteq Retriers
    BY DEF Held
  <2>4. /\ IsFiniteSet(Held(j)) /\ Cardinality(Retriers) \in Nat
        /\ Cardinality(Held(j)) \in Nat /\ Cardinality(Held(j)') \in Nat
        /\ Cardinality(Held(j)') <= Cardinality(Held(j))
    BY <1>4, <2>3, HeldFinite, FS_Subset
  <2>5. CASE d \in Immediates
    <3>1. First(j) /\ ~First(j)'
      BY <1>1, <1>2, <2>5 DEF First, BudgetInv, HandledOnce, Deliverers
    <3> QED
      BY <1>3, <2>1, <2>2, <2>4, <3>1, MaxAttemptsAssumption
  <2>6. CASE d \in Retriers
    <3>1. d \in Held(j) /\ d \notin Held(j)'
      BY <1>1, <1>2, <2>6 DEF Held, BudgetInv, HandledOnce
    <3>2. Held(j)' \subseteq Held(j) \ {d}
      BY <1>4, <3>1
    <3>3. /\ IsFiniteSet(Held(j) \ {d})
          /\ Cardinality(Held(j) \ {d}) = Cardinality(Held(j)) - 1
      BY <2>4, <3>1, FS_RemoveElement
    <3>4. Cardinality(Held(j)') <= Cardinality(Held(j)) - 1
      BY <3>2, <3>3, FS_Subset
    <3>5. First(j)' => First(j)
      BY <1>4
    <3>6. Due(j)' <= Due(j) - 1 /\ Due(j) \in Int /\ Due(j)' \in Int
      BY <2>2, <2>4, <3>4, <3>5
    <3> QED
      BY <1>3, <2>1, <2>4, <3>6, MaxAttemptsAssumption
  <2> QED
    BY <2>5, <2>6 DEF Deliverers
<1>6. DueWithinBudget'
  <2>1. ASSUME NEW k \in Jobs \ {j}
        PROVE  Len(log'[k]) + Due(k)' <= MaxAttempts + Cardinality(Retriers)
    <3>1. Len(log'[k]) <= Len(log[k])
      BY <1>3
    <3> QED
      BY <1>4, <3>1, LessIsDue DEF BudgetInv, DueWithinBudget
  <2> QED
    BY <1>5, <2>1 DEF DueWithinBudget
<1>7. OpenUntouched'
  <2>1. status[j] # "open"
    BY <1>1 DEF BudgetInv, OpenUntouched, Held, First, Deliverers
  <2> QED
    BY <1>1, <1>3, <1>4, <2>1 DEF BudgetInv, OpenUntouched
<1>8. HandledOnce'
  BY <1>1, <1>2 DEF BudgetInv, HandledOnce, Deliverers
<1> QED
  BY <1>6, <1>7, <1>8 DEF BudgetInv

(* Every step keeps the attempts within the budget plus the old counts.    *)
LEMMA NextBudget == BudgetInv /\ [Next]_vars => BudgetInv'
<1> SUFFICES ASSUME BudgetInv, [Next]_vars PROVE BudgetInv'
  OBVIOUS
<1>1. TypeOK /\ TypeOK'
  BY NextTypeOK DEF BudgetInv
<1>2. Cardinality(Retriers) \in Nat
  BY HeldFinite
<1>3. ASSUME NEW d \in Deliverers, NEW j \in Jobs, Complete(d, j) PROVE BudgetInv'
  <2>1. /\ task'[d].jobs = {j} /\ task[d].jobs = {} /\ d \in Immediates
        /\ \A e \in Deliverers \ {d} : task'[e] = task[e]
        /\ UNCHANGED <<log, batch>> /\ d \notin Retriers
    BY <1>1, <1>3, DeliverersAssumption DEF Complete, Begin, NoTask, TypeOK
  <2>2. /\ status[j] = "open" /\ status'[j] = "completed"
        /\ \A k \in Jobs \ {j} : status'[k] = status[k]
    BY <1>1, <1>3 DEF Complete, TypeOK
  <2>3. log[j] = <<>> /\ Held(j) = {} /\ ~First(j)
    BY <2>2 DEF BudgetInv, OpenUntouched
  <2>4. /\ \A k \in Jobs : Held(k)' = Held(k)
        /\ \A k \in Jobs \ {j} : First(k)' => First(k)
    BY <2>1 DEF Held, First, Deliverers
  <2>5. Len(log'[j]) + Due(j)' <= MaxAttempts + Cardinality(Retriers)
    <3>1. Cardinality(Held(j)') = 0 /\ Len(log'[j]) = 0
      BY <2>1, <2>3, <2>4, FS_EmptySet
    <3>2. Due(j)' = Cardinality(Held(j)') + IF First(j)' THEN 1 ELSE 0
      BY DEF Due
    <3> QED
      BY <1>2, <3>1, <3>2, MaxAttemptsAssumption
  <2>6. ASSUME NEW k \in Jobs \ {j}
        PROVE  Len(log'[k]) + Due(k)' <= MaxAttempts + Cardinality(Retriers)
    <3>1. Len(log'[k]) <= Len(log[k])
      BY <1>1, <2>1 DEF TypeOK
    <3> QED
      BY <1>1, <2>4, <3>1, LessIsDue DEF BudgetInv, DueWithinBudget
  <2>7. DueWithinBudget'
    BY <2>5, <2>6 DEF DueWithinBudget
  <2>8. OpenUntouched'
    BY <2>1, <2>2, <2>4 DEF BudgetInv, OpenUntouched
  <2>9. HandledOnce'
    BY <2>1, <2>3 DEF BudgetInv, HandledOnce, First, Deliverers
  <2> QED
    BY <1>1, <2>7, <2>8, <2>9 DEF BudgetInv
<1>4. ASSUME NEW d \in Deliverers, NEW j \in Jobs, Find(d, j) PROVE BudgetInv'
  <2>1. /\ task'[d].jobs \subseteq task[d].jobs
        /\ \A e \in Deliverers \ {d} : task'[e] = task[e]
    <3>1. CASE ShouldPost(j)
      <4>1. task' = [task EXCEPT ![d].pc = "post"]
        BY <1>4, <3>1 DEF Find
      <4> QED
        BY <1>1, <4>1 DEF TypeOK, Task
    <3>2. CASE ~ShouldPost(j)
      <4>1. task' = [task EXCEPT ![d] = NoTask]
        BY <1>4, <3>2 DEF Find, Return
      <4> QED
        BY <1>1, <4>1 DEF TypeOK, NoTask
    <3> QED
      BY <3>1, <3>2
  <2> QED
    BY <1>1, <1>4, <2>1, FewerHeld DEF Find
<1>5. ASSUME NEW d \in Deliverers, NEW j \in Jobs, Post(d, j) PROVE BudgetInv'
  <2>1. PICK success \in BOOLEAN :
          task' = [task EXCEPT ![d].pc = "log", ![d].success = success]
    BY <1>5 DEF Post
  <2>2. /\ task'[d].jobs \subseteq task[d].jobs
        /\ \A e \in Deliverers \ {d} : task'[e] = task[e]
    BY <1>1, <2>1 DEF TypeOK, Task
  <2> QED
    BY <1>1, <1>5, <2>2, FewerHeld DEF Post
<1>6. ASSUME NEW r \in Retriers, RetrySelect(r) PROVE BudgetInv'
  <2>1. /\ task[r].jobs = {} /\ UNCHANGED <<status, log, task>>
        /\ batch'[r] = {j \in Jobs : MayRetry(j)}
        /\ \A q \in Retriers \ {r} : batch'[q] = batch[q]
    BY <1>1, <1>6 DEF RetrySelect, NoTask, TypeOK
  <2>2. ASSUME NEW j \in Jobs
        PROVE  Len(log'[j]) + Due(j)' <= MaxAttempts + Cardinality(Retriers)
    <3>1. First(j)' <=> First(j)
      BY <2>1 DEF First
    <3>2. CASE MayRetry(j)
      <4>1. Len(log[j]) \in Nat /\ Len(log[j]) < MaxAttempts /\ log' = log
        BY <1>1, <2>1, <3>2 DEF MayRetry, TypeOK
      <4>2. Held(j)' \subseteq Retriers
        BY DEF Held
      <4>3. Cardinality(Held(j)') \in Nat /\ Cardinality(Held(j)') <= Cardinality(Retriers)
        BY <4>2, HeldFinite
      <4>4. Due(j)' = Cardinality(Held(j)') + IF First(j)' THEN 1 ELSE 0
        BY DEF Due
      <4> QED
        BY <1>2, <4>1, <4>3, <4>4, MaxAttemptsAssumption
    <3>3. CASE ~MayRetry(j)
      <4>1. Held(j)' \subseteq Held(j)
        BY <2>1, <3>3 DEF Held
      <4>2. Len(log'[j]) <= Len(log[j])
        BY <1>1, <2>1 DEF TypeOK
      <4> QED
        BY <1>1, <3>1, <4>1, <4>2, LessIsDue DEF BudgetInv, DueWithinBudget
    <3> QED
      BY <3>2, <3>3
  <2>3. OpenUntouched'
    <3>1. ASSUME NEW j \in Jobs, status[j] = "open" PROVE Held(j)' = {}
      <4>1. ~MayRetry(j)
        BY <3>1 DEF MayRetry
      <4> QED
        BY <2>1, <3>1, <4>1 DEF BudgetInv, OpenUntouched, Held
    <3> QED
      BY <2>1, <3>1 DEF BudgetInv, OpenUntouched, First
  <2>4. HandledOnce'
    BY <2>1 DEF BudgetInv, HandledOnce
  <2> QED
    BY <1>1, <2>2, <2>3, <2>4 DEF BudgetInv, DueWithinBudget
<1>7. ASSUME NEW r \in Retriers, NEW j \in Jobs, RetryNext(r, j) PROVE BudgetInv'
  <2>1. /\ task[r].jobs = {} /\ task'[r].jobs = {j} /\ j \in batch[r]
        /\ batch'[r] = batch[r] \ {j} /\ UNCHANGED <<status, log>>
        /\ \A q \in Retriers \ {r} : batch'[q] = batch[q]
        /\ \A e \in Deliverers \ {r} : task'[e] = task[e]
    BY <1>1, <1>7 DEF RetryNext, Begin, NoTask, TypeOK, Deliverers
  <2>2. r \notin Immediates
    BY DeliverersAssumption
  <2>3. \A k \in Jobs : Held(k)' \subseteq Held(k) /\ (First(k)' => First(k))
    BY <2>1, <2>2 DEF Held, First, Deliverers
  <2>4. \A k \in Jobs : Len(log'[k]) <= Len(log[k])
    BY <1>1, <2>1 DEF TypeOK
  <2>5. DueWithinBudget'
    BY <1>1, <2>3, <2>4, LessIsDue DEF BudgetInv, DueWithinBudget
  <2>6. OpenUntouched'
    BY <2>1, <2>3 DEF BudgetInv, OpenUntouched
  <2>7. HandledOnce'
    BY <2>1, <2>2 DEF BudgetInv, HandledOnce, Deliverers
  <2> QED
    BY <1>1, <2>5, <2>6, <2>7 DEF BudgetInv
<1>8. ASSUME NEW d \in Deliverers, Fail(d) PROVE BudgetInv'
  <2>1. /\ task'[d].jobs = {} /\ \A e \in Deliverers \ {d} : task'[e] = task[e]
        /\ \A r \in Retriers : batch'[r] \subseteq batch[r]
        /\ UNCHANGED <<status, log>>
    BY <1>1, <1>8 DEF Fail, Return, NoTask, TypeOK
  <2> QED
    BY <1>1, <2>1, FewerHeld
<1>9. ASSUME NEW j \in Jobs, Delete(j) PROVE BudgetInv'
  <2>1. /\ UNCHANGED <<task, batch>> /\ status'[j] = "deleted"
        /\ Len(log'[j]) = 0
        /\ \A k \in Jobs \ {j} : status'[k] = status[k] /\ log'[k] = log[k]
    BY <1>1, <1>9 DEF Delete, TypeOK
  <2>2. \A k \in Jobs : Held(k)' = Held(k) /\ (First(k)' <=> First(k))
    BY <2>1 DEF Held, First
  <2>3. ASSUME NEW k \in Jobs PROVE Len(log'[k]) <= Len(log[k])
    <3>1. Len(log[k]) \in Nat
      BY <1>1 DEF TypeOK
    <3> QED
      BY <2>1, <3>1
  <2>4. DueWithinBudget'
    BY <1>1, <2>2, <2>3, LessIsDue DEF BudgetInv, DueWithinBudget
  <2>5. OpenUntouched'
    BY <2>1, <2>2 DEF BudgetInv, OpenUntouched
  <2>6. HandledOnce'
    BY <2>1 DEF BudgetInv, HandledOnce
  <2> QED
    BY <1>1, <2>4, <2>5, <2>6 DEF BudgetInv
<1>10. CASE UNCHANGED vars
  <2>1. UNCHANGED <<status, log, task, batch>>
    BY <1>10 DEF vars
  <2>2. \A k \in Jobs : Held(k)' = Held(k) /\ (First(k)' <=> First(k)) /\ Due(k)' = Due(k)
    BY <2>1 DEF Held, First, Due
  <2> QED
    BY <1>1, <2>1, <2>2 DEF BudgetInv, DueWithinBudget, OpenUntouched, HandledOnce
<1> QED
  BY <1>1, <1>3, <1>4, <1>5, <1>6, <1>7, <1>8, <1>9, <1>10, RecordWithinBudget
     DEF Next, Deliver

(* However stale the counts are that a retry loop compares with the        *)
(* budget, a job has at most one attempt for each loop beyond it.          *)
THEOREM NearBudget == Spec => []AttemptsNearBudget
<1>1. BudgetInv => AttemptsNearBudget
  <2> SUFFICES ASSUME BudgetInv, NEW j \in Jobs
               PROVE  Len(log[j]) <= MaxAttempts + Cardinality(Retriers)
    BY DEF AttemptsNearBudget
  <2>1. Held(j) \subseteq Retriers
    BY DEF Held
  <2>2. Cardinality(Held(j)) \in Nat /\ Cardinality(Retriers) \in Nat
    BY <2>1, HeldFinite
  <2>3. Len(log[j]) \in Nat
    BY DEF BudgetInv, TypeOK
  <2> QED
    BY <2>2, <2>3, MaxAttemptsAssumption DEF BudgetInv, DueWithinBudget, Due
<1> QED
  BY <1>1, InitBudget, NextBudget, PTL DEF Spec
================================================================================
