---------------------------- MODULE CallbackDelivery ----------------------------
(***************************************************************************)
(* Delivery of results to callback URLs: callback_service.ts, started once *)
(* by markCompleted when a job completes and again and again by the retry  *)
(* timer that every process runs (callback_provider.ts).                   *)
(*                                                                         *)
(* Two activities may deliver the same job at once; the POST happens with  *)
(* no lock held and the record is written under the lock of the job's row. *)
(***************************************************************************)
EXTENDS Integers, Sequences, FiniteSets

CONSTANTS Jobs,          \* the jobs that have a callback URL
          ValidUrls,     \* those whose URL isValidCallbackUrl accepts
          Immediates,    \* the deliveries markCompleted starts and forgets
          Retriers,      \* the retry loops, one in each process
          MaxAttempts    \* callback_retry_max

ASSUME UrlsAssumption == ValidUrls \subseteq Jobs
ASSUME DeliverersAssumption ==
  Immediates \cap Retriers = {} /\ IsFiniteSet(Retriers)
ASSUME MaxAttemptsAssumption == MaxAttempts \in Nat \ {0}

Deliverers == Immediates \cup Retriers

VARIABLES status,      \* "open" until the job completes, then "deleted" some day
          delivered,   \* the jobs whose result_delivered is true
          log,         \* callback_log: the rows of each job in order of insertion
          received,    \* the jobs whose receiver has seen their result
          task,        \* the deliverResult each deliverer is executing
          batch        \* the rest of the list a retry loop is working through

vars == <<status, delivered, log, received, task, batch>>

Entry == [attempt : Nat \ {0}, success : BOOLEAN]

Task == [pc : {"idle", "find", "post", "log"}, jobs : SUBSET Jobs, success : BOOLEAN]

NoTask == [pc |-> "idle", jobs |-> {}, success |-> FALSE]

Working(d, pc, j) == task[d].pc = pc /\ task[d].jobs = {j}

Begin(d, j) ==
  task' = [task EXCEPT ![d] = [NoTask EXCEPT !.pc = "find", !.jobs = {j}]]

Return(d) == task' = [task EXCEPT ![d] = NoTask]

Init ==
  /\ status = [j \in Jobs |-> "open"]
  /\ delivered = {}
  /\ log = [j \in Jobs |-> <<>>]
  /\ received = {}
  /\ task = [d \in Deliverers |-> NoTask]
  /\ batch = [r \in Retriers |-> {}]

--------------------------------------------------------------------------------
(* markCompleted commits and starts a delivery it does not wait for.       *)
Complete(d, j) ==
  /\ status[j] = "open"
  /\ d \in Immediates
  /\ task[d] = NoTask
  /\ status' = [status EXCEPT ![j] = "completed"]
  /\ Begin(d, j)
  /\ UNCHANGED <<delivered, log, received, batch>>

(* deliverResult reads the job and its result: it gives up on a job that   *)
(* is gone or delivered and on a URL it does not accept.                   *)
ShouldPost(j) ==
  status[j] = "completed" /\ j \notin delivered /\ j \in ValidUrls

Find(d, j) ==
  /\ Working(d, "find", j)
  /\ IF ShouldPost(j) THEN task' = [task EXCEPT ![d].pc = "post"] ELSE Return(d)
  /\ UNCHANGED <<status, delivered, log, received, batch>>

(* Mutant of Post: any answer counts, the error of a dead receiver too.    *)
PostOptimistic(d, j) ==
  /\ Working(d, "post", j)
  /\ task' = [task EXCEPT ![d].pc = "log", ![d].success = TRUE]
  /\ received' \in {received, received \cup {j}}
  /\ UNCHANGED <<status, delivered, log, batch>>

(* The POST: it is answered with 2xx; it is received but the answer is an  *)
(* error, is lost or comes after the timeout; or it is never received.     *)
Post(d, j) ==
  /\ Working(d, "post", j)
  /\ \E success \in BOOLEAN :
       /\ task' = [task EXCEPT ![d].pc = "log", ![d].success = success]
       /\ received' \in IF success THEN {received \cup {j}}
                                   ELSE {received, received \cup {j}}
  /\ UNCHANGED <<status, delivered, log, batch>>

(* Mutants of MayRecord and AttemptNumber: no second look under the lock,  *)
(* the count of the earlier attempts taken for the number of this one.     *)
MayRecordBlindly(j) == status[j] = "completed"

AttemptNumberFromZero(d, j) == Len(log[j])

(* The transaction under the row's lock: nothing is recorded for a job     *)
(* that is gone or was delivered meanwhile.                                *)
MayRecord(j) == status[j] = "completed" /\ j \notin delivered

AttemptNumber(d, j) == Len(log[j]) + 1

RecordAttempt(d, j) ==
  /\ Working(d, "log", j)
  /\ IF MayRecord(j)
     THEN /\ log' = [log EXCEPT ![j] =
                       Append(@, [attempt |-> AttemptNumber(d, j),
                                  success |-> task[d].success])]
          /\ delivered' = IF task[d].success THEN delivered \cup {j} ELSE delivered
     ELSE UNCHANGED <<log, delivered>>
  /\ Return(d)
  /\ UNCHANGED <<status, received, batch>>

--------------------------------------------------------------------------------
(* Mutants of MayRetry: the attempts are not counted, and the count joins  *)
(* the log so that a job without an entry drops out.                       *)
MayRetryForever(j) == status[j] = "completed" /\ j \notin delivered

MayRetryLogged(j) ==
  /\ status[j] = "completed" /\ j \notin delivered
  /\ Len(log[j]) \in 1..(MaxAttempts - 1)

(* retryPendingCallbacks selects the jobs and counts their attempts once.  *)
MayRetry(j) ==
  status[j] = "completed" /\ j \notin delivered /\ Len(log[j]) < MaxAttempts

RetrySelect(r) ==
  LET list == {j \in Jobs : MayRetry(j)} IN
  /\ task[r] = NoTask
  /\ batch[r] = {}
  /\ list # {}
  /\ batch' = [batch EXCEPT ![r] = list]
  /\ UNCHANGED <<status, delivered, log, received, task>>

(* and delivers them one after the other.                                  *)
RetryNext(r, j) ==
  /\ task[r] = NoTask
  /\ j \in batch[r]
  /\ batch' = [batch EXCEPT ![r] = @ \ {j}]
  /\ Begin(r, j)
  /\ UNCHANGED <<status, delivered, log, received>>

(* A database call throws, or the process dies: the delivery ends where it *)
(* is, and a retry loop ends with it.                                      *)
Fail(d) ==
  /\ task[d] # NoTask
  /\ Return(d)
  /\ batch' = [r \in Retriers |-> IF r = d THEN {} ELSE batch[r]]
  /\ UNCHANGED <<status, delivered, log, received>>

(* Retention deletes the job; the foreign key cascades to callback_log.    *)
Delete(j) ==
  /\ status[j] = "completed"
  /\ status' = [status EXCEPT ![j] = "deleted"]
  /\ log' = [log EXCEPT ![j] = <<>>]
  /\ delivered' = delivered \ {j}
  /\ UNCHANGED <<received, task, batch>>

--------------------------------------------------------------------------------
Deliver(d, j) == Find(d, j) \/ Post(d, j) \/ RecordAttempt(d, j)

Next ==
  \/ \E d \in Deliverers, j \in Jobs : Complete(d, j) \/ Deliver(d, j)
  \/ \E r \in Retriers : RetrySelect(r) \/ \E j \in Jobs : RetryNext(r, j)
  \/ \E d \in Deliverers : Fail(d)
  \/ \E j \in Jobs : Delete(j)

Spec == Init /\ [][Next]_vars

(* The retry timers keep firing, a delivery that began goes on, and the    *)
(* database and the process do not fail every time at the same await.      *)
Fairness ==
  \A r \in Retriers :
    /\ WF_vars(RetrySelect(r))
    /\ \A j \in Jobs : /\ SF_vars(RetryNext(r, j))
                       /\ SF_vars(Find(r, j))
                       /\ SF_vars(Post(r, j))
                       /\ SF_vars(RecordAttempt(r, j))

FairSpec == Spec /\ Fairness

--------------------------------------------------------------------------------
TypeOK ==
  /\ status \in [Jobs -> {"open", "completed", "deleted"}]
  /\ delivered \in SUBSET Jobs
  /\ log \in [Jobs -> Seq(Entry)]
  /\ received \in SUBSET Jobs
  /\ task \in [Deliverers -> Task]
  /\ batch \in [Retriers -> SUBSET Jobs]

(* The log of a job is numbered 1, 2, 3 ... without gaps or repetitions,   *)
(* although several activities number its attempts concurrently.           *)
LogIsNumbered ==
  \A j \in Jobs : \A i \in 1..Len(log[j]) : log[j][i].attempt = i

(* result_delivered and the log agree: a delivered job has one successful  *)
(* attempt, nothing was recorded after it, and no other job has any.       *)
DeliveredByLastAttempt ==
  \A j \in Jobs : \A i \in 1..Len(log[j]) :
    log[j][i].success <=> (j \in delivered /\ i = Len(log[j]))

(* A job is only marked delivered when its receiver has seen the result,   *)
(* also when the attempt that delivered it was overtaken by others.        *)
DeliveredWasReceived == delivered \subseteq received

(* The budget of attempts is exceeded by the deliveries in flight when it  *)
(* was reached, and by no more: one for each retry loop at most.           *)
AttemptsNearBudget ==
  \A j \in Jobs : Len(log[j]) <= MaxAttempts + Cardinality(Retriers)

(* A completed job's result is delivered, or its attempts are used up, or  *)
(* the job is deleted: no delivery is forgotten by a crash.                *)
EveryCallbackConcludes ==
  \A j \in ValidUrls :
    status[j] = "completed" ~>
      \/ j \in delivered
      \/ Len(log[j]) >= MaxAttempts
      \/ status[j] = "deleted"

Contract ==
  INSTANCE CallbackContract WITH attempts <- [j \in Jobs |-> Len(log[j])]

(* The concurrent deliveries implement the contract.                       *)
ContractSpec == Contract!Spec
================================================================================
