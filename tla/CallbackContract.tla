---------------------------- MODULE CallbackContract ----------------------------
(***************************************************************************)
(* What callback delivery promises the receiver of a result, with no       *)
(* notion of who delivers: attempts are recorded one after the other, and  *)
(* the first one that succeeded is the last one there is.                  *)
(***************************************************************************)
EXTENDS Integers

CONSTANT Jobs

VARIABLES attempts,    \* how many attempts are on record for each job
          delivered    \* the jobs whose result was delivered

contractVars == <<attempts, delivered>>

Init ==
  /\ attempts = [j \in Jobs |-> 0]
  /\ delivered = {}

(* An attempt is recorded; a successful one closes the job's delivery.     *)
Record(j) ==
  /\ j \notin delivered
  /\ attempts' = [attempts EXCEPT ![j] = @ + 1]
  /\ delivered' \in {delivered, delivered \cup {j}}

(* The job is deleted and its record with it.                              *)
Forget(j) ==
  /\ attempts' = [attempts EXCEPT ![j] = 0]
  /\ delivered' = delivered \ {j}

Next == \E j \in Jobs : Record(j) \/ Forget(j)

Spec == Init /\ [][Next]_contractVars
================================================================================
