----------------------------- MODULE DispatcherLoop -----------------------------
(***************************************************************************)
(* The polling loop of dispatcher_service.ts in one process: admission up  *)
(* to a limit that operators may change at any time, the jobs in flight,   *)
(* and shutdown.  What a run does with its job is GradingRun; here it has  *)
(* a pod and comes to an end.                                              *)
(*                                                                         *)
(* The process runs on one thread: what happens between two awaits is one  *)
(* step.  A process started by "dispatcher:run" has two SIGTERM handlers   *)
(* that call stop(), the command's and, by way of app.terminate, the       *)
(* provider's; one that serves HTTP has the provider's alone.              *)
(***************************************************************************)
EXTENDS Integers, FiniteSets

CONSTANTS Jobs,            \* the jobs this process may see
          Limits,          \* values an operator may give max_concurrent_jobs
          Default          \* DEFAULT_MAX_CONCURRENT

ASSUME JobsAssumption == IsFiniteSet(Jobs)
ASSUME LimitsAssumption == Limits \subseteq Nat \ {0} /\ Default \in Nat \ {0}

VARIABLES state,      \* each job: in the queue, in the loop's hands, in flight ...
          pods,       \* its pod: not yet there, active, or ended
          phase,      \* the process: "booting", "up" or "down"
          running,    \* this.running
          loop,       \* where runLoop is and what its iteration was told
          handlers,   \* the handlers this process has
          stops,      \* the stop() call of each handler
          expired     \* stop()'s deadline has passed

vars == <<state, pods, phase, running, loop, handlers, stops, expired>>

Handlers == {"provider", "command"}

Pcs == {"off", "top", "check", "dequeue", "fork", "sleep"}

Inflight == {j \in Jobs : state[j] = "inflight"}

Claimed == {j \in Jobs : state[j] = "claimed"}

Active == {j \in Jobs : pods[j] = "active"}

(* max: maxConcurrent; seen: the jobs the cluster listed, of which the     *)
(* code keeps the number.  sure is history: TRUE when max is the setting   *)
(* and the list has every pod.                                             *)
At(pc) == [pc |-> pc, max |-> 0, seen |-> {}, sure |-> FALSE]

Jump(pc) == loop' = At(pc)

(* A former process may have died and left pods behind; the other jobs are *)
(* in the queue.                                                           *)
Init ==
  /\ state \in [Jobs -> {"pending", "abandoned"}]
  /\ pods = [j \in Jobs |-> IF state[j] = "abandoned" THEN "active" ELSE "none"]
  /\ phase = "booting"
  /\ running = FALSE
  /\ loop = At("off")
  /\ handlers \in {{"provider"}, Handlers}
  /\ stops = [h \in Handlers |-> "none"]
  /\ expired = FALSE

--------------------------------------------------------------------------------
(* start: whoever calls it second finds the loop running.                  *)
Start ==
  /\ phase = "booting"
  /\ phase' = "up"
  /\ running' = TRUE
  /\ Jump("top")
  /\ UNCHANGED <<state, pods, handlers, stops, expired>>

(* getMaxConcurrentJobs: the setting, which the validator of PUT /config   *)
(* keeps positive and which may have any value by now, or the default when *)
(* its row is missing or the query throws; getActiveJobCount answers 0 on  *)
(* any error, as if the list were empty.                                   *)
Told(list) ==
  [pc : {"check"}, max : Limits, seen : {list}, sure : {TRUE}]
    \cup [pc : {"check"}, max : Limits, seen : {{}}, sure : {list = {}}]
    \cup [pc : {"check"}, max : {Default}, seen : {list, {}}, sure : {FALSE}]

(* Mutants of Listed and LoopCount: the runs in flight count as pods from  *)
(* the start; the loop does not look at running.                           *)
ListedWithOwn == Active \cup Inflight

LoopCountForever ==
  /\ loop.pc = "top"
  /\ loop' \in Told(Active)
  /\ UNCHANGED <<state, pods, phase, running, handlers, stops, expired>>

(* The pods of the runs in flight are among those the cluster lists.       *)
Listed == Active

(* One turn of runLoop begins.                                             *)
LoopCount ==
  /\ loop.pc = "top"
  /\ IF running THEN loop' \in Told(Listed) ELSE Jump("off")
  /\ UNCHANGED <<state, pods, phase, running, handlers, stops, expired>>

(* Mutant of AtCapacity: the runs in flight have pods, ask the cluster.    *)
AtCapacityByPods == Cardinality(loop.seen) >= loop.max

AtCapacity == Cardinality(loop.seen) + Cardinality(Inflight) >= loop.max

LoopCheck ==
  /\ loop.pc = "check"
  /\ IF AtCapacity THEN Jump("sleep")
                   ELSE loop' = [loop EXCEPT !.pc = "dequeue", !.seen = {}]
  /\ UNCHANGED <<state, pods, phase, running, handlers, stops, expired>>

(* dequeueNext: nobody has looked at running since the iteration began.    *)
LoopClaim(j) ==
  /\ loop.pc = "dequeue"
  /\ state[j] = "pending"
  /\ state' = [state EXCEPT ![j] = "claimed"]
  /\ Jump("fork")
  /\ UNCHANGED <<pods, phase, running, handlers, stops, expired>>

(* Mutant of LoopEmpty: an error ends the loop.                            *)
LoopEmptyEnds ==
  /\ loop.pc = "dequeue"
  /\ Jump("off")
  /\ UNCHANGED <<state, pods, phase, running, handlers, stops, expired>>

(* The queue is empty (a pending job may be one that is submitted only     *)
(* later), or the database throws.                                         *)
LoopEmpty ==
  /\ loop.pc = "dequeue"
  /\ Jump("sleep")
  /\ UNCHANGED <<state, pods, phase, running, handlers, stops, expired>>

(* The row was claimed, but the query that loads it throws.                *)
LoopLoses ==
  /\ loop.pc = "fork"
  /\ state' = [j \in Jobs |-> IF state[j] = "claimed" THEN "abandoned" ELSE state[j]]
  /\ Jump("sleep")
  /\ UNCHANGED <<pods, phase, running, handlers, stops, expired>>

(* The claimed job is handed to runJob and tracked in inflight.            *)
LoopFork ==
  /\ loop.pc = "fork"
  /\ state' = [j \in Jobs |-> IF state[j] = "claimed" THEN "inflight" ELSE state[j]]
  /\ Jump("top")
  /\ UNCHANGED <<pods, phase, running, handlers, stops, expired>>

LoopWake ==
  /\ loop.pc = "sleep"
  /\ Jump("top")
  /\ UNCHANGED <<state, pods, phase, running, handlers, stops, expired>>

--------------------------------------------------------------------------------
(* A pod that this iteration does not count once its run is over: it       *)
(* started after the cluster had answered, and the check is still to come. *)
Missed(j) == loop.pc = "check" /\ pods[j] = "active" /\ j \notin loop.seen

(* runJob creates the pod, and ends with its outcome on record.  The pod   *)
(* may outlive it: an answer that was lost, a deletion that failed.        *)
PodStarts(j) ==
  /\ j \in Inflight
  /\ pods[j] = "none"
  /\ pods' = [pods EXCEPT ![j] = "active"]
  /\ UNCHANGED <<state, phase, running, loop, handlers, stops, expired>>

PodEnds(j) ==
  /\ pods[j] = "active"
  /\ pods' = [pods EXCEPT ![j] = "ended"]
  /\ UNCHANGED <<state, phase, running, loop, handlers, stops, expired>>

RunEnds(j) ==
  /\ j \in Inflight
  /\ state' = [state EXCEPT ![j] = "done"]
  /\ loop' = [loop EXCEPT !.sure = @ /\ ~Missed(j)]
  /\ UNCHANGED <<pods, phase, running, handlers, stops, expired>>

--------------------------------------------------------------------------------
(* stop: a second caller finds running cleared and returns at once.        *)
StopCall(h) ==
  /\ phase = "up"
  /\ h \in handlers
  /\ stops[h] = "none"
  /\ running' = FALSE
  /\ stops' = [stops EXCEPT ![h] = IF running THEN "drain" ELSE "skipped"]
  /\ UNCHANGED <<state, pods, phase, loop, handlers, expired>>

(* It waits for the jobs that are in flight, up to a deadline ...          *)
StopDeadline ==
  /\ \E h \in handlers : stops[h] = "drain"
  /\ ~expired
  /\ expired' = TRUE
  /\ UNCHANGED <<state, pods, phase, running, loop, handlers, stops>>

(* Mutants: the drain gives up after one round, the loop is not awaited.   *)
DrainedAtOnce == TRUE

JoinedAtOnce == TRUE

Drained == Inflight = {} \/ expired

Joined == loop.pc = "off"

StopDrained(h) ==
  /\ stops[h] = "drain"
  /\ Drained
  /\ stops' = [stops EXCEPT ![h] = "join"]
  /\ UNCHANGED <<state, pods, phase, running, loop, handlers, expired>>

(* ... and after them for the loop, which may be in an iteration.          *)
StopJoined(h) ==
  /\ stops[h] = "join"
  /\ Joined
  /\ stops' = [stops EXCEPT ![h] = "done"]
  /\ UNCHANGED <<state, pods, phase, running, loop, handlers, expired>>

(* stop() has returned: the command's handler exits the process, the       *)
(* provider's lets app.terminate close the database.  Either way no job in *)
(* hand can be recorded any more; its row stays processing.                *)
Leave(h) ==
  /\ phase = "up"
  /\ stops[h] \in {"done", "skipped"}
  /\ phase' = "down"
  /\ Jump("off")
  /\ state' = [j \in Jobs |-> IF j \in Inflight \cup Claimed THEN "abandoned"
                                                            ELSE state[j]]
  /\ UNCHANGED <<pods, running, handlers, stops, expired>>

--------------------------------------------------------------------------------
Loop ==
  \/ LoopCount
  \/ LoopCheck
  \/ \E j \in Jobs : LoopClaim(j)
  \/ LoopEmpty
  \/ LoopLoses
  \/ LoopFork
  \/ LoopWake

Stop(h) == StopCall(h) \/ StopDrained(h) \/ StopJoined(h) \/ Leave(h)

Next ==
  \/ Start
  \/ Loop
  \/ \E j \in Jobs : PodStarts(j) \/ PodEnds(j) \/ RunEnds(j)
  \/ \E h \in Handlers : Stop(h)
  \/ StopDeadline

Spec == Init /\ [][Next]_vars

(* Every await of the loop returns and the database does not throw every   *)
(* time; a run ends by its deadline, a pod by its activeDeadlineSeconds;   *)
(* a stop() that was called goes on, and its deadline passes.  Nobody has  *)
(* to stop the process.                                                    *)
Fairness ==
  /\ WF_vars(Start)
  /\ WF_vars(Loop)
  /\ SF_vars(\E j \in Jobs : LoopClaim(j))
  /\ \A j \in Jobs : WF_vars(PodEnds(j)) /\ WF_vars(RunEnds(j))
  /\ \A h \in Handlers :
       WF_vars(StopDrained(h)) /\ WF_vars(StopJoined(h)) /\ WF_vars(Leave(h))
  /\ WF_vars(StopDeadline)

FairSpec == Spec /\ Fairness

--------------------------------------------------------------------------------
TypeOK ==
  /\ state \in [Jobs -> {"pending", "claimed", "inflight", "done", "abandoned"}]
  /\ pods \in [Jobs -> {"none", "active", "ended"}]
  /\ phase \in {"booting", "up", "down"}
  /\ running \in BOOLEAN
  /\ loop \in [pc : Pcs, max : Limits \cup {Default, 0}, seen : SUBSET Jobs, sure : BOOLEAN]
  /\ \A j \in loop.seen : pods[j] # "none"
  /\ handlers \in SUBSET Handlers
  /\ stops \in [Handlers -> {"none", "drain", "join", "done", "skipped"}]
  /\ expired \in BOOLEAN

(* A claim keeps the pods of the cluster, those of a former process and    *)
(* those that outlived their run included, and the runs in flight below    *)
(* the operators' setting as it was when the iteration began.  Exactly     *)
(* three things excuse one that does not, each in the very iteration that  *)
(* claims: the default stood in for the setting, the cluster did not       *)
(* answer and counts as empty, or a run ended just before the check and    *)
(* left a pod that the answer did not know of.                             *)
ClaimsWithinMaximum ==
  [][\A j \in Jobs :
       LoopClaim(j) /\ loop.sure => Cardinality(Active \cup Inflight) < loop.max]_vars

(* A process with one handler leaves behind, before the deadline, at most  *)
(* the one job whose iteration was under way when it was told to stop.     *)
LeavesAtMostOne ==
  /\ Cardinality(handlers) = 1
  /\ ~expired
  /\ \E h \in handlers : stops[h] = "done"
  => Cardinality(Inflight \cup Claimed) <= 1

(* When a stop() that waited has returned, no job is claimed any more: the *)
(* loop is over, not merely told to end.                                   *)
StopEndsLoop ==
  \A h \in Handlers : stops[h] = "done" => loop.pc = "off" /\ Claimed = {}

(* A shutdown comes to an end, whatever the loop is doing when it begins.  *)
ShutdownEnds == \A h \in Handlers : stops[h] # "none" ~> phase = "down"

(* A job in the queue is claimed while the dispatcher runs: counting the   *)
(* runs in flight twice delays an admission and never blocks it.           *)
PendingIsClaimed == \A j \in Jobs : state[j] = "pending" ~> state[j] # "pending" \/ ~running

(* A pod starts only while fewer are active than some value of the setting *)
(* max_concurrent_jobs allows: it is the maximum of pods at once.          *)
PodsWithinMaximum ==
  [][\A j \in Jobs : PodStarts(j) => \E n \in Limits : Cardinality(Active) < n]_vars

(* A graceful shutdown loses no job in progress before its deadline.       *)
GracefulShutdown ==
  [][phase = "up" /\ phase' = "down" /\ ~expired
     => Inflight \cup Claimed = {}]_vars
================================================================================
