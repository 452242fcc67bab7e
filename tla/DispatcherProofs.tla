---------------------------- MODULE DispatcherProofs ----------------------------
(***************************************************************************)
(* DispatcherLoop for any finite set of jobs and any limits: when a claim  *)
(* keeps to the maximum of pods, and what a stop() leaves behind.          *)
(*                                                                         *)
(* One thread runs the loop, so at most one job is claimed and not yet in  *)
(* flight, and only while the loop is about to hand it over.  After the    *)
(* cluster has answered, a pod starts only for a run in flight, and after  *)
(* the check the runs in flight and the pods together only become fewer.   *)
(***************************************************************************)
EXTENDS DispatcherLoop, FiniteSetTheorems, TLAPS

(* The loop has a job in its hands only between the claim and the fork.    *)
ClaimedAtFork ==
  /\ loop.pc # "fork" => Claimed = {}
  /\ \A i, j \in Claimed : i = j

(* What an iteration knows that was told the truth: before the check every *)
(* pod is on the list or its run is counted, after it there is room.       *)
RoomChecked ==
  /\ loop.pc = "check" /\ loop.sure => Active \subseteq loop.seen \cup Inflight
  /\ loop.pc = "dequeue" /\ loop.sure => Cardinality(Active \cup Inflight) < loop.max

(* Before the process is up and after it is down the loop is off; a stop() *)
(* was called on a process that is up, and clears running for good.        *)
Phases ==
  /\ phase = "booting" => loop.pc = "off" /\ \A h \in Handlers : stops[h] = "none"
  /\ phase = "down" => loop.pc = "off"
  /\ phase # "booting" /\ (\E h \in Handlers : stops[h] # "none") => ~running

Stopped == \A h \in Handlers : stops[h] = "done" => loop.pc = "off"

(* From the moment that the jobs in flight are gone, one iteration may     *)
(* still claim a job, and none follows it.                                 *)
Drains ==
  \A h \in handlers : stops[h] \in {"join", "done"} /\ ~expired =>
    /\ \A i, j \in Inflight \cup Claimed : i = j
    /\ loop.pc \in {"check", "dequeue", "fork"} => Inflight = {}

Inv == TypeOK /\ ClaimedAtFork /\ RoomChecked /\ Phases /\ Stopped /\ Drains

(* A part of a set of jobs has no more jobs than the set.                  *)
LEMMA FewerInflight ==
  ASSUME NEW S \in SUBSET Jobs, NEW T \in SUBSET S
  PROVE  /\ Cardinality(S) \in Nat /\ Cardinality(T) \in Nat
         /\ Cardinality(T) <= Cardinality(S)
<1>1. IsFiniteSet(S) /\ IsFiniteSet(T)
  BY JobsAssumption, FS_Subset
<1> QED
  BY <1>1, FS_Subset, FS_CardinalityType

(* What the loop compares are numbers.                                     *)
LEMMA LoopNumbers ==
  ASSUME TypeOK
  PROVE  loop.max \in Nat /\ Cardinality(loop.seen) \in Nat /\ Cardinality(Inflight) \in Nat
<1>1. loop.seen \in SUBSET Jobs /\ loop.max \in Limits \cup {Default, 0}
  BY DEF TypeOK
<1>2. Inflight \in SUBSET Jobs
  BY DEF Inflight
<1>3. loop.max \in Nat
  <2>1. Limits \cup {Default, 0} \subseteq Nat
    BY LimitsAssumption
  <2> QED
    BY <1>1, <2>1
<1>4. Cardinality(loop.seen) \in Nat /\ Cardinality(Inflight) \in Nat
  BY <1>1, <1>2, FewerInflight
<1> QED
  BY <1>3, <1>4

(* What an iteration is told, truly or not.                                *)
LEMMA WhatIsTold ==
  ASSUME NEW list, NEW l \in Told(list)
  PROVE  /\ l \in [pc : {"check"}, max : Limits \cup {Default},
                    seen : {list, {}}, sure : BOOLEAN]
         /\ l.sure => list \subseteq l.seen
<1>1. CASE l \in [pc : {"check"}, max : Limits, seen : {list}, sure : {TRUE}]
  BY <1>1
<1>2. CASE l \in [pc : {"check"}, max : Limits, seen : {{}}, sure : {list = {}}]
  BY <1>2
<1>3. CASE l \in [pc : {"check"}, max : {Default}, seen : {list, {}}, sure : {FALSE}]
  BY <1>3
<1> QED
  BY <1>1, <1>2, <1>3 DEF Told

(* A check that was passed leaves room among the pods and the runs it      *)
(* knows of.                                                               *)
LEMMA CheckLeavesRoom ==
  ASSUME TypeOK, ~AtCapacity, Active \subseteq loop.seen \cup Inflight
  PROVE  Cardinality(Active \cup Inflight) < loop.max
<1>1. loop.seen \in SUBSET Jobs /\ Inflight \in SUBSET Jobs
  BY DEF TypeOK, Inflight
<1>2. /\ IsFiniteSet(loop.seen) /\ IsFiniteSet(Inflight)
      /\ IsFiniteSet(loop.seen \cap Inflight)
  BY <1>1, JobsAssumption, FS_Subset
<1>3. /\ Cardinality(loop.seen \cup Inflight)
           = Cardinality(loop.seen) + Cardinality(Inflight) - Cardinality(loop.seen \cap Inflight)
      /\ Cardinality(loop.seen \cap Inflight) \in Nat
  BY <1>2, FS_Union, FS_CardinalityType
<1>4. /\ Cardinality(Active \cup Inflight) \in Nat
      /\ Cardinality(loop.seen \cup Inflight) \in Nat
      /\ Cardinality(Active \cup Inflight) <= Cardinality(loop.seen \cup Inflight)
  <2>1. loop.seen \cup Inflight \in SUBSET Jobs
    BY <1>1
  <2>2. Active \cup Inflight \in SUBSET (loop.seen \cup Inflight)
    OBVIOUS
  <2> QED
    BY <2>1, <2>2, FewerInflight
<1>5. Cardinality(loop.seen) + Cardinality(Inflight) < loop.max
  BY LoopNumbers DEF AtCapacity
<1> QED
  BY <1>3, <1>4, <1>5, LoopNumbers

(* The invariant holds before start.                                       *)
LEMMA InitInv == Init => Inv
<1> SUFFICES ASSUME Init PROVE Inv
  OBVIOUS
<1>1. Inflight = {} /\ Claimed = {}
  BY DEF Init, Inflight, Claimed
<1>2. TypeOK
  <2>3. /\ loop \in [pc : Pcs, max : Limits \cup {Default, 0}, seen : SUBSET Jobs, sure : BOOLEAN]
        /\ loop.seen = {}
    BY DEF Init, At, Pcs
  <2>4. /\ state \in [Jobs -> {"pending", "claimed", "inflight", "done", "abandoned"}]
        /\ pods \in [Jobs -> {"none", "active", "ended"}]
        /\ handlers \in SUBSET Handlers
        /\ stops \in [Handlers -> {"none", "drain", "join", "done", "skipped"}]
    BY DEF Init, Handlers
  <2> QED
    BY <2>3, <2>4 DEF Init, TypeOK
<1>3. Phases /\ Stopped /\ Drains /\ RoomChecked /\ ClaimedAtFork
  BY <1>1 DEF Init, At, Phases, Stopped, Drains, RoomChecked, ClaimedAtFork, Handlers
<1> QED
  BY <1>2, <1>3 DEF Inv

(* Every step keeps the types.                                             *)
LEMMA NextTypeOK == TypeOK /\ [Next]_vars => TypeOK'
<1> SUFFICES ASSUME TypeOK, [Next]_vars PROVE TypeOK'
  OBVIOUS
<1> DEFINE LoopType == [pc : Pcs, max : Limits \cup {Default, 0}, seen : SUBSET Jobs, sure : BOOLEAN]
<1>1. \A l \in Told(Listed) : l \in LoopType /\ \A j \in l.seen : pods[j] # "none"
  <2>1. Listed \in SUBSET Jobs /\ \A j \in Listed : pods[j] # "none"
    BY DEF Listed, Active
  <2> SUFFICES ASSUME NEW l \in Told(Listed)
               PROVE  l \in LoopType /\ \A j \in l.seen : pods[j] # "none"
    OBVIOUS
  <2>2. l \in [pc : {"check"}, max : Limits \cup {Default},
               seen : {Listed, {}}, sure : BOOLEAN]
    BY WhatIsTold
  <2> QED
    BY <2>1, <2>2 DEF Pcs
<1>2. \A pc \in Pcs : At(pc) \in LoopType /\ At(pc).seen = {}
  BY DEF At
<1>3. CASE Start
  BY <1>2, <1>3 DEF Start, Jump, TypeOK, Pcs
<1>4. CASE LoopCount
  <2>1. loop' \in LoopType /\ \A j \in loop'.seen : pods[j] # "none"
    <3>1. CASE running
      BY <1>1, <1>4, <3>1 DEF LoopCount
    <3>2. CASE ~running
      BY <1>2, <1>4, <3>2 DEF LoopCount, Jump, Pcs
    <3> QED
      BY <3>1, <3>2
  <2> QED
    BY <1>4, <2>1 DEF LoopCount, TypeOK
<1>5. CASE LoopCheck
  <2>1. loop' \in LoopType /\ loop'.seen = {}
    <3>1. CASE AtCapacity
      BY <1>2, <1>5, <3>1 DEF LoopCheck, Jump, Pcs
    <3>2. CASE ~AtCapacity
      BY <1>5, <3>2 DEF LoopCheck, Pcs, TypeOK
    <3> QED
      BY <3>1, <3>2
  <2> QED
    BY <1>5, <2>1 DEF LoopCheck, TypeOK
<1>6. ASSUME NEW j \in Jobs, LoopClaim(j) PROVE TypeOK'
  BY <1>2, <1>6 DEF LoopClaim, Jump, TypeOK, Pcs
<1>7. CASE LoopEmpty \/ LoopWake
  BY <1>2, <1>7 DEF LoopEmpty, LoopWake, Jump, TypeOK, Pcs
<1>8. CASE LoopLoses \/ LoopFork
  BY <1>2, <1>8 DEF LoopLoses, LoopFork, Jump, TypeOK, Pcs
<1>9. ASSUME NEW j \in Jobs, PodStarts(j) \/ PodEnds(j) \/ RunEnds(j) PROVE TypeOK'
  <2>1. CASE PodStarts(j) \/ PodEnds(j)
    BY <2>1 DEF PodStarts, PodEnds, TypeOK
  <2>2. CASE RunEnds(j)
    <3>1. loop' \in LoopType /\ loop'.seen = loop.seen
      BY <2>2 DEF RunEnds, Missed, TypeOK
    <3> QED
      BY <2>2, <3>1 DEF RunEnds, TypeOK
  <2> QED
    BY <1>9, <2>1, <2>2
<1>10. ASSUME NEW h \in Handlers, StopCall(h) \/ StopDrained(h) \/ StopJoined(h) PROVE TypeOK'
  BY <1>10 DEF StopCall, StopDrained, StopJoined, TypeOK
<1>11. ASSUME NEW h \in Handlers, Leave(h) PROVE TypeOK'
  BY <1>2, <1>11 DEF Leave, Jump, TypeOK, Pcs
<1>12. CASE StopDeadline
  BY <1>12 DEF StopDeadline, TypeOK
<1>13. CASE UNCHANGED vars
  BY <1>13 DEF vars, TypeOK
<1> QED
  BY <1>3, <1>4, <1>5, <1>6, <1>7, <1>8, <1>9, <1>10, <1>11, <1>12, <1>13
     DEF Next, Loop, Stop

--------------------------------------------------------------------------------
(* A step of the loop, with what it does to the jobs in hand.              *)
LEMMA LoopPreserves ==
  ASSUME Inv, TypeOK', Loop
  PROVE  Inv'
<1>1. /\ UNCHANGED <<pods, Active, phase, running, handlers, stops, expired>>
      /\ loop.pc # "off" /\ phase = "up"
  BY DEF Loop, LoopCount, LoopCheck, LoopClaim, LoopEmpty, LoopLoses, LoopFork, LoopWake,
         Inv, TypeOK, Phases, Active
<1>2. Phases' /\ Stopped'
  BY <1>1 DEF Inv, Phases, Stopped
<1>3. \A h \in Handlers : stops[h] # "done"
  BY <1>1 DEF Inv, Stopped
<1>4. ASSUME UNCHANGED state, loop.pc # "fork", loop'.pc \notin {"fork", "dequeue"},
             loop'.pc = "check" => running /\ (loop'.sure => Active \subseteq loop'.seen)
      PROVE  Inv'
  <2>1. UNCHANGED <<Inflight, Claimed>>
    BY <1>4 DEF Inflight, Claimed
  <2>2. loop'.pc = "check" => \A h \in Handlers : stops[h] = "none"
    BY <1>1, <1>4 DEF Inv, Phases
  <2>3. ClaimedAtFork' /\ RoomChecked'
    BY <1>1, <1>4, <2>1 DEF Inv, ClaimedAtFork, RoomChecked
  <2>4. Drains'
    BY <1>1, <1>4, <2>1, <2>2 DEF Inv, Drains, TypeOK
  <2> QED
    BY <1>2, <2>3, <2>4 DEF Inv
<1>5. CASE LoopCount
  <2>1. UNCHANGED state /\ loop.pc = "top"
    BY <1>5 DEF LoopCount
  <2>2. CASE running
    <3>1. loop' \in Told(Active)
      BY <1>5, <2>2 DEF LoopCount, Listed
    <3>2. loop'.pc = "check" /\ (loop'.sure => Active \subseteq loop'.seen)
      BY <3>1, WhatIsTold
    <3> QED
      BY <1>4, <2>1, <2>2, <3>2
  <2>3. CASE ~running
    BY <1>4, <1>5, <2>1, <2>3 DEF LoopCount, Jump, At
  <2> QED
    BY <2>2, <2>3
<1>6. CASE LoopCheck
  <2>1. UNCHANGED <<state, Inflight, Claimed>> /\ loop.pc = "check"
    BY <1>6 DEF LoopCheck, Inflight, Claimed
  <2>2. CASE AtCapacity
    BY <1>4, <1>6, <2>1, <2>2 DEF LoopCheck, Jump, At
  <2>3. CASE ~AtCapacity
    <3>1. loop' = [loop EXCEPT !.pc = "dequeue", !.seen = {}]
      BY <1>6, <2>3 DEF LoopCheck
    <3>2. loop'.pc = "dequeue" /\ loop'.max = loop.max /\ loop'.sure = loop.sure
      BY <3>1 DEF Inv, TypeOK
    <3>3. loop.sure => Cardinality(Active \cup Inflight) < loop.max
      BY <2>1, <2>3, CheckLeavesRoom DEF Inv, RoomChecked
    <3>4. RoomChecked'
      BY <1>1, <2>1, <3>2, <3>3 DEF RoomChecked
    <3>5. ClaimedAtFork'
      BY <2>1, <3>2 DEF Inv, ClaimedAtFork
    <3>6. Drains'
      BY <1>1, <2>1, <3>2 DEF Inv, Drains
    <3> QED
      BY <1>2, <3>4, <3>5, <3>6 DEF Inv
  <2> QED
    BY <2>2, <2>3
<1>7. ASSUME NEW j \in Jobs, LoopClaim(j) PROVE Inv'
  <2>1. /\ loop.pc = "dequeue" /\ loop'.pc = "fork"
        /\ Claimed = {} /\ Claimed' = {j} /\ Inflight' = Inflight
    BY <1>7 DEF LoopClaim, Jump, At, Inv, TypeOK, ClaimedAtFork, Claimed, Inflight
  <2>2. ClaimedAtFork' /\ RoomChecked'
    BY <2>1 DEF ClaimedAtFork, RoomChecked
  <2>3. Drains'
    BY <1>1, <2>1 DEF Inv, Drains
  <2> QED
    BY <1>2, <2>2, <2>3 DEF Inv
<1>8. CASE LoopEmpty \/ LoopWake
  BY <1>4, <1>8 DEF LoopEmpty, LoopWake, Jump, At
<1>9. CASE LoopLoses
  <2>1. loop'.pc = "sleep" /\ Claimed' = {} /\ Inflight' = Inflight
    BY <1>9 DEF LoopLoses, Jump, At, Claimed, Inflight, Inv, TypeOK
  <2>2. ClaimedAtFork' /\ RoomChecked' /\ Drains'
    BY <1>1, <2>1 DEF Inv, ClaimedAtFork, RoomChecked, Drains
  <2> QED
    BY <1>2, <2>2 DEF Inv
<1>10. CASE LoopFork
  <2>1. loop'.pc = "top" /\ Claimed' = {} /\ Inflight' = Inflight \cup Claimed
    BY <1>10 DEF LoopFork, Jump, At, Claimed, Inflight, Inv, TypeOK
  <2>2. ClaimedAtFork' /\ RoomChecked' /\ Drains'
    BY <1>1, <2>1 DEF Inv, ClaimedAtFork, RoomChecked, Drains
  <2> QED
    BY <1>2, <2>2 DEF Inv
<1> QED
  BY <1>5, <1>6, <1>7, <1>8, <1>9, <1>10 DEF Loop

(* Pods and runs: the jobs in flight become fewer, and so do they and the  *)
(* pods together.                                                          *)
LEMMA RunsPreserve ==
  ASSUME Inv, TypeOK', NEW j \in Jobs, PodStarts(j) \/ PodEnds(j) \/ RunEnds(j)
  PROVE  Inv'
<1>1. /\ UNCHANGED <<phase, running, handlers, stops, expired>>
      /\ Claimed' = Claimed /\ Inflight' \subseteq Inflight
  BY DEF PodStarts, PodEnds, RunEnds, Inflight, Claimed, Inv, TypeOK
<1>2. /\ loop'.pc = loop.pc /\ loop'.max = loop.max /\ loop'.seen = loop.seen
      /\ loop'.sure => loop.sure
  BY DEF PodStarts, PodEnds, RunEnds, Inv, TypeOK
<1>3. Active' \cup Inflight' \subseteq Active \cup Inflight
  BY <1>1 DEF PodStarts, PodEnds, RunEnds, Active, Inflight, Inv, TypeOK
<1>4. /\ Cardinality(Active \cup Inflight) \in Nat
      /\ Cardinality(Active' \cup Inflight') \in Nat
      /\ Cardinality(Active' \cup Inflight') <= Cardinality(Active \cup Inflight)
  <2>1. Active \cup Inflight \in SUBSET Jobs
    BY DEF Active, Inflight
  <2> QED
    BY <1>3, <2>1, FewerInflight
<1>5. ASSUME loop'.pc = "check", loop'.sure
      PROVE  Active' \subseteq loop'.seen \cup Inflight'
  <2>1. Active \subseteq loop.seen \cup Inflight
    BY <1>2, <1>5 DEF Inv, RoomChecked
  <2>2. CASE PodStarts(j) \/ PodEnds(j)
    BY <1>2, <2>1, <2>2 DEF PodStarts, PodEnds, Active, Inflight, Inv, TypeOK
  <2>3. CASE RunEnds(j)
    <3>1. pods[j] = "active" => j \in loop.seen
      BY <1>2, <1>5, <2>3 DEF RunEnds, Missed, Inv, TypeOK
    <3> QED
      BY <1>2, <2>1, <2>3, <3>1 DEF RunEnds, Active, Inflight, Inv, TypeOK
  <2> QED
    BY <2>2, <2>3
<1>6. RoomChecked'
  <2>1. loop.max \in Nat
    BY LoopNumbers DEF Inv
  <2>2. loop'.pc = "dequeue" /\ loop'.sure => Cardinality(Active' \cup Inflight') < loop'.max
    BY <1>2, <1>4, <2>1 DEF Inv, RoomChecked
  <2> QED
    BY <1>5, <2>2 DEF RoomChecked
<1> QED
  BY <1>1, <1>2, <1>6 DEF Inv, ClaimedAtFork, Phases, Stopped, Drains

(* The steps of stop() keep the invariant.                                 *)
LEMMA StopPreserves ==
  ASSUME Inv, TypeOK', NEW h \in Handlers, Stop(h)
  PROVE  Inv'
<1>1. CASE StopCall(h)
  <2>1. /\ UNCHANGED <<state, pods, phase, loop, handlers, expired>> /\ phase = "up" /\ ~running'
        /\ stops'[h] \in {"drain", "skipped"}
        /\ \A g \in Handlers \ {h} : stops'[g] = stops[g]
    BY <1>1 DEF StopCall, Inv, TypeOK
  <2>2. UNCHANGED <<Active, Inflight, Claimed>>
    BY <2>1 DEF Active, Inflight, Claimed
  <2> QED
    BY <2>1, <2>2 DEF Inv, TypeOK, ClaimedAtFork, RoomChecked, Phases, Stopped, Drains
<1>2. CASE StopDrained(h)
  <2>1. /\ UNCHANGED <<state, pods, phase, running, loop, handlers, expired>>
        /\ stops[h] = "drain" /\ stops'[h] = "join" /\ (Inflight = {} \/ expired)
        /\ \A g \in Handlers \ {h} : stops'[g] = stops[g]
    BY <1>2 DEF StopDrained, Drained, Inv, TypeOK
  <2>2. UNCHANGED <<Active, Inflight, Claimed>>
    BY <2>1 DEF Active, Inflight, Claimed
  <2>3. Drains'
    BY <2>1, <2>2 DEF Inv, TypeOK, Drains, ClaimedAtFork
  <2> QED
    BY <2>1, <2>2, <2>3 DEF Inv, ClaimedAtFork, RoomChecked, Phases, Stopped
<1>3. CASE StopJoined(h)
  <2>1. /\ UNCHANGED <<state, pods, phase, running, loop, handlers, expired>>
        /\ stops[h] = "join" /\ stops'[h] = "done" /\ loop.pc = "off"
        /\ \A g \in Handlers \ {h} : stops'[g] = stops[g]
    BY <1>3 DEF StopJoined, Joined, Inv, TypeOK
  <2>2. UNCHANGED <<Active, Inflight, Claimed>>
    BY <2>1 DEF Active, Inflight, Claimed
  <2> QED
    BY <2>1, <2>2 DEF Inv, TypeOK, ClaimedAtFork, RoomChecked, Phases, Stopped, Drains
<1>4. CASE Leave(h)
  <2>1. /\ UNCHANGED <<running, handlers, stops, expired>> /\ phase = "up" /\ phase' = "down"
        /\ loop'.pc = "off" /\ Inflight' = {} /\ Claimed' = {}
    BY <1>4 DEF Leave, Jump, At, Inflight, Claimed, Inv, TypeOK
  <2> QED
    BY <2>1 DEF Inv, ClaimedAtFork, RoomChecked, Phases, Stopped, Drains
<1> QED
  BY <1>1, <1>2, <1>3, <1>4 DEF Stop

(* Every step keeps the invariant.                                         *)
LEMMA NextInv == Inv /\ [Next]_vars => Inv'
<1> SUFFICES ASSUME Inv, [Next]_vars PROVE Inv'
  OBVIOUS
<1>1. TypeOK'
  BY NextTypeOK DEF Inv
<1>2. CASE Start
  <2>1. /\ UNCHANGED <<state, handlers, stops, expired>> /\ phase = "booting" /\ phase' = "up"
        /\ loop'.pc = "top" /\ \A h \in Handlers : stops[h] = "none"
    BY <1>2 DEF Start, Jump, At, Inv, Phases
  <2>2. UNCHANGED <<Inflight, Claimed>> /\ Claimed = {}
    BY <1>2, <2>1 DEF Inflight, Claimed, Inv, ClaimedAtFork, Phases
  <2> QED
    BY <1>1, <2>1, <2>2 DEF Inv, TypeOK, ClaimedAtFork, RoomChecked, Phases, Stopped, Drains
<1>3. CASE StopDeadline \/ UNCHANGED vars
  <2>1. /\ UNCHANGED <<state, pods, phase, running, loop, handlers, stops>>
        /\ expired' \/ UNCHANGED expired
    BY <1>3 DEF StopDeadline, vars
  <2>2. UNCHANGED <<Active, Inflight, Claimed>>
    BY <2>1 DEF Active, Inflight, Claimed
  <2> QED
    BY <1>1, <2>1, <2>2 DEF Inv, ClaimedAtFork, RoomChecked, Phases, Stopped, Drains
<1> QED
  BY <1>1, <1>2, <1>3, LoopPreserves, RunsPreserve, StopPreserves DEF Next

(* What the loop and stop() have read still fits the process.              *)
THEOREM DispatcherInvariance == Spec => []Inv
BY InitInv, NextInv, PTL DEF Spec

--------------------------------------------------------------------------------
(* States, pods, loop and stop() calls stay well typed.                    *)
THEOREM DispatcherTypeCorrect == Spec => []TypeOK
BY DispatcherInvariance, PTL DEF Inv

(* A claim finds room below the setting its iteration read, counting every *)
(* pod and every run in flight, unless the default stood in for the        *)
(* setting, the cluster did not answer, or a run that ended since left a   *)
(* pod that is not on the list.                                            *)
THEOREM WithinMaximum == Spec => ClaimsWithinMaximum
<1>1. Inv => [\A j \in Jobs :
                LoopClaim(j) /\ loop.sure
                => Cardinality(Active \cup Inflight) < loop.max]_vars
  BY DEF LoopClaim, Inv, RoomChecked
<1> QED
  BY <1>1, DispatcherInvariance, PTL DEF ClaimsWithinMaximum

(* When a stop() that waited has returned, the loop is over and no job is  *)
(* between its claim and its run.                                          *)
THEOREM StopIsFinal == Spec => []StopEndsLoop
<1>1. Inv => StopEndsLoop
  BY DEF Inv, Stopped, ClaimedAtFork, StopEndsLoop
<1> QED
  BY <1>1, DispatcherInvariance, PTL

(* With one handler a shutdown loses one job at most before its deadline.  *)
THEOREM LosesAtMostOne == Spec => []LeavesAtMostOne
<1>1. Inv => LeavesAtMostOne
  <2> SUFFICES ASSUME Inv, Cardinality(handlers) = 1, ~expired,
                      NEW h \in handlers, stops[h] = "done"
               PROVE  Cardinality(Inflight \cup Claimed) <= 1
    BY DEF LeavesAtMostOne
  <2>1. \A i, j \in Inflight \cup Claimed : i = j
    BY DEF Inv, Drains
  <2>2. CASE Inflight \cup Claimed = {}
    <3>1. Cardinality(Inflight \cup Claimed) = 0
      BY <2>2, FS_EmptySet
    <3> QED
      BY <3>1
  <2>3. CASE Inflight \cup Claimed # {}
    <3>1. PICK j : j \in Inflight \cup Claimed
      BY <2>3
    <3>2. Inflight \cup Claimed = {j}
      BY <2>1, <3>1
    <3>3. Cardinality(Inflight \cup Claimed) = 1
      BY <3>2, FS_Singleton
    <3> QED
      BY <3>3
  <2> QED
    BY <2>2, <2>3
<1> QED
  BY <1>1, DispatcherInvariance, PTL
================================================================================
