---- MODULE MCGradingRun ----
(* One job, whose run overlaps with a sweep and with the requests of one   *)
(* client: the run of an earlier claim ends late in the calls of the sweep *)
(* that requeued it.  The run that looks for a job nobody finds has the    *)
(* sweeps of both processes, whose calls overlap with each other as well.  *)
(* What two runs of one job do to each other is proved in GradingProofs,   *)
(* for any number of slots.                                                *)
EXTENDS GradingRun, TLC

CONSTANTS j1, s1, w1, w2, u1

MCJobs == {j1}
MCSlots == {s1}
MCSweepers == {w1}
MCRequests == {u1}
MCCallers == MCSlots \cup MCSweepers \cup MCRequests

TwoSweepers == {w1, w2}
TwoSweeperCallers == MCSlots \cup TwoSweepers \cup MCRequests
Symmetry == Permutations(TwoSweepers)
====
