---- MODULE MCJobLifecycle ----
(* Three callers on one job: the read of one call, the whole of another    *)
(* and the save of a third can be interleaved in every order.  Rows of     *)
(* different jobs share nothing but the completion counter, which          *)
(* CountedOnce covers for every set of jobs in JobLifecycleProofs.         *)
EXTENDS JobLifecycle, TLC

CONSTANTS j1, c1, c2, c3

MCJobs == {j1}
MCCallers == {c1, c2, c3}
Symmetry == Permutations(MCCallers)
====
