---- MODULE MCJobQueue ----
(* Two jobs of one image configuration, whose order every pair in a longer *)
(* queue repeats; runtimes with means 0, 3/2 and 3.                        *)
EXTENDS JobQueue, TLC

CONSTANTS j1, j2, i1, c1, a1, r1

MCJobs == {j1, j2}
MCImages == {i1}
MCClients == {c1}
MCAdmins == {a1}
MCReaders == {r1}
Symmetry == Permutations(MCJobs)
====
