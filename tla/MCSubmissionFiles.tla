---- MODULE MCSubmissionFiles ----
(* One job, followed through its upload, up to two runs, a cancellation,   *)
(* the orphan sweep, the stuck-job sweep and retention of one process and  *)
(* one download.                                                           *)
EXTENDS SubmissionFiles, TLC

CONSTANTS j1, u1, s1, p1, r1

MCJobs == {j1}
MCRequests == {u1}
MCSlots == {s1}
MCProcesses == {p1}
MCReaders == {r1}
====
