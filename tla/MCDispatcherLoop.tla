---- MODULE MCDispatcherLoop ----
(* Three jobs, a setting of one or two, which may change every turn, and a *)
(* default of two: a claim can meet a full process, one short of full, one *)
(* that holds more than a lowered setting or than a setting the default    *)
(* stood in for, and the pods of a former process.                         *)
EXTENDS DispatcherLoop, TLC

CONSTANTS j1, j2, j3

MCJobs == {j1, j2, j3}
====
