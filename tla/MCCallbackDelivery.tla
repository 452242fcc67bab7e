---- MODULE MCCallbackDelivery ----
(* The immediate delivery of a job against the retry loops of both         *)
(* processes, the API's and the dispatcher's.  One job is enough: deliveries *)
(* of different jobs share no row, and a list goes stale as well with one. *)
EXTENDS CallbackDelivery, TLC

CONSTANTS j1, d1, r1, r2

OneJob == {j1}
MCImmediates == {d1}
MCRetriers == {r1, r2}
Symmetry == Permutations(MCRetriers)
====
