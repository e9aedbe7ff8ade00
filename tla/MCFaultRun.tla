----------------------------- MODULE MCFaultRun -----------------------------
(* Small campaigns for TLC: which run each attempt collects, and its recipe. *)
EXTENDS FaultRun, TLC

CONSTANTS r1, r2, slow_db, n_plus_one, outage

TwoRuns == 1 :> r1 @@ 2 :> r2

(* A run that is tried twice, then another. *)
Retry == 1 :> r1 @@ 2 :> r1 @@ 3 :> r2

CodeThenPlain == r1 :> n_plus_one @@ r2 :> slow_db

(* The last recipe pauses a container. *)
CodeThenPause == r1 :> n_plus_one @@ r2 :> outage

(* A fault-free run comes last. *)
PlainThenNormal == r1 :> slow_db @@ r2 :> Normal
=============================================================================
