-------------------------- MODULE MCOnlineInference --------------------------
(* Small traces for TLC. *)
EXTENDS OnlineInference

CONSTANTS a, b

On(tid, cpu, at) == [tid |-> tid, cpu |-> cpu, at |-> at]

(* One busy thread and one that moves between CPUs, with two events in the *)
(* same nanosecond.                                                        *)
Busy == << On(a, 1, 1), On(b, 2, 1), On(a, 1, 2), On(a, 1, 3), On(b, 2, 4),
           On(a, 1, 5), On(b, 1, 5), On(a, 1, 6), On(b, 1, 7), On(a, 1, 8),
           On(b, 1, 9), On(a, 1, 10), On(a, 1, 11), On(a, 1, 12) >>

(* Past midnight, and past the next one. *)
Midnight == << On(a, 1, 22), On(a, 1, 23), On(b, 1, 23), On(a, 1, 24), On(a, 1, 25),
               On(b, 1, 42), On(a, 1, 47), On(a, 1, 48), On(a, 1, 49) >>

SmallTraces == {Busy, Midnight}

ASSUME SteadyTraces == \A t \in SmallTraces : Steady(t)
=============================================================================
