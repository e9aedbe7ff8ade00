---------------------------- MODULE MCLiveServer ----------------------------
(* Two runs with a question; one run with its fork and two questions; two  *)
(* runs while another trace is selected.                                   *)
EXTENDS LiveServer

SmallLimits == {[runs |-> 2, questions |-> 1, forks |-> 0, traces |-> 1],
                [runs |-> 1, questions |-> 2, forks |-> 1, traces |-> 1],
                [runs |-> 2, questions |-> 0, forks |-> 0, traces |-> 2]}
=============================================================================
