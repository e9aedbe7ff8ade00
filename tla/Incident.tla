------------------------------ MODULE Incident ------------------------------
(***************************************************************************)
(* What the collection machine promises about faults, seen from outside:   *)
(* N runs one after the other, each "baseline -> injection -> recovery"    *)
(* (run_scenario.sh 2-3), where the fault is in effect only inside the     *)
(* injection window that the run's ground truth records, and never when no *)
(* run is going on.  In some runs the fault may begin before its window.   *)
(***************************************************************************)
EXTENDS Naturals

CONSTANTS N,        \* the number of runs
          Early     \* the runs whose fault may begin before its window

VARIABLES n,        \* the run that is going on, or the last one
          window,   \* its injection window: "none" before it, "off" between runs
          faulty    \* a fault is in effect on the machine

vars == <<n, window, faulty>>

Init == n = 0 /\ window = "off" /\ faulty = FALSE

(* The next run starts, on a healthy machine and without a window. *)
Begin == /\ window = "off" /\ n < N
         /\ n' = n + 1 /\ window' = "none"
         /\ UNCHANGED faulty

Open == /\ window = "none" /\ window' = "open"
        /\ UNCHANGED <<n, faulty>>

Onset == /\ window = "open" \/ (window = "none" /\ n \in Early)
         /\ faulty' = TRUE
         /\ UNCHANGED <<n, window>>

(* Never after the end of the window. *)
Removal == /\ window \in {"none", "open"} /\ faulty' = FALSE
           /\ UNCHANGED <<n, window>>

Close == /\ window = "open" /\ ~faulty /\ window' = "closed"
         /\ UNCHANGED <<n, faulty>>

(* A run ends at any point, but never with its fault still in effect. *)
End == /\ window # "off" /\ ~faulty /\ window' = "off"
       /\ UNCHANGED <<n, faulty>>

Next == Begin \/ Open \/ Onset \/ Removal \/ Close \/ End

Spec == Init /\ [][Next]_vars
=============================================================================
