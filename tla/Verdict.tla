------------------------------- MODULE Verdict -------------------------------
(***************************************************************************)
(* What a run's directory holds, as far as the two programs that judge it  *)
(* can tell: package_run.sh (MANIFEST.json, "usable") and                  *)
(* check_run_quality.py (run_quality.json, "verdict").                     *)
(***************************************************************************)

(* verification_status; "n/a" when there is no verification.json *)
Statuses == {"confirmed", "borderline", "unconfirmed",
             "no_metric_signature", "no_targets"}

(* ground_truth.json and its injection_end_utc: null while "open" *)
Windows == {"none", "open", "closed"}

(* Variant: the end is stamped as a state of its own. *)
Ended(window) == IF window = "open" THEN "ended" ELSE window

(* gt_end: fills in the end of an open window and leaves any other alone. *)
Closed(window) == IF window = "open" THEN "closed" ELSE window

Bundles == [dir          : BOOLEAN,                    \* the directory exists
            start        : BOOLEAN,                    \* meta/runinfo_start.txt
            end          : BOOLEAN,                    \* meta/runinfo_end.txt
            loss         : {"none", "clean", "lossy"}, \* meta/event_loss.json
            harvested    : BOOLEAN,                    \* logs/, otlp/, trace_runs.csv
            gt           : Windows,                    \* ground_truth.json
            verification : Statuses \cup {"n/a"},      \* verification.json
            gate         : {"none", "usable", "not usable"}] \* run_quality.json

NoBundle == [dir |-> FALSE, start |-> FALSE, end |-> FALSE, loss |-> "none",
             harvested |-> FALSE, gt |-> "none", verification |-> "n/a",
             gate |-> "none"]

(* Variant: the list of usable statuses is out of step with the gate's. *)
PackUsableLoosely(b) == b.loss # "lossy" /\ b.verification # "no_targets"

(* package_run.sh: MANIFEST.json says usable *)
PackUsable(b) ==
    /\ b.loss # "lossy"
    /\ b.verification \in {"confirmed", "n/a", "borderline", "no_metric_signature"}

(* check_run_quality.py, not strict: no check came out False.  The baseline *)
(* check has no input yet when the driver calls it and never fails; the     *)
(* windows lie inside the trace by the lengths of the driver's sleeps.      *)
GateUsable(b, readable) ==
    /\ readable
    /\ b.gt # "none" =>
         /\ b.gt = "closed"
         /\ b.verification \in {"confirmed", "borderline", "no_metric_signature"}

GateVerdict(b, readable) ==
    IF GateUsable(b, readable) THEN "usable" ELSE "not usable"
=============================================================================
