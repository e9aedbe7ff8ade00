------------------------------ MODULE Campaign ------------------------------
(***************************************************************************)
(* The campaign driver (run_campaign.sh) over its matrix, the run it calls *)
(* as far as the run's directory is concerned (run_scenario.sh,            *)
(* collect_trace.sh), and what happens to a run afterwards                 *)
(* (campaign_finish_run.sh, package_run.sh): packaging, the copy to the    *)
(* archive disk, the removal of the original, the line in                  *)
(* campaign_manifest.csv.  The driver may be killed between any two steps  *)
(* and is started again over the same matrix.                              *)
(*                                                                         *)
(* A copy of a bundle maps each of its parts to the attempt that wrote it, *)
(* 0 if the part is not there.  cp -a and rm -rf go part by part, in       *)
(* whatever order the directory lists them.                                *)
(***************************************************************************)
EXTENDS Integers, Sequences

CONSTANTS NRuns,        \* the matrix: runs 1 .. NRuns, in this order
          MaxAttempts,  \* bound: run_scenario.sh is started this often
          MaxCrashes,   \* bound: the driver is killed this often
          Upsets        \* what may go wrong

(* arm: run_scenario.sh exits before it collects; collector: the collector *)
(* dies in its window, or after it and before its harvest is done;         *)
(* unverified: the recipe left no closed window; cp: the copy fails half   *)
(* way; mount: the archive disk is not there; orphan: the collector of a   *)
(* killed driver lives on.                                                 *)
AllUpsets == {"arm", "collector", "unverified", "cp", "mount", "orphan"}

ASSUME SizeAssumption == /\ NRuns \in Nat \ {0} /\ MaxAttempts \in Nat \ {0}
                         /\ MaxCrashes \in Nat
ASSUME UpsetsAssumption == Upsets \subseteq AllUpsets

Matrix == 1 .. NRuns

(* trace: kernel/ and ust/; end: meta/runinfo_end.txt; harvest: logs/ and  *)
(* otlp/; verdict: verification.json; manifest: MANIFEST.json.             *)
Parts == {"trace", "end", "harvest", "verdict", "manifest"}
Copies == [Parts -> 0 .. MaxAttempts]
Nothing == [p \in Parts |-> 0]
Has(copy, p) == copy[p] # 0

VARIABLES pc,        \* where the driver is; "down" after a kill
          run,       \* the matrix entry it is on
          attempt,   \* how often run_scenario.sh was started
          local,     \* $HOME/traces/<recipe>/<run>
          archive,   \* $ARCHIVE_DIR/<recipe>/<run>
          todo,      \* what the cp or rm going on has yet to visit
          rows,      \* the run's lines in campaign_manifest.csv: which
                     \* attempt was over and whose verdict the line quotes
          crashes,   \* kills so far
          collected  \* history: what a run whose window was traced to its end
                     \* had left when it was judged, Nothing before that

vars == <<pc, run, attempt, local, archive, todo, rows, crashes, collected>>

PCs == {"check", "tracing", "ended", "harvested", "judged", "packed", "copying",
        "removing", "discarding", "row", "down", "done"}
Rows == [attempt : 0 .. MaxAttempts, verdict : 0 .. MaxAttempts]

TypeOK ==
    /\ pc \in PCs /\ run \in Matrix
    /\ attempt \in 0 .. MaxAttempts
    /\ local \in [Matrix -> Copies] /\ archive \in [Matrix -> Copies]
    /\ todo \subseteq Parts
    /\ rows \in [Matrix -> Seq(Rows)]
    /\ crashes \in 0 .. MaxCrashes
    /\ collected \in [Matrix -> Copies]

Init ==
    /\ pc = "check" /\ run = 1 /\ attempt = 0 /\ crashes = 0
    /\ local = [r \in Matrix |-> Nothing] /\ archive = [r \in Matrix |-> Nothing]
    /\ todo = {}
    /\ rows = [r \in Matrix |-> <<>>]
    /\ collected = [r \in Matrix |-> Nothing]

GoTo(from, to) == pc = from /\ pc' = to

(* Variant: the loop's end is off by one. *)
NextEntryTooFar == IF run > NRuns THEN pc' = "done" /\ run' = run
                                  ELSE pc' = "check" /\ run' = run + 1

(* The loop's next entry. *)
NextEntry == IF run = NRuns THEN pc' = "done" /\ run' = run
                            ELSE pc' = "check" /\ run' = run + 1

-----------------------------------------------------------------------------
(* Variant: only this disk is searched for a finished run. *)
AlreadyCollectedHere(r) == Has(local[r], "end")

(* Resume: a run with a runinfo_end.txt on either disk is skipped. *)
AlreadyCollected(r) == Has(local[r], "end") \/ Has(archive[r], "end")

Skip ==
    /\ pc = "check" /\ AlreadyCollected(run)
    /\ NextEntry
    /\ UNCHANGED <<attempt, local, archive, todo, rows, crashes, collected>>

(* run_scenario.sh removes what an earlier attempt left on this disk. *)
BeginRun ==
    /\ GoTo("check", "tracing") /\ ~AlreadyCollected(run)
    /\ attempt < MaxAttempts /\ attempt' = attempt + 1
    /\ local' = [local EXCEPT ![run] = Nothing]
    /\ UNCHANGED <<run, archive, todo, rows, crashes, collected>>

(* arm failed: no bundle, and campaign_finish_run.sh has nothing to do. *)
ScenarioFails ==
    /\ GoTo("tracing", "row") /\ "arm" \in Upsets
    /\ UNCHANGED <<run, attempt, local, archive, todo, rows, crashes, collected>>

WriteLocal(parts) ==
    local' = [local EXCEPT ![run] =
                [p \in Parts |-> IF p \in parts THEN attempt ELSE @[p]]]

(* The window is traced; the snapshot "end" precedes the harvest. *)
WindowOver ==
    /\ GoTo("tracing", "ended")
    /\ WriteLocal({"trace", "end"})
    /\ UNCHANGED <<run, attempt, archive, todo, rows, crashes, collected>>

(* In its window nothing is left that counts as a run.  After the snapshot *)
(* "end" what there is of it passes for one; the driver, which ignores the *)
(* collector's status, goes on in both cases.                              *)
CollectorDies ==
    /\ pc \in {"tracing", "ended"} /\ pc' = "harvested" /\ "collector" \in Upsets
    /\ UNCHANGED <<run, attempt, local, archive, todo, rows, crashes, collected>>

Harvest ==
    /\ GoTo("ended", "harvested")
    /\ WriteLocal({"harvest"})
    /\ UNCHANGED <<run, attempt, archive, todo, rows, crashes, collected>>

(* Verification, if there is a closed window; run_scenario.sh ends. *)
Judge ==
    /\ GoTo("harvested", "judged")
    /\ \/ WriteLocal({"verdict"})
       \/ "unverified" \in Upsets /\ UNCHANGED local
    /\ collected' = [collected EXCEPT ![run] =
                       IF Has(local[run], "end") THEN local[run] ELSE @]
    /\ UNCHANGED <<run, attempt, archive, todo, rows, crashes>>

(* campaign_finish_run.sh: package, copy, then remove or discard. *)
Package ==
    /\ GoTo("judged", "packed")
    /\ WriteLocal({"manifest"})
    /\ UNCHANGED <<run, attempt, archive, todo, rows, crashes, collected>>

KeepLocal ==
    /\ GoTo("packed", "row") /\ "mount" \in Upsets
    /\ UNCHANGED <<run, attempt, local, archive, todo, rows, crashes, collected>>

BeginCopy ==
    /\ GoTo("packed", "copying")
    /\ todo' = {p \in Parts : Has(local[run], p)}
    /\ UNCHANGED <<run, attempt, local, archive, rows, crashes, collected>>

CopyPart ==
    /\ pc = "copying"
    /\ \E p \in todo :
         /\ archive' = [archive EXCEPT ![run][p] = local[run][p]]
         /\ todo' = todo \ {p}
    /\ UNCHANGED <<pc, run, attempt, local, rows, crashes, collected>>

(* Variant: the exit status of cp is not looked at. *)
CopyHasEnd == Has(archive[run], "end")

(* cp succeeded and the copy has its runinfo_end.txt *)
CopyVerified == todo = {} /\ Has(archive[run], "end")

RemoveOriginal ==
    /\ GoTo("copying", "removing") /\ CopyVerified
    /\ todo' = Parts
    /\ UNCHANGED <<run, attempt, local, archive, rows, crashes, collected>>

(* Variant: a failed copy is left where it is. *)
DiscardNothing ==
    /\ GoTo("copying", "row")
    /\ (todo = {} /\ ~CopyVerified) \/ "cp" \in Upsets
    /\ UNCHANGED <<run, attempt, local, archive, todo, rows, crashes, collected>>

(* Variant: a failed copy is started again. *)
DiscardRetries ==
    /\ GoTo("copying", "packed")
    /\ (todo = {} /\ ~CopyVerified) \/ "cp" \in Upsets
    /\ UNCHANGED <<run, attempt, local, archive, todo, rows, crashes, collected>>

(* cp failed, or the copy has no runinfo_end.txt: the copy is removed and  *)
(* the original kept.                                                      *)
DiscardCopy ==
    /\ GoTo("copying", "discarding")
    /\ (todo = {} /\ ~CopyVerified) \/ "cp" \in Upsets
    /\ todo' = Parts
    /\ UNCHANGED <<run, attempt, local, archive, rows, crashes, collected>>

RemovePart ==
    /\ pc \in {"removing", "discarding"}
    /\ \E p \in todo :
         /\ todo' = todo \ {p}
         /\ IF pc = "removing"
              THEN /\ local' = [local EXCEPT ![run][p] = 0]
                   /\ UNCHANGED archive
              ELSE /\ archive' = [archive EXCEPT ![run][p] = 0]
                   /\ UNCHANGED local
    /\ UNCHANGED <<pc, run, attempt, rows, crashes, collected>>

Removed ==
    /\ pc \in {"removing", "discarding"} /\ todo = {}
    /\ pc' = "row"
    /\ UNCHANGED <<run, attempt, local, archive, todo, rows, crashes, collected>>

(* Variant: the verdict is read where the run was collected. *)
QuotedVerdictHere == local[run]["verdict"]

(* The verdict is read from wherever the bundle now lives. *)
QuotedVerdict == IF Has(local[run], "verdict") THEN local[run]["verdict"]
                                               ELSE archive[run]["verdict"]

WriteRow ==
    /\ pc = "row"
    /\ rows' = [rows EXCEPT ![run] =
                  Append(@, [attempt |-> attempt, verdict |-> QuotedVerdict])]
    /\ NextEntry
    /\ UNCHANGED <<attempt, local, archive, todo, crashes, collected>>

(* A kill, a reboot or a full stop by the operator, and the next start.    *)
(* If the collector outlives the driver it completes the trace, and its    *)
(* harvest, into the run's directory before the campaign is resumed.       *)
Crash ==
    /\ pc \notin {"down", "done"} /\ crashes < MaxCrashes
    /\ pc' = "down" /\ crashes' = crashes + 1 /\ todo' = {}
    /\ \/ UNCHANGED local
       \/ /\ pc \in {"tracing", "ended"} /\ "orphan" \in Upsets
          /\ WriteLocal({"trace", "end", "harvest"})
    /\ UNCHANGED <<run, attempt, archive, rows, collected>>

Resume ==
    /\ GoTo("down", "check") /\ run' = 1
    /\ UNCHANGED <<attempt, local, archive, todo, rows, crashes, collected>>

Rest == pc = "done" /\ UNCHANGED vars

Step == \/ Skip \/ BeginRun \/ ScenarioFails \/ WindowOver \/ CollectorDies
        \/ Harvest \/ Judge \/ Package \/ KeepLocal \/ BeginCopy \/ CopyPart
        \/ RemoveOriginal \/ DiscardCopy \/ RemovePart \/ Removed \/ WriteRow
        \/ Resume

Next == Step \/ Crash \/ Rest

Spec == Init /\ [][Next]_vars

(* The shell keeps going, and the operator resumes a killed campaign. *)
FairSpec == Spec /\ WF_vars(Step)

-----------------------------------------------------------------------------
(* What a run collects.  The harvest is missing in a run whose collector   *)
(* died between runinfo_end.txt and the end of the harvest.                *)
Evidence == {"trace", "end", "harvest"}

Collected(r) == Has(collected[r], "end")

(* A copy has all that a run left. *)
WholeIn(copy, made) == \A p \in Evidence : Has(made, p) => copy[p] = made[p]

(* What a collected run left stays together on one of the two disks,       *)
(* whenever the driver is killed and however the copy fails                *)
(* (campaign_finish_run.sh 57-58).                                         *)
NothingLost ==
    \A r \in Matrix : Collected(r) =>
        WholeIn(local[r], collected[r]) \/ WholeIn(archive[r], collected[r])

(* The verdict of a collected run reaches its line although the bundle has *)
(* moved in between (run_campaign.sh 75-80).                               *)
VerdictReachesRow ==
    \A r \in Matrix : \A i \in DOMAIN rows[r] :
        \A copy \in {local[r], archive[r]} :
            copy["verdict"] = rows[r][i].attempt => rows[r][i].verdict = rows[r][i].attempt

(* A collected run is never collected again (run_campaign.sh 5-6), nor is  *)
(* one whose harvest is missing.                                           *)
CollectedOnce ==
    [][\A r \in Matrix : Collected(r) => collected'[r] = collected[r]]_vars

(* A campaign that was not killed has a line for every run of the matrix,  *)
(* and what looks like a bundle in its archive, having a runinfo_end.txt,  *)
(* is all that a collected run left, whatever copy failed on the way.  It  *)
(* does not say that the run left a harvest.                               *)
CampaignIsComplete ==
    pc = "done" /\ crashes = 0 =>
        \A r \in Matrix :
            /\ rows[r] # <<>>
            /\ Has(archive[r], "end") => Collected(r) /\ WholeIn(archive[r], collected[r])

(* The campaign gets through its matrix. *)
CampaignEnds == <>(pc = "done")
=============================================================================
