------------------------------ MODULE FaultRun ------------------------------
(***************************************************************************)
(* One collection machine: the run driver (run_scenario.sh), the trace     *)
(* collector it forks (collect_trace.sh), the fault recipe it calls        *)
(* (faults/*.sh with fault_lib.sh and code_defect_lib.sh) and the LTTng    *)
(* session they share.  The driver is started NAttempts times, one after   *)
(* the other; attempt a collects the run RunOf[a].  Two attempts may name  *)
(* the same run: that is a retry, and it re-uses the run's directory.      *)
(*                                                                         *)
(* A collector is a process of its own: it outlives a driver that is       *)
(* interrupted, and then runs beside the next attempt's.                   *)
(*                                                                         *)
(* Upsets names the misfortunes a configuration lets happen.               *)
(***************************************************************************)
EXTENDS Integers, Verdict

CONSTANTS
    NAttempts,     \* how often run_scenario.sh is started
    Runs,          \* run ids
    RunOf,         \* the run an attempt collects
    CodeRecipes,   \* recipes built on code_defect_lib.sh
    PlainRecipes,  \* every other recipe under faults/
    PauseRecipes,  \* those of them that pause a container, and stamp second
    Normal,        \* the recipe name "normal": no fault
    Recipe,        \* the recipe of a run
    Upsets         \* what may go wrong

Attempts == 1 .. NAttempts
Faults == CodeRecipes \cup PlainRecipes

(* interrupt: SIGINT or SIGTERM reaches the driver; again: a second one,   *)
(* while the EXIT trap runs; gap: one between the fork of the load         *)
(* generator and LOAD_PID=$!; kill: SIGKILL or a reboot of the shell;      *)
(* arm, inject, cleanup, disarm: that verb of the recipe fails;            *)
(* collector: the collector is killed; hasty: the next attempt is started  *)
(* while the collector of an interrupted one still runs; wedge: the        *)
(* consumer daemon of a leaked session hangs; wedge_live: the one of a     *)
(* session in use hangs; lossy: the ring buffer drops events; prometheus:  *)
(* the metrics server does not answer the verification.                    *)
AllUpsets == {"interrupt", "again", "gap", "kill", "arm", "inject", "cleanup",
              "disarm", "collector", "hasty", "wedge", "wedge_live", "lossy",
              "prometheus"}

ASSUME AttemptsAssumption == NAttempts \in Nat \ {0}
ASSUME RecipesAssumption == /\ CodeRecipes \cap PlainRecipes = {}
                            /\ PauseRecipes \subseteq PlainRecipes
                            /\ Normal \notin Faults
ASSUME PlanAssumption == /\ RunOf \in [Attempts -> Runs]
                         /\ Recipe \in [Runs -> Faults \cup {Normal}]
ASSUME UpsetsAssumption == Upsets \subseteq AllUpsets

VARIABLES
    cur,       \* the attempt the driver is on, 0 before the first
    pc,        \* where run_scenario.sh is; "idle" when no driver runs
    exiting,   \* the driver is inside _run_cleanup
    armed,     \* ARMED
    injected,  \* INJECTED
    loadPid,   \* LOAD_PID is set
    load,      \* attempts whose load generator runs
    image,     \* the image the service of a code recipe runs on
    active,    \* recipes whose fault is in effect on the machine
    gt,        \* the run's ground truth record and its injection window
    coll,      \* where the collector of an attempt is
    session,   \* the attempt that created the current LTTng session, or 0
    wedged,    \* the consumer daemon hangs: lttng destroy does not return
    rec,       \* what the attempt's trace holds of its window
    spans,     \* what the span file, then its slice, holds of that window
    bundle     \* the run's directory under ~/traces

driverVars == <<cur, pc, exiting, armed, injected, loadPid>>
systemVars == <<load, image, active, gt>>
traceVars  == <<coll, session, wedged, rec, spans, bundle>>
vars == <<driverVars, systemVars, traceVars>>

PCs == {"idle", "arm", "fork", "trap", "load", "loadpid", "baseline",
        "inject", "flip", "stamp", "hold", "unflip", "close", "cleaned", "await",
        "disarm", "unload", "copy", "verify", "judge", "undo"}
CollPhases == {"none", "preflight", "create", "tracing", "stop", "teardown",
               "harvest", "done", "dead"}

TypeOK ==
    /\ cur \in 0 .. NAttempts
    /\ pc \in PCs
    /\ pc # "idle" => cur # 0
    /\ exiting \in BOOLEAN /\ armed \in BOOLEAN
    /\ injected \in BOOLEAN /\ loadPid \in BOOLEAN
    /\ load \subseteq Attempts
    /\ image \in [CodeRecipes -> {"stock", "defect"}]
    /\ active \subseteq Faults
    /\ gt \in [Runs -> Windows]
    /\ coll \in [Attempts -> CollPhases]
    /\ session \in 0 .. NAttempts
    /\ wedged \in BOOLEAN
    /\ rec \in [Attempts -> {"none", "on", "cut", "full"}]
    /\ spans \in [Attempts -> {"none", "on", "cut", "full"}]
    /\ bundle \in [Runs -> Bundles]

Live(a) == coll[a] \notin {"none", "done", "dead"}

(* Its driver ended before it had judged the bundle. *)
Abandoned(a) == Live(a) /\ bundle[RunOf[a]].gate = "none"

run == RunOf[cur]              \* $RUN
recipe == Recipe[run]          \* $RECIPE

Init ==
    /\ cur = 0 /\ pc = "idle"
    /\ exiting = FALSE /\ armed = FALSE /\ injected = FALSE /\ loadPid = FALSE
    /\ load = {} /\ active = {}
    /\ image = [c \in CodeRecipes |-> "stock"]
    /\ gt = [r \in Runs |-> "none"]
    /\ coll = [a \in Attempts |-> "none"]
    /\ session = 0 /\ wedged = FALSE
    /\ rec = [a \in Attempts |-> "none"]
    /\ spans = [a \in Attempts |-> "none"]
    /\ bundle = [r \in Runs |-> NoBundle]

-----------------------------------------------------------------------------
(* The driver, run_scenario.sh *)

GoTo(from, to) == pc = from /\ pc' = to

(* A shell that ends takes its variables with it. *)
Exit == /\ pc' = "idle"
        /\ exiting' = FALSE /\ armed' = FALSE
        /\ injected' = FALSE /\ loadPid' = FALSE

(* Variant: the bundle of an earlier attempt is left in place. *)
StartKeepsBundle ==
    /\ pc = "idle" /\ cur < NAttempts
    /\ \A a \in Attempts : Abandoned(a) => "hasty" \in Upsets
    /\ cur' = cur + 1
    /\ gt' = [gt EXCEPT ![RunOf[cur + 1]] = "none"]
    /\ pc' = IF Recipe[RunOf[cur + 1]] \in CodeRecipes THEN "arm" ELSE "fork"
    /\ UNCHANGED <<exiting, armed, injected, loadPid, load, image, active, traceVars>>

(* The run's state directory and bundle are removed, then a code recipe is *)
(* armed; every other goes straight to the collector.                      *)
Start ==
    /\ pc = "idle" /\ cur < NAttempts
    /\ \A a \in Attempts : Abandoned(a) => "hasty" \in Upsets
    /\ cur' = cur + 1
    /\ gt' = [gt EXCEPT ![RunOf[cur + 1]] = "none"]
    /\ bundle' = [bundle EXCEPT ![RunOf[cur + 1]] = NoBundle]
    /\ pc' = IF Recipe[RunOf[cur + 1]] \in CodeRecipes THEN "arm" ELSE "fork"
    /\ UNCHANGED <<exiting, armed, injected, loadPid, load, image, active,
                   coll, session, wedged, rec, spans>>

(* Variant: the service is recreated on the image it has. *)
ArmKeepsImage ==
    /\ GoTo("arm", "fork")
    /\ active' = active \ {recipe}
    /\ armed' = TRUE
    /\ UNCHANGED <<cur, exiting, injected, loadPid, load, image, gt, traceVars>>

(* arm: recreate the service on the defect image, flag file 'none'.  The   *)
(* flag lives in the container, so a recreate clears the fault.            *)
ArmOk ==
    /\ GoTo("arm", "fork")
    /\ image' = [image EXCEPT ![recipe] = "defect"]
    /\ active' = active \ {recipe}
    /\ armed' = TRUE
    /\ UNCHANGED <<cur, exiting, injected, loadPid, load, gt, traceVars>>

(* FATAL: the recreate may or may not have happened; nothing is undone. *)
ArmFails ==
    /\ pc = "arm" /\ "arm" \in Upsets
    /\ \/ UNCHANGED <<image, active>>
       \/ /\ image' = [image EXCEPT ![recipe] = "defect"]
          /\ active' = active \ {recipe}
    /\ Exit
    /\ UNCHANGED <<cur, load, gt, traceVars>>

ForkCollector ==
    /\ GoTo("fork", "trap")
    /\ coll' = [coll EXCEPT ![cur] = "preflight"]
    /\ UNCHANGED <<cur, exiting, armed, injected, loadPid, systemVars,
                   session, wedged, rec, spans, bundle>>

InstallTrap ==
    /\ GoTo("trap", "load")
    /\ injected' = FALSE
    /\ UNCHANGED <<cur, exiting, armed, loadPid, systemVars, traceVars>>

StartLoad ==
    /\ GoTo("load", "loadpid")
    /\ load' = load \cup {cur}
    /\ UNCHANGED <<cur, exiting, armed, injected, loadPid, image, active, gt,
                   traceVars>>

NoteLoadPid ==
    /\ GoTo("loadpid", IF recipe = Normal THEN "await" ELSE "baseline")
    /\ loadPid' = TRUE
    /\ UNCHANGED <<cur, exiting, armed, injected, systemVars, traceVars>>

(* sleep BASELINE_S.  Its 60 s outlast a collector's bounded set-up.       *)
BaselineOver ==
    /\ GoTo("baseline", "inject")
    /\ \A a \in Attempts : coll[a] \notin {"preflight", "create"}
    /\ injected' = TRUE
    /\ UNCHANGED <<cur, exiting, armed, loadPid, systemVars, traceVars>>

CanInject == recipe \in CodeRecipes => image[recipe] = "defect"

(* Variant: the window is not stamped before the fault is applied. *)
StampLater ==
    /\ GoTo("inject", "flip")
    /\ CanInject /\ recipe \notin PauseRecipes
    /\ UNCHANGED <<cur, exiting, armed, injected, loadPid, systemVars, traceVars>>

(* inject, first half: gt_begin stamps the start of the window. *)
Stamp ==
    /\ GoTo("inject", "flip")
    /\ CanInject /\ recipe \notin PauseRecipes
    /\ gt' = [gt EXCEPT ![run] = "open"]
    /\ UNCHANGED <<cur, exiting, armed, injected, loadPid, load, image, active,
                   traceVars>>

(* inject refuses before it does anything: the service is not armed, its   *)
(* image or container is missing, docker pause fails.  The driver only     *)
(* warns.                                                                  *)
InjectRefused ==
    /\ GoTo("inject", "hold")
    /\ ~CanInject \/ "inject" \in Upsets
    /\ UNCHANGED <<cur, exiting, armed, injected, loadPid, systemVars, traceVars>>

(* inject, second half: the fault takes effect. *)
Flip ==
    /\ GoTo("flip", "hold")
    /\ active' = active \cup {recipe}
    /\ UNCHANGED <<cur, exiting, armed, injected, loadPid, load, image, gt,
                   traceVars>>

(* The fault cannot be applied.  A code recipe closes the window again, as *)
(* does fd_exhaustion.sh; set -e ends any other with the window open.      *)
FlipFails ==
    /\ GoTo("flip", "hold") /\ "inject" \in Upsets
    /\ \/ gt' = [gt EXCEPT ![run] = Closed(@)]
       \/ recipe \in PlainRecipes /\ UNCHANGED gt
    /\ UNCHANGED <<cur, exiting, armed, injected, loadPid, load, image, active,
                   traceVars>>

(* dependency_outage.sh and queue_backlog.sh do it the other way round:    *)
(* the container is paused ...                                             *)
Pause ==
    /\ GoTo("inject", "stamp")
    /\ recipe \in PauseRecipes
    /\ active' = active \cup {recipe}
    /\ UNCHANGED <<cur, exiting, armed, injected, loadPid, load, image, gt,
                   traceVars>>

(* ... and then the start of the window is stamped. *)
StampPaused ==
    /\ GoTo("stamp", "hold")
    /\ gt' = [gt EXCEPT ![run] = "open"]
    /\ UNCHANGED <<cur, exiting, armed, injected, loadPid, load, image, active,
                   traceVars>>

(* gt_begin fails: the fault is in effect and has no window. *)
StampFails ==
    /\ GoTo("stamp", "hold") /\ "inject" \in Upsets
    /\ UNCHANGED <<cur, exiting, armed, injected, loadPid, systemVars, traceVars>>

InjectionOver ==
    /\ GoTo("hold", "unflip")
    /\ UNCHANGED <<cur, exiting, armed, injected, loadPid, systemVars, traceVars>>

(* cleanup, first half: the fault is removed. *)
Unflip ==
    /\ GoTo("unflip", "close")
    /\ active' = active \ {recipe}
    /\ UNCHANGED <<cur, exiting, armed, injected, loadPid, load, image, gt,
                   traceVars>>

(* The removal fails.  Behind `|| true` the window is closed all the same  *)
(* (every code recipe); elsewhere set -e ends the recipe before gt_end.    *)
UnflipFails ==
    /\ pc = "unflip" /\ "cleanup" \in Upsets
    /\ \/ /\ pc' = "close"
          /\ UNCHANGED <<exiting, armed, injected, loadPid>>
       \/ /\ recipe \notin CodeRecipes
          /\ \/ exiting /\ Exit
             \/ /\ ~exiting /\ pc' = "cleaned"
                /\ UNCHANGED <<exiting, armed, injected, loadPid>>
    /\ UNCHANGED <<cur, systemVars, traceVars>>

(* cleanup, second half: gt_end; an already closed window stays as it is. *)
CloseWindow ==
    /\ pc = "close"
    /\ gt' = [gt EXCEPT ![run] = Closed(@)]
    /\ \/ exiting /\ Exit
       \/ /\ ~exiting /\ pc' = "cleaned"
          /\ UNCHANGED <<exiting, armed, injected, loadPid>>
    /\ UNCHANGED <<cur, load, image, active, traceVars>>

(* INJECTED=0, whatever cleanup returned. *)
CleanupOver ==
    /\ GoTo("cleaned", "await")
    /\ injected' = FALSE
    /\ UNCHANGED <<cur, exiting, armed, loadPid, systemVars, traceVars>>

(* Variant: the driver does not wait for its collector. *)
AwaitNobody ==
    /\ GoTo("await", IF armed THEN "disarm" ELSE "unload")
    /\ UNCHANGED <<cur, exiting, armed, injected, loadPid, systemVars, traceVars>>

(* Variant: it waits for the line in trace_runs.csv, not for the process. *)
AwaitHarvest ==
    /\ GoTo("await", IF armed THEN "disarm" ELSE "unload")
    /\ coll[cur] = "done"
    /\ UNCHANGED <<cur, exiting, armed, injected, loadPid, systemVars, traceVars>>

(* wait $COLLECT_PID, whatever it returns. *)
AwaitCollector ==
    /\ GoTo("await", IF armed THEN "disarm" ELSE "unload")
    /\ coll[cur] \in {"done", "dead"}
    /\ UNCHANGED <<cur, exiting, armed, injected, loadPid, systemVars, traceVars>>

(* Variant: disarm clears the flag and leaves the defect image running. *)
DisarmKeepsImage ==
    /\ GoTo("disarm", "unload")
    /\ active' = active \ {recipe}
    /\ UNCHANGED <<cur, exiting, armed, injected, loadPid, load, image, gt,
                   traceVars>>

(* disarm recreates the service on the stock image. *)
DisarmOk ==
    /\ GoTo("disarm", "unload")
    /\ image' = [image EXCEPT ![recipe] = "stock"]
    /\ active' = active \ {recipe}
    /\ UNCHANGED <<cur, exiting, armed, injected, loadPid, load, gt, traceVars>>

DisarmFails ==
    /\ GoTo("disarm", "unload") /\ "disarm" \in Upsets
    /\ UNCHANGED <<cur, exiting, armed, injected, loadPid, systemVars, traceVars>>

StopLoad ==
    /\ GoTo("unload", IF recipe = Normal THEN "verify" ELSE "copy")
    /\ load' = load \ {cur}
    /\ loadPid' = FALSE
    /\ UNCHANGED <<cur, exiting, armed, injected, image, active, gt, traceVars>>

(* The ground truth goes into the bundle, if the recipe left one. *)
CopyGroundTruth ==
    /\ GoTo("copy", "verify")
    /\ bundle' = IF bundle[run].dir
                   THEN [bundle EXCEPT ![run].gt = gt[run]] ELSE bundle
    /\ UNCHANGED <<cur, exiting, armed, injected, loadPid, systemVars,
                   coll, session, wedged, rec, spans>>

(* verify_injection.py needs a closed window: it exits on an open one, and *)
(* raises when Prometheus does not answer; no file is written then.  What  *)
(* it reads from Prometheus may say anything.                              *)
Verdicts ==
    (IF gt[run] = "closed" THEN Statuses ELSE {"n/a"})
    \cup (IF "prometheus" \in Upsets THEN {"n/a"} ELSE {})

(* Nothing is written into a directory that does not exist. *)
Verify ==
    /\ GoTo("verify", "judge")
    /\ \/ \E v \in Verdicts :
            /\ bundle[run].dir
            /\ bundle' = [bundle EXCEPT ![run].verification = v]
       \/ ~bundle[run].dir /\ UNCHANGED bundle
    /\ UNCHANGED <<cur, exiting, armed, injected, loadPid, systemVars,
                   coll, session, wedged, rec, spans>>

(* A trace that was cut may be too small to count as readable. *)
Readable == CASE rec[cur] = "none" -> {FALSE}
              [] rec[cur] = "cut" -> BOOLEAN
              [] OTHER -> {TRUE}

(* The quality gate; then the driver ends. *)
Judge ==
    /\ pc = "judge"
    /\ \/ \E readable \in Readable :
            /\ bundle[run].dir
            /\ bundle' = [bundle EXCEPT ![run].gate = GateVerdict(bundle[run], readable)]
       \/ ~bundle[run].dir /\ UNCHANGED bundle
    /\ Exit
    /\ UNCHANGED <<cur, systemVars, coll, session, wedged, rec, spans>>

Trapped == pc \notin {"idle", "arm", "fork", "trap"} /\ ~exiting

(* A signal while the trap is installed: _run_cleanup kills the load       *)
(* generator whose pid it knows, and runs cleanup if INJECTED=1.  A        *)
(* foreground child either dies with the driver (SIGINT) or ends first     *)
(* (SIGTERM), which is the same signal one step later.                     *)
Interrupt ==
    /\ Trapped /\ "interrupt" \in Upsets
    /\ pc = "loadpid" => "gap" \in Upsets
    /\ pc' = "undo" /\ exiting' = TRUE
    /\ UNCHANGED <<cur, armed, injected, loadPid, systemVars, traceVars>>

(* Variant: the trap kills the load generator and leaves the fault. *)
UndoKeepsFault ==
    /\ pc = "undo"
    /\ load' = IF loadPid THEN load \ {cur} ELSE load
    /\ Exit
    /\ UNCHANGED <<cur, image, active, gt, traceVars>>

(* Variant: the trap runs cleanup and leaves the load generator. *)
UndoKeepsLoad ==
    /\ pc = "undo"
    /\ \/ /\ injected /\ pc' = "unflip"
          /\ UNCHANGED <<exiting, armed, injected, loadPid>>
       \/ ~injected /\ Exit
    /\ UNCHANGED <<cur, systemVars, traceVars>>

(* _run_cleanup *)
Undo ==
    /\ pc = "undo"
    /\ load' = IF loadPid THEN load \ {cur} ELSE load
    /\ \/ /\ injected /\ pc' = "unflip"
          /\ UNCHANGED <<exiting, armed, injected, loadPid>>
       \/ ~injected /\ Exit
    /\ UNCHANGED <<cur, image, active, gt, traceVars>>

(* No trap is installed: before line 143, inside _run_cleanup (which has   *)
(* reset it), or for SIGKILL anywhere.                                     *)
Die ==
    /\ \/ pc \in {"arm", "fork", "trap"} /\ "interrupt" \in Upsets
       \/ exiting /\ "again" \in Upsets
       \/ pc # "idle" /\ "kill" \in Upsets
    /\ Exit
    /\ UNCHANGED <<cur, systemVars, traceVars>>

Driver ==
    \/ Start \/ ArmOk \/ ArmFails \/ ForkCollector \/ InstallTrap
    \/ StartLoad \/ NoteLoadPid \/ BaselineOver
    \/ Stamp \/ InjectRefused \/ Flip \/ FlipFails
    \/ Pause \/ StampPaused \/ StampFails \/ InjectionOver
    \/ Unflip \/ UnflipFails \/ CloseWindow \/ CleanupOver
    \/ AwaitCollector \/ DisarmOk \/ DisarmFails \/ StopLoad
    \/ CopyGroundTruth \/ Verify \/ Judge \/ Undo

-----------------------------------------------------------------------------
(* The collector of attempt a, collect_trace.sh *)

CollGoes(a, from, to) == coll[a] = from /\ coll' = [coll EXCEPT ![a] = to]

(* What happens to the traces that record when the session goes. *)
Cut == [b \in Attempts |-> IF rec[b] = "on" THEN "cut" ELSE rec[b]]

(* Variant: lttng destroy -a without its timeout and the kill behind it. *)
PreflightUnforced(a) ==
    /\ ~wedged
    /\ CollGoes(a, "preflight", "create")
    /\ bundle' = [bundle EXCEPT ![RunOf[a]].dir = TRUE]
    /\ session' = 0 /\ rec' = Cut
    /\ UNCHANGED <<driverVars, systemVars, wedged, spans>>

(* mkdir -p, then lttng_preflight: every session is destroyed, by force if *)
(* the daemon does not answer within its timeout.                          *)
Preflight(a) ==
    /\ CollGoes(a, "preflight", "create")
    /\ bundle' = [bundle EXCEPT ![RunOf[a]].dir = TRUE]
    /\ session' = 0 /\ wedged' = FALSE /\ rec' = Cut
    /\ UNCHANGED <<driverVars, systemVars, spans>>

(* lttng create ... start, for both domains, the size of the span file,    *)
(* then the snapshot "start".                                              *)
CreateSession(a) ==
    /\ CollGoes(a, "create", "tracing")
    /\ session = 0 /\ bundle[RunOf[a]].dir
    /\ session' = a
    /\ rec' = [rec EXCEPT ![a] = "on"] /\ spans' = [spans EXCEPT ![a] = "on"]
    /\ bundle' = [bundle EXCEPT ![RunOf[a]].start = TRUE]
    /\ UNCHANGED <<driverVars, systemVars, wedged>>

(* A session of that name exists: lttng create fails and set -e ends it. *)
CreateFails(a) ==
    /\ CollGoes(a, "create", "dead")
    /\ session # 0 \/ ~bundle[RunOf[a]].dir
    /\ UNCHANGED <<driverVars, systemVars, session, wedged, rec, spans, bundle>>

(* DURATION covers the driver's three windows, so the collector of a live  *)
(* driver wakes up in the recovery window; an orphan may wake up any time. *)
Own(a) == cur = a /\ pc # "idle" /\ ~exiting

(* sleep DURATION ends: snapshot "end". *)
WindowOver(a) ==
    /\ Own(a) => pc = "await"
    /\ bundle[RunOf[a]].dir
    /\ CollGoes(a, "tracing", "stop")
    /\ bundle' = [bundle EXCEPT ![RunOf[a]].end = TRUE]
    /\ UNCHANGED <<driverVars, systemVars, session, wedged, rec, spans>>

(* lttng stop stops the current session, whoever created it; its report    *)
(* becomes event_loss.json, and no report at all reads as clean.           *)
StopTracing(a) ==
    /\ CollGoes(a, "stop", IF bundle[RunOf[a]].dir THEN "teardown" ELSE "dead")
    /\ rec' = [b \in Attempts |->
                 IF b = a /\ rec[b] = "on" THEN "full" ELSE Cut[b]]
    /\ \/ ~bundle[RunOf[a]].dir /\ UNCHANGED bundle
       \/ /\ bundle[RunOf[a]].dir
          /\ bundle' = [bundle EXCEPT ![RunOf[a]].loss = "clean"]
       \/ /\ bundle[RunOf[a]].dir /\ session # 0 /\ "lossy" \in Upsets
          /\ bundle' = [bundle EXCEPT ![RunOf[a]].loss = "lossy"]
    /\ UNCHANGED <<driverVars, systemVars, session, wedged, spans>>

(* lttng destroy destroys the current session; it blocks while wedged. *)
Teardown(a) ==
    /\ ~wedged
    /\ CollGoes(a, "teardown", "harvest")
    /\ session' = 0 /\ rec' = Cut
    /\ UNCHANGED <<driverVars, systemVars, wedged, spans, bundle>>

(* The span file, which all collectors share, after collector a has sliced *)
(* off what came since its start offset and truncated it: what another's   *)
(* window has written so far is gone.                                      *)
Sliced(a) == [b \in Attempts |-> CASE spans[b] # "on" -> spans[b]
                                    [] b = a          -> "full"
                                    [] OTHER          -> "cut"]

(* logs, the OTLP slice and the trace_runs.csv line *)
Harvest(a) ==
    /\ bundle[RunOf[a]].dir
    /\ CollGoes(a, "harvest", "done")
    /\ spans' = Sliced(a)
    /\ bundle' = [bundle EXCEPT ![RunOf[a]].harvested = TRUE]
    /\ UNCHANGED <<driverVars, systemVars, session, wedged, rec>>

(* A retry has removed the run's directory under an orphan's feet: the     *)
(* next write into it fails, and under set -e that ends the collector.     *)
DirectoryGone(a) ==
    /\ ~bundle[RunOf[a]].dir
    /\ Own(a) => pc = "await"
    /\ coll[a] \in {"tracing", "harvest"}
    /\ coll' = [coll EXCEPT ![a] = "dead"]
    /\ UNCHANGED <<driverVars, systemVars, session, wedged, rec, spans, bundle>>

CollectorKilled(a) ==
    /\ Live(a) /\ "collector" \in Upsets
    /\ coll' = [coll EXCEPT ![a] = "dead"]
    /\ UNCHANGED <<driverVars, systemVars, session, wedged, rec, spans, bundle>>

(* The consumer daemon of a session that nobody tears down hangs. *)
Wedge ==
    /\ session # 0 /\ ~wedged
    /\ (IF Live(session) THEN "wedge_live" ELSE "wedge") \in Upsets
    /\ wedged' = TRUE
    /\ UNCHANGED <<driverVars, systemVars, coll, session, rec, spans, bundle>>

(* Load generators stop by themselves after DURATION. *)
LoadOver(a) ==
    /\ a \in load
    /\ a = cur => pc \in {"idle", "await", "disarm", "unload"} \/ exiting
    /\ load' = load \ {a}
    /\ UNCHANGED <<driverVars, image, active, gt, traceVars>>

CollectorStep(a) ==
    \/ Preflight(a) \/ CreateSession(a) \/ CreateFails(a) \/ WindowOver(a)
    \/ StopTracing(a) \/ Teardown(a) \/ Harvest(a) \/ DirectoryGone(a)

(* Every attempt of the driver is over. *)
Rest == pc = "idle" /\ cur = NAttempts /\ UNCHANGED vars

Next ==
    \/ Driver \/ Interrupt \/ Die \/ Wedge \/ Rest
    \/ \E a \in Attempts : CollectorStep(a) \/ CollectorKilled(a) \/ LoadOver(a)

Spec == Init /\ [][Next]_vars

(* The scheduler runs the driver and every live collector; sleeps end. *)
Fairness == /\ WF_vars(Driver)
            /\ \A a \in Attempts : WF_vars(CollectorStep(a)) /\ WF_vars(LoadOver(a))

FairSpec == Spec /\ Fairness

-----------------------------------------------------------------------------
(* Safety *)

(* A fault without a window: a pausing recipe's, between the pause and its *)
(* stamp, in the trap if a signal came in between, or if the stamp failed. *)
Unstamped ==
    /\ recipe \in PauseRecipes /\ gt[run] = "none"
    /\ pc = "stamp" \/ exiting \/ "inject" \in Upsets

(* A fault is in effect only while the driver that injected it runs, past  *)
(* its baseline, and while the run's window is open: the recipes stamp     *)
(* first and close last, and the trap runs cleanup.  Only a pausing recipe *)
(* stamps second.  So no run's baseline, no normal run and no recovery     *)
(* window sees a fault, but for the time from a pause to its stamp.        *)
FaultInsideWindow ==
    active # {} => /\ pc # "idle" /\ injected
                   /\ active = {recipe}
                   /\ gt[run] = "open" \/ Unstamped

(* Every recipe stamps the start of the incident before it disrupts        *)
(* anything (faults/check_recipe_ordering.sh).                             *)
StampedFirst == active # {} => gt[run] = "open"

(* What a campaign of such runs promises, Incident.tla. *)
Promise == INSTANCE Incident WITH
    N <- NAttempts,
    Early <- {a \in Attempts : Recipe[RunOf[a]] \in PauseRecipes},
    n <- cur,
    window <- IF pc = "idle" THEN "off" ELSE gt[run],
    faulty <- (active # {})

ImplementsIncident == Promise!Spec

(* While the driver may restart a container (arm, disarm), no collector    *)
(* is in its measured window.                                              *)
RestartOutsideTrace ==
    pc \in {"arm", "disarm"} =>
        \A a \in Attempts : coll[a] = "tracing" => rec[a] # "on"

(* The attempt that last collected run r. *)
Latest(r, a) == /\ a <= cur /\ RunOf[a] = r
                /\ \A b \in a + 1 .. cur : RunOf[b] # r

(* A harvested bundle that its MANIFEST.json calls usable holds a trace of *)
(* its whole window, and all spans of it: nobody stops its session, nor    *)
(* truncates the span file between its start offset and its slice.         *)
UsableTraceIsWhole ==
    \A a \in Attempts :
        LET b == bundle[RunOf[a]] IN
        /\ Latest(RunOf[a], a)
        /\ b.harvested
        /\ PackUsable(b)
        => rec[a] = "full" /\ spans[a] = "full"

(* A judged bundle is final: nothing is written into it any more, until a  *)
(* retry of its run removes it.                                            *)
JudgedIsFinal ==
    [][\A r \in Runs : bundle[r].gate # "none" => bundle'[r] \in {bundle[r], NoBundle}]_vars

(* The same of a run whose driver came to its end: what came before it     *)
(* needs no manual reset.                                                  *)
SelfHealing ==
    \A a \in Attempts :
        LET b == bundle[RunOf[a]] IN
        /\ Latest(RunOf[a], a)
        /\ b.harvested /\ b.gate # "none"
        /\ PackUsable(b)
        => rec[a] = "full"

(* However a driver ends, no load generator keeps driving traffic (the     *)
(* reason the trap exists, run_scenario.sh 121-124).                       *)
LoadUndone == pc = "idle" => load = {}

(* A driver that comes to its end has undone all it did itself: the image, *)
(* the load and the fault.                                                 *)
UndoneAtEnd ==
    [][pc = "judge" /\ pc' = "idle" =>
         /\ recipe \in CodeRecipes => image'[recipe] = "stock"
         /\ cur \notin load'
         /\ recipe \notin active']_vars

(* A driver that ended by itself leaves a fault bundle that is usable only *)
(* if the recipe recorded the injection window.                            *)
UsableMeansInjected ==
    \A a \in Attempts :
        LET b == bundle[RunOf[a]] IN
        /\ Latest(RunOf[a], a) /\ Recipe[RunOf[a]] # Normal
        /\ b.gate # "none" /\ b.harvested
        /\ PackUsable(b)
        => b.gt # "none"

(* The two judges of a bundle agree on its verification verdict: if the    *)
(* manifest calls it usable, the gate did not reject it, the trace being   *)
(* whole.                                                                  *)
JudgesAgree ==
    \A a \in Attempts :
        LET b == bundle[RunOf[a]] IN
        /\ Latest(RunOf[a], a)
        /\ b.gate # "none" /\ rec[a] = "full"
        /\ PackUsable(b)
        => b.gate = "usable"

-----------------------------------------------------------------------------
(* Liveness *)

(* The driver always gets to its end. *)
DriverEnds == []<>(pc = "idle")

(* A fault that takes effect is removed. *)
FaultEnds == (active # {}) ~> (active = {})

(* Every collector ends, and with it its session. *)
CollectorEnds == \A a \in Attempts : Live(a) ~> ~Live(a)
=============================================================================
