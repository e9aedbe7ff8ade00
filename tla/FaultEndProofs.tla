--------------------------- MODULE FaultEndProofs ---------------------------
(***************************************************************************)
(* What FaultRun.tla guarantees about a driver that has ended: it leaves   *)
(* no load behind, has undone what it did, and the verdicts on its bundle  *)
(* agree and are about an injection.                                       *)
(***************************************************************************)
EXTENDS FaultRunProofs

USE AttemptsAssumption, RecipesAssumption, PlanAssumption, UpsetsAssumption
    DEF Attempts, Faults

-----------------------------------------------------------------------------
(* The load generator: no SIGKILL, no second signal inside the trap, and   *)
(* none between the fork and LOAD_PID=$!.                                  *)

Tidy == Upsets \cap {"kill", "again", "gap"} = {}

(* Who runs a load generator knows its pid, and has killed it before it    *)
(* judges or exits.                                                        *)
Loads ==
    /\ load \subseteq {cur}
    /\ pc \in {"idle", "arm", "fork", "trap", "load", "copy", "verify", "judge"} => load = {}
    /\ load # {} /\ pc # "loadpid" => loadPid
    /\ exiting => pc = "undo" \/ (pc \in {"unflip", "close"} /\ load = {})
    /\ pc = "undo" => exiting

(* Every step of a tidy campaign keeps it. *)
LEMMA LoadsStep == ASSUME Tidy PROVE Loads /\ [Next]_vars => Loads'
<1> SUFFICES ASSUME Loads, [Next]_vars PROVE Loads'
  OBVIOUS
<1> USE DEF Loads, Tidy, driverVars, systemVars, traceVars, GoTo, Exit
<1>1. CASE Start \/ ArmOk \/ ArmFails \/ ForkCollector \/ InstallTrap
  <2>1. load = {} /\ load' = {} /\ pc' \in {"arm", "fork", "trap", "load", "idle"}
    BY <1>1 DEF Start, ArmOk, ArmFails, ForkCollector, InstallTrap
  <2>2. ~exiting'
    BY <1>1 DEF Start, ArmOk, ArmFails, ForkCollector, InstallTrap
  <2> QED
    BY <2>1, <2>2
<1>2. CASE StartLoad \/ NoteLoadPid \/ BaselineOver
  BY <1>2 DEF StartLoad, NoteLoadPid, BaselineOver
<1>3. CASE Stamp \/ InjectRefused \/ Flip \/ FlipFails \/ Pause \/ StampPaused
           \/ StampFails \/ InjectionOver
  BY <1>3 DEF Stamp, InjectRefused, Flip, FlipFails, Pause, StampPaused, StampFails,
     InjectionOver
<1>4. CASE Unflip \/ UnflipFails \/ CloseWindow \/ CleanupOver
  BY <1>4 DEF Unflip, UnflipFails, CloseWindow, CleanupOver
<1>5. CASE AwaitCollector \/ DisarmOk \/ DisarmFails
  BY <1>5 DEF AwaitCollector, DisarmOk, DisarmFails
<1>6. CASE StopLoad
  BY <1>6 DEF StopLoad
<1>7. CASE CopyGroundTruth \/ Verify \/ Judge
  BY <1>7 DEF CopyGroundTruth, Verify, Judge
<1>8. CASE Undo
  BY <1>8 DEF Undo
<1>9. CASE Interrupt
  BY <1>9 DEF Interrupt, Trapped
<1>10. CASE Die
  BY <1>10 DEF Die
<1>11. CASE Wedge \/ Rest \/ UNCHANGED vars
  BY <1>11 DEF Wedge, Rest, vars
<1>12. ASSUME NEW a \in Attempts, CollectorStep(a) \/ CollectorKilled(a)
       PROVE  Loads'
  <2>1. UNCHANGED <<driverVars, load>>
    BY <1>12 DEF CollectorStep, Preflight, CreateSession, CreateFails, WindowOver,
         StopTracing, Teardown, Harvest, DirectoryGone, CollectorKilled
  <2> QED
    BY <2>1
<1>13. ASSUME NEW a \in Attempts, LoadOver(a)
       PROVE  Loads'
  BY <1>13 DEF LoadOver
<1> QED
  BY <1>1, <1>2, <1>3, <1>4, <1>5, <1>6, <1>7, <1>8, <1>9, <1>10, <1>11, <1>12, <1>13
     DEF Next, Driver

(* However a driver of a tidy campaign ends, no load generator outlives it *)
(* (_run_cleanup, and the kill at the end of run_scenario.sh).             *)
THEOREM NoLoadIsLeft == ASSUME Tidy PROVE Spec => []LoadUndone
<1>1. Init => Loads
  BY DEF Init, Loads
<1>2. Loads => LoadUndone
  BY DEF Loads, LoadUndone
<1> QED
  BY <1>1, <1>2, LoadsStep, PTL DEF Spec

-----------------------------------------------------------------------------
(* What a driver undoes: moreover no recipe fails to be removed.           *)

(* A code recipe's run is armed, and its service disarmed before the end.  *)
Disarmed ==
    /\ pc \notin {"idle", "arm"} /\ recipe \in CodeRecipes => armed
    /\ pc \in {"unload", "copy", "verify", "judge"} /\ recipe \in CodeRecipes =>
           image[recipe] = "stock"

(* Every step keeps it if no disarm fails. *)
LEMMA DisarmedStep ==
  ASSUME "disarm" \notin Upsets PROVE Typed /\ Disarmed /\ [Next]_vars => Disarmed'
<1> SUFFICES ASSUME Typed, Disarmed, [Next]_vars PROVE Disarmed'
  OBVIOUS
<1> USE DEF Disarmed, driverVars, systemVars, traceVars, GoTo, Exit, run, recipe
<1>0. image \in [CodeRecipes -> {"stock", "defect"}]
  BY DEF Typed, TypeOK
<1>1. CASE Start \/ ArmOk \/ ArmFails \/ ForkCollector \/ InstallTrap
  BY <1>0, <1>1 DEF Start, ArmOk, ArmFails, ForkCollector, InstallTrap
<1>2. CASE StartLoad \/ NoteLoadPid \/ BaselineOver
  BY <1>2 DEF StartLoad, NoteLoadPid, BaselineOver
<1>3. CASE Stamp \/ InjectRefused \/ Flip \/ FlipFails \/ Pause \/ StampPaused
           \/ StampFails \/ InjectionOver
  BY <1>3 DEF Stamp, InjectRefused, Flip, FlipFails, Pause, StampPaused, StampFails,
     InjectionOver
<1>4. CASE Unflip \/ UnflipFails \/ CloseWindow \/ CleanupOver
  BY <1>4 DEF Unflip, UnflipFails, CloseWindow, CleanupOver
<1>5. CASE AwaitCollector
  BY <1>5 DEF AwaitCollector
<1>6. CASE DisarmOk
  BY <1>0, <1>6 DEF DisarmOk
<1>7. CASE DisarmFails
  BY <1>7 DEF DisarmFails
<1>8. CASE StopLoad \/ CopyGroundTruth \/ Verify \/ Judge
  BY <1>8 DEF StopLoad, CopyGroundTruth, Verify, Judge
<1>9. CASE Undo
  BY <1>9 DEF Undo
<1>10. CASE Interrupt \/ Die
  BY <1>10 DEF Interrupt, Trapped, Die
<1>11. CASE Wedge \/ Rest \/ UNCHANGED vars
  BY <1>11 DEF Wedge, Rest, vars
<1>12. ASSUME NEW a \in Attempts,
              CollectorStep(a) \/ CollectorKilled(a) \/ LoadOver(a)
       PROVE  Disarmed'
  <2>1. UNCHANGED <<driverVars, image>>
    BY <1>12 DEF CollectorStep, Preflight, CreateSession, CreateFails, WindowOver,
         StopTracing, Teardown, Harvest, DirectoryGone, CollectorKilled, LoadOver
  <2> QED
    BY <2>1
<1> QED
  BY <1>1, <1>2, <1>3, <1>4, <1>5, <1>6, <1>7, <1>8, <1>9, <1>10, <1>11, <1>12
     DEF Next, Driver

(* A driver that comes to its end has undone the image, the load and the   *)
(* fault (run_scenario.sh 161-186).                                        *)
THEOREM EverythingIsUndone ==
  ASSUME Orderly, Tidy, "disarm" \notin Upsets PROVE Spec => UndoneAtEnd
<1> DEFINE Undone == pc = "judge" /\ pc' = "idle" =>
              /\ recipe \in CodeRecipes => image'[recipe] = "stock"
              /\ cur \notin load'
              /\ recipe \notin active'
<1>1. FaultInv /\ Loads /\ Disarmed /\ [Next]_vars => [Undone]_vars
  <2> SUFFICES ASSUME FaultInv, Loads, Disarmed, Next, pc = "judge", pc' = "idle"
               PROVE  Undone
    OBVIOUS
  <2> USE DEF GoTo, Exit, driverVars, systemVars, traceVars
  <2>1. Judge \/ Die
    <3>1. ASSUME NEW a \in Attempts,
                 CollectorStep(a) \/ CollectorKilled(a) \/ LoadOver(a)
          PROVE  FALSE
      BY <3>1 DEF CollectorStep, Preflight, CreateSession, CreateFails, WindowOver,
           StopTracing, Teardown, Harvest, DirectoryGone, CollectorKilled, LoadOver
    <3>2. ~Wedge /\ ~Rest /\ ~Interrupt
      BY DEF Wedge, Rest, Interrupt
    <3>3. Driver => Judge
      BY DEF Driver, Start, ArmOk, ArmFails, ForkCollector, InstallTrap, StartLoad,
         NoteLoadPid, BaselineOver, Stamp, InjectRefused, Flip, FlipFails, Pause,
         StampPaused, StampFails, InjectionOver,
         Unflip, UnflipFails, CloseWindow, CleanupOver, AwaitCollector, DisarmOk,
         DisarmFails, StopLoad, CopyGroundTruth, Verify, Undo
    <3> QED
      BY <3>1, <3>2, <3>3 DEF Next
  <2>2. UNCHANGED <<image, load, active>>
    BY <2>1 DEF Judge, Die
  <2> QED
    BY <2>2 DEF FaultInv, Contained, Loads, Disarmed
<1>2. Init => FaultInv /\ Loads /\ Disarmed
  BY FaultInit DEF Init, Loads, Disarmed
<1>3. FaultInv /\ Loads /\ Disarmed /\ [Next]_vars => (FaultInv /\ Loads /\ Disarmed)'
  BY FaultStep, StepType, LoadsStep, DisarmedStep DEF FaultInv
<1> HIDE DEF Undone
<1>4. Spec => [][Undone]_vars
  BY <1>1, <1>2, <1>3, PTL DEF Spec
<1> QED
  BY <1>4 DEF Undone, UndoneAtEnd

-----------------------------------------------------------------------------
(* The verdicts on a bundle, in patient campaigns: no collector creates or *)
(* changes a directory between the driver's copy and its judgement.        *)

(* A run that recorded no injection is not judged.                         *)
Injections ==
    /\ pc = "undo" => exiting
    /\ exiting => pc \in {"undo", "unflip", "close"}
    /\ pc \in {"fork", "trap", "load", "loadpid", "baseline", "inject"}
           /\ recipe \in CodeRecipes => image[recipe] = "defect"
    /\ pc \in {"flip", "hold", "unflip", "close", "cleaned", "await", "disarm",
               "unload", "copy"}
           /\ ~exiting /\ recipe # Normal => gt[run] # "none"
    /\ pc \in {"verify", "judge"} /\ recipe # Normal /\ bundle[run].dir =>
           bundle[run].gt # "none"
    /\ \A r \in Runs : Recipe[r] # Normal /\ bundle[r].gate # "none" =>
           bundle[r].gt # "none"

AfterClose == {"cleaned", "await"} \cup AfterWait

(* A driver past its cleanup has closed its window, the verification has   *)
(* seen it, and what was judged was judged the same way twice.             *)
Agreed ==
    /\ pc \in BeforeStamp => gt[run] = "none"
    /\ pc \in AfterClose => gt[run] # "open"
    /\ pc = "undo" => exiting
    /\ exiting => pc \in {"undo", "unflip", "close"}
    /\ pc \notin {"idle", "verify", "judge"} /\ ~exiting => bundle[run].gt = "none"
    /\ pc \in {"verify", "judge"} => bundle[run].gt \in {"none", gt[run]}
    /\ pc = "verify" /\ bundle[run].gt # "none" => bundle[run].dir
    /\ pc = "judge" /\ bundle[run].gt # "none" => bundle[run].verification \in Statuses
    /\ JudgesAgree

(* A collector that can write writes into the last attempt's directory,    *)
(* before the driver's wait is over and never what the driver writes.      *)
LEMMA CollectorWrites ==
  ASSUME TraceInv, NEW a \in Attempts, CollectorStep(a)
  PROVE  /\ UNCHANGED <<driverVars, image, gt>>
         /\ Live(a) /\ RunOf[a] \in Runs
         /\ pc \notin AfterWait
         /\ a = cur
         /\ \A r \in Runs : /\ bundle'[r].gt = bundle[r].gt
                            /\ bundle'[r].gate = bundle[r].gate
         /\ \A r \in Runs : bundle[r].gate # "none" => bundle'[r] = bundle[r]
         /\ \A b \in Attempts : b # a /\ rec'[b] = "full" => rec[b] = "full"
<1> USE DEF TraceInv
<1>1. /\ UNCHANGED <<driverVars, image, gt>>
      /\ Live(a)
  BY DEF CollectorStep, Preflight, CreateSession, CreateFails, WindowOver, StopTracing,
     Teardown, Harvest, DirectoryGone, CollGoes, Live, systemVars
<1>2. /\ a = cur /\ pc \notin AfterWait /\ RunOf[a] \in Runs
      /\ bundle \in [Runs -> Bundles]
      /\ rec \in [Attempts -> {"none", "on", "cut", "full"}]
  <2>1. a = cur /\ pc \notin AfterWait
    BY <1>1 DEF OneCollector
  <2> QED
    BY <2>1 DEF Typed, TypeOK
<1>3. /\ \A r \in Runs \ {RunOf[a]} : bundle'[r] = bundle[r]
      /\ bundle[RunOf[a]].gate = "none"
  BY <1>1, <1>2 DEF CollectorStep, Preflight, CreateSession, CreateFails, WindowOver,
     StopTracing, Teardown, Harvest, DirectoryGone, Unjudged, run
<1>4. /\ bundle'[RunOf[a]].gt = bundle[RunOf[a]].gt
      /\ bundle'[RunOf[a]].gate = bundle[RunOf[a]].gate
  <2> DEFINE b == bundle[RunOf[a]]
  <2>1. /\ b \in Bundles
        /\ bundle'[RunOf[a]] \in {b, [b EXCEPT !.dir = TRUE], [b EXCEPT !.start = TRUE],
                                  [b EXCEPT !.end = TRUE], [b EXCEPT !.loss = "clean"],
                                  [b EXCEPT !.loss = "lossy"], [b EXCEPT !.harvested = TRUE]}
    BY <1>2 DEF CollectorStep, Preflight, CreateSession, CreateFails, WindowOver,
       StopTracing, Teardown, Harvest, DirectoryGone
  <2> HIDE DEF b
  <2>2. bundle'[RunOf[a]].gt = b.gt /\ bundle'[RunOf[a]].gate = b.gate
    BY <2>1 DEF Bundles
  <2> QED
    BY <2>2 DEF b
<1>5. \A b \in Attempts : b # a /\ rec'[b] = "full" => rec[b] = "full"
  BY <1>2 DEF CollectorStep, Preflight, CreateSession, CreateFails, WindowOver,
     StopTracing, Teardown, Harvest, DirectoryGone, Cut
<1> QED
  BY <1>1, <1>2, <1>3, <1>4, <1>5

(* What the driver does to the directory of its run. *)
LEMMA DriverWrites ==
  ASSUME TypeOK, NEW r \in Runs
  PROVE  /\ Start => cur' \in Attempts /\ bundle'[RunOf[cur']] = NoBundle
         /\ Start /\ r # RunOf[cur'] => bundle'[r] = bundle[r]
         /\ CopyGroundTruth \/ Verify \/ Judge =>
              /\ r # run => bundle'[r] = bundle[r]
              /\ run \in Runs
         /\ CopyGroundTruth =>
              /\ bundle'[run].gt = IF bundle[run].dir THEN gt[run] ELSE bundle[run].gt
              /\ bundle'[run].gate = bundle[run].gate
              /\ bundle'[run].dir = bundle[run].dir
         /\ Verify =>
              /\ bundle'[run].gt = bundle[run].gt
              /\ bundle'[run].gate = bundle[run].gate
              /\ bundle'[run].dir = bundle[run].dir
              /\ bundle[run].dir => bundle'[run].verification \in Verdicts
         /\ Judge =>
              /\ bundle'[run].gt = bundle[run].gt
              /\ bundle'[run].loss = bundle[run].loss
              /\ bundle'[run].verification = bundle[run].verification
              /\ bundle[run].dir =>
                   \E readable \in Readable :
                       bundle'[run].gate = GateVerdict(bundle[run], readable)
              /\ ~bundle[run].dir => bundle'[run].gate = bundle[run].gate
<1> USE DEF TypeOK, run, GoTo
<1>1. Start => /\ cur' \in Attempts /\ bundle'[RunOf[cur']] = NoBundle
               /\ r # RunOf[cur'] => bundle'[r] = bundle[r]
  BY DEF Start
<1>2. CopyGroundTruth \/ Verify \/ Judge => run \in Runs
  BY DEF CopyGroundTruth, Verify, Judge
<1>3. CopyGroundTruth \/ Verify \/ Judge => (r # run => bundle'[r] = bundle[r])
  BY <1>2 DEF CopyGroundTruth, Verify, Judge
<1> DEFINE b == bundle[RunOf[cur]]
<1>4. ASSUME b \in Bundles, NEW x
      PROVE  /\ [b EXCEPT !.gt = x].gt = x
             /\ [b EXCEPT !.gt = x].gate = b.gate
             /\ [b EXCEPT !.gt = x].dir = b.dir
             /\ [b EXCEPT !.verification = x].verification = x
             /\ [b EXCEPT !.verification = x].gt = b.gt
             /\ [b EXCEPT !.verification = x].gate = b.gate
             /\ [b EXCEPT !.verification = x].dir = b.dir
             /\ [b EXCEPT !.gate = x].gate = x
             /\ [b EXCEPT !.gate = x].gt = b.gt
             /\ [b EXCEPT !.gate = x].loss = b.loss
             /\ [b EXCEPT !.gate = x].verification = b.verification
  BY <1>4 DEF Bundles
<1>5. CopyGroundTruth => /\ bundle'[run].gt = IF b.dir THEN gt[run] ELSE b.gt
                         /\ bundle'[run].gate = b.gate
                         /\ bundle'[run].dir = b.dir
  <2> SUFFICES ASSUME CopyGroundTruth
               PROVE  /\ bundle'[run].gt = IF b.dir THEN gt[run] ELSE b.gt
                      /\ bundle'[run].gate = b.gate
                      /\ bundle'[run].dir = b.dir
    OBVIOUS
  <2>1. b \in Bundles /\ bundle'[run] = IF b.dir THEN [b EXCEPT !.gt = gt[run]] ELSE b
    BY <1>2 DEF CopyGroundTruth
  <2> HIDE DEF b
  <2> QED
    BY <2>1, <1>4
<1>6. Verify => /\ bundle'[run].gt = b.gt
                /\ bundle'[run].gate = b.gate
                /\ bundle'[run].dir = b.dir
                /\ b.dir => bundle'[run].verification \in Verdicts
  <2> SUFFICES ASSUME Verify
               PROVE  /\ bundle'[run].gt = b.gt
                      /\ bundle'[run].gate = b.gate
                      /\ bundle'[run].dir = b.dir
                      /\ b.dir => bundle'[run].verification \in Verdicts
    OBVIOUS
  <2>1. /\ b \in Bundles
        /\ \/ ~b.dir /\ bundle'[run] = b
           \/ \E v \in Verdicts : bundle'[run] = [b EXCEPT !.verification = v]
    BY <1>2 DEF Verify
  <2> HIDE DEF b
  <2>2. CASE ~b.dir /\ bundle'[run] = b
    BY <2>2
  <2>3. CASE \E v \in Verdicts : bundle'[run] = [b EXCEPT !.verification = v]
    <3>1. PICK v \in Verdicts : bundle'[run] = [b EXCEPT !.verification = v]
      BY <2>3
    <3> QED
      BY <2>1, <3>1, <1>4
  <2> QED
    BY <2>1, <2>2, <2>3
<1>7. Judge => /\ bundle'[run].gt = b.gt
               /\ bundle'[run].loss = b.loss
               /\ bundle'[run].verification = b.verification
               /\ b.dir => \E readable \in Readable :
                              bundle'[run].gate = GateVerdict(b, readable)
               /\ ~b.dir => bundle'[run].gate = b.gate
  <2> SUFFICES ASSUME Judge
               PROVE  /\ bundle'[run].gt = b.gt
                      /\ bundle'[run].loss = b.loss
                      /\ bundle'[run].verification = b.verification
                      /\ b.dir => \E readable \in Readable :
                                     bundle'[run].gate = GateVerdict(b, readable)
                      /\ ~b.dir => bundle'[run].gate = b.gate
    OBVIOUS
  <2>1. /\ b \in Bundles
        /\ \/ ~b.dir /\ bundle'[run] = b
           \/ /\ b.dir
              /\ \E readable \in Readable :
                     bundle'[run] = [b EXCEPT !.gate = GateVerdict(b, readable)]
    BY <1>2 DEF Judge
  <2> HIDE DEF b
  <2>2. CASE ~b.dir /\ bundle'[run] = b
    BY <2>2
  <2>3. CASE b.dir
    <3>1. PICK readable \in Readable :
                 bundle'[run] = [b EXCEPT !.gate = GateVerdict(b, readable)]
      BY <2>1, <2>3
    <3> QED
      BY <2>1, <2>3, <3>1, <1>4
  <2> QED
    BY <2>1, <2>2, <2>3
<1> QED
  BY <1>1, <1>2, <1>3, <1>5, <1>6, <1>7

(* Every step of a patient campaign without failing injections keeps       *)
(* Injections.                                                             *)
LEMMA InjectionsStep ==
  ASSUME Patient, "inject" \notin Upsets
  PROVE  TraceInv /\ Injections /\ [Next]_vars => Injections'
<1> SUFFICES ASSUME TraceInv, Injections, [Next]_vars PROVE Injections'
  OBVIOUS
<1> USE DEF Injections, TraceInv, driverVars, systemVars, traceVars, GoTo, Exit, run, recipe,
            AfterWait
<1>0. /\ TypeOK
      /\ image \in [CodeRecipes -> {"stock", "defect"}]
      /\ gt \in [Runs -> Windows]
      /\ pc # "idle" => cur \in Attempts /\ RunOf[cur] \in Runs
  BY DEF Typed, TypeOK
<1>1. CASE Start
  BY <1>0, <1>1, DriverWrites DEF Start, NoBundle
<1>2. CASE ArmOk \/ ArmFails \/ ForkCollector \/ InstallTrap \/ StartLoad
  BY <1>0, <1>2 DEF ArmOk, ArmFails, ForkCollector, InstallTrap, StartLoad
<1>3. CASE NoteLoadPid \/ BaselineOver
  BY <1>3 DEF NoteLoadPid, BaselineOver
<1>4. CASE Stamp \/ InjectRefused \/ Flip \/ Pause \/ StampPaused
  BY <1>0, <1>4 DEF Stamp, InjectRefused, Flip, Pause, StampPaused, CanInject
<1>5. CASE FlipFails \/ StampFails \/ InjectionOver \/ Unflip \/ UnflipFails \/ CleanupOver
  BY <1>5 DEF FlipFails, StampFails, InjectionOver, Unflip, UnflipFails, CleanupOver
<1>6. CASE CloseWindow
  BY <1>0, <1>6 DEF CloseWindow, Closed
<1>7. CASE AwaitCollector \/ DisarmOk \/ DisarmFails \/ StopLoad
  BY <1>7 DEF AwaitCollector, DisarmOk, DisarmFails, StopLoad
<1>8. CASE CopyGroundTruth
  BY <1>0, <1>8, DriverWrites DEF CopyGroundTruth
<1>9. CASE Verify
  BY <1>0, <1>9, DriverWrites DEF Verify
<1>10. CASE Judge
  BY <1>0, <1>10, DriverWrites DEF Judge
<1>11. CASE Undo \/ Interrupt \/ Die
  BY <1>11 DEF Undo, Interrupt, Trapped, Die
<1>12. CASE Wedge \/ Rest \/ UNCHANGED vars
  BY <1>12 DEF Wedge, Rest, vars
<1>13. ASSUME NEW a \in Attempts, CollectorStep(a)
       PROVE  Injections'
  BY <1>13, CollectorWrites
<1>14. ASSUME NEW a \in Attempts, CollectorKilled(a) \/ LoadOver(a)
       PROVE  Injections'
  BY <1>14 DEF CollectorKilled, LoadOver
<1> QED
  BY <1>1, <1>2, <1>3, <1>4, <1>5, <1>6, <1>7, <1>8, <1>9, <1>10, <1>11, <1>12, <1>13, <1>14
     DEF Next, Driver

(* A fault bundle that was judged records its injection: the gate's word   *)
(* is never about a run without one (run_scenario.sh 187-222).             *)
THEOREM JudgedRunsWereInjected ==
  ASSUME Patient, "inject" \notin Upsets PROVE Spec => []UsableMeansInjected
<1>1. Init => Injections
  BY DEF Init, Injections, NoBundle
<1>2. Injections => UsableMeansInjected
  BY DEF Injections, UsableMeansInjected
<1> QED
  BY <1>1, <1>2, InjectionsStep, TraceAlways, PTL DEF Spec

(* Judging: a whole trace is readable, and whoever has recorded a window   *)
(* has closed and verified it.                                             *)
LEMMA JudgeAgrees ==
  ASSUME TraceInv, Agreed, Judge PROVE JudgesAgree'
<1> USE DEF TraceInv, GoTo, Exit
<1>1. /\ TypeOK /\ run \in Runs /\ cur \in Attempts /\ UNCHANGED <<cur, rec>>
      /\ run = RunOf[cur]
  BY DriverWrites DEF Judge, Typed, TypeOK, run
<1>2. \A r \in Runs : r # run => bundle'[r] = bundle[r]
  BY <1>1, DriverWrites
<1> SUFFICES ASSUME NEW a \in Attempts, Latest(RunOf[a], a)',
                    bundle'[RunOf[a]].gate # "none", rec'[a] = "full",
                    PackUsable(bundle'[RunOf[a]])
             PROVE  bundle'[RunOf[a]].gate = "usable"
  BY DEF JudgesAgree
<1>3. Latest(RunOf[a], a) /\ RunOf[a] \in Runs
  BY <1>1 DEF Latest
<1>4. CASE RunOf[a] # run
  BY <1>1, <1>2, <1>3, <1>4 DEF Agreed, JudgesAgree
<1>5. CASE RunOf[a] = run
  <2>1. a = cur /\ rec[cur] = "full"
    BY <1>1, <1>3, <1>5 DEF Latest
  <2>2. bundle[run].gate = "none"
    BY DEF Judge, Unjudged
  <2>3. /\ bundle[run].dir
        /\ \E readable \in Readable : bundle'[run].gate = GateVerdict(bundle[run], readable)
        /\ bundle'[run].loss = bundle[run].loss
        /\ bundle'[run].verification = bundle[run].verification
    BY <1>1, <1>5, <2>2, DriverWrites
  <2>4. bundle'[run].gate = GateVerdict(bundle[run], TRUE)
    BY <2>1, <2>3 DEF Readable
  <2>5. PackUsable(bundle[run])
    BY <1>5, <2>3 DEF PackUsable
  <2>6. bundle[run].gt # "none" =>
          /\ bundle[run].gt = "closed"
          /\ bundle[run].verification \in {"confirmed", "borderline", "no_metric_signature"}
    <3>1. gt[run] \in Windows
      BY <1>1 DEF TypeOK
    <3> QED
      BY <2>5, <3>1 DEF Agreed, Judge, AfterClose, AfterWait, Windows, Statuses, PackUsable
  <2> QED
    BY <1>5, <2>4, <2>6 DEF GateVerdict, GateUsable
<1> QED
  BY <1>4, <1>5

(* The verdicts stand while neither judged directories nor recordings      *)
(* change, but for what a retry removes.                                   *)
LEMMA VerdictsStand ==
  ASSUME TraceInv, JudgesAgree,
         cur' = cur \/ (cur' = cur + 1 /\ bundle'[RunOf[cur']].gate = "none"),
         \A a \in Attempts : rec'[a] = "full" => rec[a] = "full" \/ Live(a),
         \A r \in Runs : bundle'[r].gate # "none" =>
             bundle'[r] = bundle[r]
  PROVE  JudgesAgree'
<1> USE DEF TraceInv
<1> SUFFICES ASSUME NEW a \in Attempts, Latest(RunOf[a], a)',
                    bundle'[RunOf[a]].gate # "none", rec'[a] = "full",
                    PackUsable(bundle'[RunOf[a]])
             PROVE  bundle'[RunOf[a]].gate = "usable"
  BY DEF JudgesAgree
<1>1. RunOf[a] \in Runs /\ bundle'[RunOf[a]] = bundle[RunOf[a]] /\ cur \in 0 .. NAttempts
  BY DEF Typed, TypeOK
<1>2. CASE a <= cur
  <2>1. Latest(RunOf[a], a)
    BY <1>1, <1>2 DEF Latest
  <2>2. ~Live(a)
    BY <1>1 DEF OneCollector, Unjudged, run
  <2> QED
    BY <1>1, <2>1, <2>2 DEF JudgesAgree
<1>3. CASE a > cur
  <2>1. a = cur'
    BY <1>1, <1>3 DEF Latest
  <2> QED
    BY <1>3, <2>1
<1> QED
  BY <1>1, <1>2, <1>3

(* Every step of a patient campaign whose cleanups work and whose metrics  *)
(* server answers keeps Agreed.                                            *)
LEMMA AgreedStep ==
  ASSUME Patient, Upsets \cap {"cleanup", "prometheus"} = {}
  PROVE  TraceInv /\ Agreed /\ [Next]_vars => Agreed'
<1> SUFFICES ASSUME TraceInv, Agreed, [Next]_vars PROVE Agreed'
  OBVIOUS
<1> USE DEF Agreed, TraceInv, driverVars, systemVars, traceVars, GoTo, Exit, run, recipe,
            AfterWait, AfterClose, BeforeStamp
<1>0. /\ TypeOK /\ RecipeKnown
      /\ gt \in [Runs -> Windows]
      /\ pc # "idle" => cur \in Attempts /\ RunOf[cur] \in Runs
  BY DEF Typed, TypeOK
<1>1. UNCHANGED <<cur, rec, bundle>> => JudgesAgree'
  BY DEF JudgesAgree, Latest
<1>2. CASE Start
  <2>1. /\ bundle'[RunOf[cur']].gate = "none"
        /\ \A r \in Runs : bundle'[r].gate # "none" => bundle'[r] = bundle[r]
    <3>1. cur' \in Attempts /\ RunOf[cur'] \in Runs /\ bundle'[RunOf[cur']].gate = "none"
      BY <1>0, <1>2, DriverWrites DEF NoBundle
    <3> QED
      BY <1>0, <1>2, <3>1, DriverWrites
  <2>2. JudgesAgree'
    BY <1>2, <2>1, VerdictsStand DEF Start
  <2> QED
    BY <1>0, <1>2, <2>2, DriverWrites DEF Start, NoBundle, TypeOK
<1>3. CASE ArmOk \/ ArmFails \/ ForkCollector \/ InstallTrap \/ StartLoad
  BY <1>1, <1>3 DEF ArmOk, ArmFails, ForkCollector, InstallTrap, StartLoad
<1>4. CASE NoteLoadPid \/ BaselineOver
  BY <1>1, <1>4 DEF NoteLoadPid, BaselineOver
<1>5. CASE Stamp \/ InjectRefused \/ Flip \/ FlipFails \/ InjectionOver \/ Unflip
  BY <1>0, <1>1, <1>5 DEF Stamp, InjectRefused, Flip, FlipFails, Closed, InjectionOver,
     Unflip
<1>17. CASE Pause \/ StampPaused \/ StampFails
  BY <1>0, <1>1, <1>17 DEF Pause, StampPaused, StampFails
<1>6. CASE UnflipFails
  BY <1>6 DEF UnflipFails
<1>7. CASE CloseWindow
  BY <1>0, <1>1, <1>7 DEF CloseWindow, Closed
<1>8. CASE CleanupOver \/ AwaitCollector \/ DisarmOk \/ DisarmFails
  BY <1>1, <1>8 DEF CleanupOver, AwaitCollector, DisarmOk, DisarmFails
<1>9. CASE StopLoad
  BY <1>1, <1>9 DEF StopLoad
<1>10. CASE CopyGroundTruth
  <2>1. JudgesAgree'
    BY <1>0, <1>10, DriverWrites, VerdictsStand DEF CopyGroundTruth, Unjudged
  <2> QED
    BY <1>0, <1>10, <2>1, DriverWrites DEF CopyGroundTruth
<1>11. CASE Verify
  <2>1. JudgesAgree'
    BY <1>0, <1>11, DriverWrites, VerdictsStand DEF Verify, Unjudged
  <2>2. gt[run] = "closed" => Verdicts \subseteq Statuses
    BY DEF Verdicts
  <2> QED
    BY <1>0, <1>11, <2>1, <2>2, DriverWrites DEF Verify, Windows
<1>12. CASE Judge
  <2>1. JudgesAgree'
    BY <1>12, JudgeAgrees
  <2> QED
    BY <1>12, <2>1 DEF Judge
<1>13. CASE Undo \/ Interrupt \/ Die
  BY <1>0, <1>1, <1>13 DEF Undo, Interrupt, Trapped, Die
<1>14. CASE Wedge \/ Rest \/ UNCHANGED vars
  BY <1>1, <1>14 DEF Wedge, Rest, vars
<1>15. ASSUME NEW a \in Attempts, CollectorStep(a)
       PROVE  Agreed'
  <2>1. JudgesAgree'
    BY <1>15, CollectorWrites, VerdictsStand
  <2> QED
    BY <1>0, <1>15, <2>1, CollectorWrites
<1>16. ASSUME NEW a \in Attempts, CollectorKilled(a) \/ LoadOver(a)
       PROVE  Agreed'
  BY <1>1, <1>16 DEF CollectorKilled, LoadOver
<1> QED
  BY <1>2, <1>3, <1>4, <1>5, <1>6, <1>7, <1>8, <1>9, <1>10, <1>11, <1>12, <1>13, <1>14,
     <1>15, <1>16, <1>17 DEF Next, Driver

(* The manifest and the gate agree on a whole trace, as long as cleanups   *)
(* work and Prometheus answers (package_run.sh 117-128, check_run_quality  *)
(* 69-85).                                                                 *)
THEOREM ManifestAndGateAgree ==
  ASSUME Patient, Upsets \cap {"cleanup", "prometheus"} = {} PROVE Spec => []JudgesAgree
<1>1. Init => Agreed
  BY DEF Init, Agreed, JudgesAgree, NoBundle, BeforeStamp, AfterClose, AfterWait
<1>2. Agreed => JudgesAgree
  BY DEF Agreed
<1> QED
  BY <1>1, <1>2, AgreedStep, TraceAlways, PTL DEF Spec
=============================================================================
