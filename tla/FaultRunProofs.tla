--------------------------- MODULE FaultRunProofs ---------------------------
(***************************************************************************)
(* What FaultRun.tla guarantees for any number of attempts, any runs, any  *)
(* recipes and any allowed set of upsets: the types, where faults are, the *)
(* refinement of Incident, and then what is true of traces and bundles.    *)
(***************************************************************************)
EXTENDS FaultRun, TLAPS

USE AttemptsAssumption, RecipesAssumption, PlanAssumption, UpsetsAssumption
    DEF Attempts, Faults

(* Past the baseline, and whenever INJECTED is set, the run has a recipe. *)
RecipeKnown ==
    /\ pc \in {"baseline", "inject", "flip", "stamp", "hold", "unflip", "close",
               "cleaned"} => recipe \in Faults
    /\ injected => pc # "idle" /\ recipe \in Faults

Typed == TypeOK /\ RecipeKnown

(* An absent directory is a bundle. *)
LEMMA NoBundleType == NoBundle \in Bundles
  BY DEF NoBundle, Bundles, Windows, Statuses

(* Writing one part of a bundle leaves it a bundle. *)
LEMMA BundleWrite ==
  ASSUME NEW b \in Bundles
  PROVE  /\ [b EXCEPT !.dir = TRUE] \in Bundles
         /\ [b EXCEPT !.start = TRUE] \in Bundles
         /\ [b EXCEPT !.end = TRUE] \in Bundles
         /\ [b EXCEPT !.harvested = TRUE] \in Bundles
         /\ \A l \in {"clean", "lossy"} : [b EXCEPT !.loss = l] \in Bundles
         /\ \A w \in Windows : [b EXCEPT !.gt = w] \in Bundles
         /\ \A v \in Statuses \cup {"n/a"} : [b EXCEPT !.verification = v] \in Bundles
         /\ \A g \in {"usable", "not usable"} : [b EXCEPT !.gate = g] \in Bundles
  BY DEF Bundles

(* Starting the driver keeps the types: the next attempt has a run. *)
LEMMA StartType == Typed /\ Start => Typed'
<1> SUFFICES ASSUME Typed, Start PROVE Typed'
  OBVIOUS
<1> USE DEF Typed, RecipeKnown, TypeOK, recipe, run
<1>1. bundle' \in [Runs -> Bundles]
  BY NoBundleType DEF Start
<1>2. gt' \in [Runs -> Windows]
  BY DEF Start, Windows
<1> QED
  BY <1>1, <1>2 DEF Start, PCs

(* Every step of run_scenario.sh keeps the types. *)
LEMMA DriverType == Typed /\ Driver => Typed'
<1> SUFFICES ASSUME Typed, Driver PROVE Typed'
  OBVIOUS
<1> USE DEF Typed, RecipeKnown, TypeOK, driverVars, systemVars, traceVars, GoTo,
            Exit, run, recipe
<1>1. CASE Start
  BY <1>1, StartType
<1>2. CASE ArmOk
  BY <1>2 DEF ArmOk, PCs
<1>3. CASE ArmFails
  BY <1>3 DEF ArmFails, PCs
<1>4. CASE ForkCollector
  BY <1>4 DEF ForkCollector, PCs, CollPhases
<1>5. CASE InstallTrap
  BY <1>5 DEF InstallTrap, PCs
<1>6. CASE StartLoad
  BY <1>6 DEF StartLoad, PCs
<1>7. CASE NoteLoadPid
  BY <1>7 DEF NoteLoadPid, PCs
<1>8. CASE BaselineOver
  BY <1>8 DEF BaselineOver, PCs
<1>9. CASE Stamp
  BY <1>9 DEF Stamp, PCs, Windows
<1>10. CASE InjectRefused
  BY <1>10 DEF InjectRefused, PCs
<1>11. CASE Flip
  BY <1>11 DEF Flip, PCs
<1>12. CASE FlipFails
  BY <1>12 DEF FlipFails, PCs, Windows, Closed
<1>26. CASE Pause \/ StampFails
  BY <1>26 DEF Pause, StampFails, PCs
<1>27. CASE StampPaused
  BY <1>27 DEF StampPaused, PCs, Windows
<1>13. CASE InjectionOver
  BY <1>13 DEF InjectionOver, PCs
<1>14. CASE Unflip
  BY <1>14 DEF Unflip, PCs
<1>15. CASE UnflipFails
  BY <1>15 DEF UnflipFails, PCs
<1>16. CASE CloseWindow
  BY <1>16 DEF CloseWindow, PCs, Windows, Closed
<1>17. CASE CleanupOver
  BY <1>17 DEF CleanupOver, PCs
<1>18. CASE AwaitCollector
  BY <1>18 DEF AwaitCollector, PCs
<1>19. CASE DisarmOk
  BY <1>19 DEF DisarmOk, PCs
<1>20. CASE DisarmFails
  BY <1>20 DEF DisarmFails, PCs
<1>21. CASE StopLoad
  BY <1>21 DEF StopLoad, PCs
<1>22. CASE CopyGroundTruth
  <2>1. /\ bundle[run] \in Bundles
        /\ gt[run] \in Windows
    BY <1>22 DEF CopyGroundTruth
  <2>2. [bundle[run] EXCEPT !.gt = gt[run]] \in Bundles
    BY <2>1, BundleWrite
  <2> QED
    BY <2>2, <1>22 DEF CopyGroundTruth, PCs
<1>23. CASE Verify
  <2>1. bundle' \in [Runs -> Bundles]
    <3>1. Verdicts \subseteq Statuses \cup {"n/a"} /\ bundle[run] \in Bundles
      BY <1>23 DEF Verify, Verdicts
    <3>2. CASE UNCHANGED bundle
      BY <3>2
    <3>3. CASE ~UNCHANGED bundle
      <4>1. PICK v \in Verdicts : bundle' = [bundle EXCEPT ![run].verification = v]
        BY <3>3, <1>23 DEF Verify
      <4>2. [bundle[run] EXCEPT !.verification = v] \in Bundles
        BY <3>1, BundleWrite
      <4> QED
        BY <4>1, <4>2
    <3> QED
      BY <3>2, <3>3
  <2> QED
    BY <2>1, <1>23 DEF Verify, PCs
<1>24. CASE Judge
  <2>1. bundle' \in [Runs -> Bundles]
    <3>1. bundle[run] \in Bundles
      BY <1>24 DEF Judge
    <3>2. CASE UNCHANGED bundle
      BY <3>2
    <3>3. CASE ~UNCHANGED bundle
      <4>1. PICK g \in {"usable", "not usable"} :
               bundle' = [bundle EXCEPT ![run].gate = g]
        BY <3>3, <1>24 DEF Judge, GateVerdict
      <4>2. [bundle[run] EXCEPT !.gate = g] \in Bundles
        BY <3>1, BundleWrite
      <4> QED
        BY <4>1, <4>2
    <3> QED
      BY <3>2, <3>3
  <2> QED
    BY <2>1, <1>24 DEF Judge, PCs
<1>25. CASE Undo
  BY <1>25 DEF Undo, PCs
<1> QED
  BY <1>1, <1>2, <1>3, <1>4, <1>5, <1>6, <1>7, <1>8, <1>9, <1>10, <1>11, <1>12, <1>13, <1>14, <1>15, <1>16, <1>17, <1>18, <1>19, <1>20, <1>21, <1>22, <1>23, <1>24,
     <1>25, <1>26, <1>27 DEF Driver

(* Every step of a collect_trace.sh keeps the types. *)
LEMMA CollectorType == ASSUME NEW a \in Attempts
                       PROVE  Typed /\ CollectorStep(a) => Typed'
<1> SUFFICES ASSUME Typed, CollectorStep(a) PROVE Typed'
  OBVIOUS
<1> USE DEF Typed, RecipeKnown, TypeOK, driverVars, systemVars, CollGoes, run, recipe
<1>0. rec \in [Attempts -> {"none", "on", "cut", "full"}] =>
        Cut \in [Attempts -> {"none", "on", "cut", "full"}]
  BY DEF Cut
<1>1. CASE Preflight(a)
  <2>1. [bundle[RunOf[a]] EXCEPT !.dir = TRUE] \in Bundles
    BY BundleWrite
  <2>2. rec' \in [Attempts -> {"none", "on", "cut", "full"}]
    BY <1>0, <1>1 DEF Preflight
  <2>3. session' \in 0 .. NAttempts
    BY <1>1, SMT DEF Preflight
  <2>4. wedged' \in BOOLEAN
    BY <1>1 DEF Preflight
  <2>5. coll' \in [Attempts -> CollPhases]
    BY <1>1 DEF Preflight, CollPhases
  <2>6. bundle' \in [Runs -> Bundles]
    BY <2>1, <1>1 DEF Preflight
  <2> QED
    BY <2>2, <2>3, <2>4, <2>5, <2>6, <1>1 DEF Preflight
<1>2. CASE CreateSession(a)
  <2>1. [bundle[RunOf[a]] EXCEPT !.start = TRUE] \in Bundles
    BY BundleWrite
  <2> QED
    BY <2>1, <1>2 DEF CreateSession, CollPhases
<1>3. CASE CreateFails(a)
  BY <1>3 DEF CreateFails, CollPhases
<1>4. CASE WindowOver(a)
  <2>1. [bundle[RunOf[a]] EXCEPT !.end = TRUE] \in Bundles
    BY BundleWrite
  <2> QED
    BY <2>1, <1>4 DEF WindowOver, CollPhases
<1>5. CASE StopTracing(a)
  <2>1. [bundle[RunOf[a]] EXCEPT !.loss = "clean"] \in Bundles
    BY BundleWrite
  <2>2. [bundle[RunOf[a]] EXCEPT !.loss = "lossy"] \in Bundles
    BY BundleWrite
  <2>3. bundle' \in [Runs -> Bundles]
    BY <2>1, <2>2, <1>5 DEF StopTracing
  <2>4. rec' \in [Attempts -> {"none", "on", "cut", "full"}]
    BY <1>0, <1>5 DEF StopTracing
  <2> QED
    BY <2>3, <2>4, <1>5 DEF StopTracing, CollPhases
<1>6. CASE Teardown(a)
  BY <1>0, <1>6 DEF Teardown, CollPhases
<1>7. CASE Harvest(a)
  <2>1. [bundle[RunOf[a]] EXCEPT !.harvested = TRUE] \in Bundles
    BY BundleWrite
  <2>2. spans' \in [Attempts -> {"none", "on", "cut", "full"}]
    BY <1>7 DEF Harvest, Sliced
  <2> QED
    BY <2>1, <2>2, <1>7 DEF Harvest, CollPhases
<1>8. CASE DirectoryGone(a)
  BY <1>8 DEF DirectoryGone, CollPhases
<1> QED
  BY <1>1, <1>2, <1>3, <1>4, <1>5, <1>6, <1>7, <1>8 DEF CollectorStep

(* Every step of the machine keeps the types. *)
LEMMA StepType == Typed /\ [Next]_vars => Typed'
<1> SUFFICES ASSUME Typed, [Next]_vars PROVE Typed'
  OBVIOUS
<1> USE DEF Typed, RecipeKnown, TypeOK, driverVars, systemVars, traceVars, run, recipe
<1>1. CASE Driver
  BY <1>1, DriverType
<1>2. CASE Interrupt
  BY <1>2 DEF Interrupt, Trapped, PCs
<1>3. CASE Die
  BY <1>3 DEF Die, Exit, PCs
<1>4. CASE Wedge
  BY <1>4 DEF Wedge
<1>5. CASE Rest
  BY <1>5 DEF Rest, vars
<1>6. ASSUME NEW a \in Attempts, CollectorStep(a)
      PROVE  Typed'
  BY <1>6, CollectorType
<1>7. ASSUME NEW a \in Attempts, CollectorKilled(a)
      PROVE  Typed'
  BY <1>7 DEF CollectorKilled, CollPhases
<1>8. ASSUME NEW a \in Attempts, LoadOver(a)
      PROVE  Typed'
  BY <1>8 DEF LoadOver
<1>9. CASE UNCHANGED vars
  BY <1>9 DEF vars
<1> QED
  BY <1>1, <1>2, <1>3, <1>4, <1>5, <1>6, <1>7, <1>8, <1>9 DEF Next

(* The machine starts well typed. *)
LEMMA InitType == Init => Typed
<1> SUFFICES ASSUME Init PROVE Typed
  OBVIOUS
<1>1. bundle \in [Runs -> Bundles]
  BY NoBundleType DEF Init
<1>2. gt \in [Runs -> Windows]
  BY DEF Init, Windows
<1>3. /\ cur \in 0 .. NAttempts /\ session \in 0 .. NAttempts
      /\ pc \in PCs
  BY DEF Init, PCs
<1>4. /\ coll \in [Attempts -> CollPhases]
      /\ rec \in [Attempts -> {"none", "on", "cut", "full"}]
      /\ spans \in [Attempts -> {"none", "on", "cut", "full"}]
      /\ image \in [CodeRecipes -> {"stock", "defect"}]
  BY DEF Init, CollPhases
<1>5. /\ exiting \in BOOLEAN /\ armed \in BOOLEAN /\ injected \in BOOLEAN
      /\ loadPid \in BOOLEAN /\ wedged \in BOOLEAN
  BY DEF Init
<1>6. load \subseteq Attempts /\ active \subseteq Faults
  BY DEF Init
<1>7. RecipeKnown /\ (pc # "idle" => cur # 0)
  BY DEF Init, RecipeKnown
<1> QED
  BY <1>1, <1>2, <1>3, <1>4, <1>5, <1>6, <1>7 DEF Typed, TypeOK

(* The state of the machine is well typed in every campaign.  That needs   *)
(* RecipeKnown: a driver past its baseline, or whose trap would run        *)
(* cleanup, collects a run with a fault.                                   *)
THEOREM TypeCorrect == Spec => []TypeOK
<1>1. Typed => TypeOK
  BY DEF Typed
<1> QED
  BY <1>1, InitType, StepType, PTL DEF Spec

-----------------------------------------------------------------------------
(* The fault stays inside its window: no SIGKILL, no second signal while   *)
(* the trap runs, and every removal works.                                 *)

Orderly == Upsets \cap {"kill", "again", "cleanup"} = {}

BeforeStamp == {"arm", "fork", "trap", "load", "loadpid", "baseline", "inject",
                "stamp"}

(* A fault in effect is one that the trap or the rest of the script will   *)
(* remove, and only then close the window.                                 *)
Contained ==
    /\ active # {} => /\ pc \in {"stamp", "hold", "unflip", "undo"}
                      /\ active = {recipe}
                      /\ injected
                      /\ gt[run] = "open" \/ Unstamped
    /\ pc = "flip" => gt[run] = "open"
    /\ pc \in {"inject", "flip", "stamp"} => injected
    /\ pc \in BeforeStamp => gt[run] = "none"

FaultInv == Typed /\ Contained

(* No step of an orderly campaign lets a fault out of its window.          *)
LEMMA FaultStep ==
  ASSUME Orderly PROVE FaultInv /\ [Next]_vars => Contained'
<1> SUFFICES ASSUME FaultInv, [Next]_vars PROVE Contained'
  OBVIOUS
<1> USE DEF FaultInv, Contained, driverVars, systemVars, traceVars, GoTo, Exit,
            run, recipe, BeforeStamp, Orderly, Unstamped
<1>0. /\ pc # "idle" => cur \in Attempts
      /\ gt \in [Runs -> Windows]
  BY DEF Typed, TypeOK
<1>1. CASE Start
  <2>1. RunOf[cur + 1] \in Runs /\ active = {} /\ active' = {} /\ cur' = cur + 1
    BY <1>1 DEF Start, Typed, TypeOK
  <2>2. gt'[RunOf[cur']] = "none"
    BY <1>0, <1>1, <2>1 DEF Start
  <2> QED
    BY <2>1, <2>2, <1>1 DEF Start
<1>2. CASE ArmOk \/ ArmFails
  BY <1>2 DEF ArmOk, ArmFails
<1>3. CASE ForkCollector \/ InstallTrap \/ StartLoad \/ NoteLoadPid \/ BaselineOver
  BY <1>3 DEF ForkCollector, InstallTrap, StartLoad, NoteLoadPid, BaselineOver
<1>4. CASE Stamp
  BY <1>0, <1>4 DEF Stamp
<1>5. CASE InjectRefused \/ InjectionOver \/ CleanupOver \/ AwaitCollector
  BY <1>5 DEF InjectRefused, InjectionOver, CleanupOver, AwaitCollector
<1>6. CASE Flip
  BY <1>6 DEF Flip
<1>7. CASE FlipFails
  BY <1>0, <1>7 DEF FlipFails
<1>18. CASE Pause \/ StampFails
  BY <1>18 DEF Pause, StampFails
<1>19. CASE StampPaused
  BY <1>0, <1>19 DEF StampPaused
<1>8. CASE Unflip
  BY <1>8 DEF Unflip
<1>9. CASE UnflipFails
  BY <1>9 DEF UnflipFails
<1>10. CASE CloseWindow
  BY <1>10 DEF CloseWindow
<1>11. CASE DisarmOk \/ DisarmFails \/ StopLoad \/ CopyGroundTruth
  BY <1>11 DEF DisarmOk, DisarmFails, StopLoad, CopyGroundTruth
<1>12. CASE Verify \/ Judge
  BY <1>12 DEF Verify, Judge
<1>13. CASE Undo
  BY <1>13 DEF Undo
<1>14. CASE Interrupt
  BY <1>14 DEF Interrupt, Trapped
<1>15. CASE Die
  BY <1>15 DEF Die
<1>16. CASE Wedge \/ Rest \/ UNCHANGED vars
  BY <1>16 DEF Wedge, Rest, vars
<1>17. ASSUME NEW a \in Attempts,
              CollectorStep(a) \/ CollectorKilled(a) \/ LoadOver(a)
       PROVE  Contained'
  <2>1. UNCHANGED <<driverVars, active, gt>>
    BY <1>17 DEF CollectorStep, Preflight, CreateSession, CreateFails, WindowOver,
         StopTracing, Teardown, Harvest, DirectoryGone, CollectorKilled, LoadOver
  <2> QED
    BY <2>1
<1> QED
  BY <1>1, <1>2, <1>3, <1>4, <1>5, <1>6, <1>7, <1>8, <1>9, <1>10, <1>11, <1>12,
     <1>13, <1>14, <1>15, <1>16, <1>17, <1>18, <1>19 DEF Next, Driver

(* A campaign starts without a fault. *)
LEMMA FaultInit == Init => FaultInv
<1> SUFFICES ASSUME Init PROVE FaultInv
  OBVIOUS
<1>1. Typed
  BY InitType
<1>2. Contained
  BY DEF Init, Contained, BeforeStamp
<1> QED
  BY <1>1, <1>2 DEF FaultInv

(* In every orderly campaign no fault is in effect outside the window its  *)
(* ground truth records, wherever a signal or a failing recipe strikes,    *)
(* but for a pausing recipe's before its stamp.                            *)
THEOREM FaultContained == ASSUME Orderly PROVE Spec => []FaultInsideWindow
<1>1. FaultInv /\ [Next]_vars => FaultInv'
  BY FaultStep, StepType DEF FaultInv
<1>2. FaultInv => FaultInsideWindow
  BY DEF FaultInv, Contained, FaultInsideWindow
<1> QED
  BY <1>1, <1>2, FaultInit, PTL DEF Spec

-----------------------------------------------------------------------------
(* Under the same conditions every step of the machine is a step of        *)
(* Incident.tla, or a stutter.                                             *)

(* A step of the machine is a step of the promise, or a stutter. *)
LEMMA PromiseStep ==
  ASSUME Orderly PROVE FaultInv /\ [Next]_vars => [Promise!Next]_(Promise!vars)
<1> SUFFICES ASSUME FaultInv, [Next]_vars
             PROVE  [Promise!Next]_(Promise!vars)
  OBVIOUS
<1> USE DEF FaultInv, Contained, driverVars, systemVars, traceVars, GoTo, Exit,
            run, recipe, BeforeStamp, Orderly, Unstamped, Promise!Next, Promise!vars
<1>0. /\ pc # "idle" => cur \in Attempts
      /\ gt \in [Runs -> Windows]
      /\ cur \in 0 .. NAttempts
  BY DEF Typed, TypeOK
<1>1. CASE Start
  <2>1. RunOf[cur + 1] \in Runs /\ active = {} /\ active' = {} /\ cur' = cur + 1
    BY <1>0, <1>1 DEF Start
  <2>2. gt'[RunOf[cur']] = "none"
    BY <1>0, <1>1, <2>1 DEF Start
  <2>3. Promise!Begin
    BY <2>1, <2>2, <1>1 DEF Start, Promise!Begin
  <2> QED
    BY <2>3
<1>2. CASE ArmOk
  BY <1>2 DEF ArmOk
<1>3. CASE ArmFails
  <2>1. Promise!End
    BY <1>0, <1>3 DEF ArmFails, Promise!End, Windows
  <2> QED
    BY <2>1
<1>4. CASE ForkCollector \/ InstallTrap \/ StartLoad \/ NoteLoadPid \/ BaselineOver
  BY <1>4 DEF ForkCollector, InstallTrap, StartLoad, NoteLoadPid, BaselineOver
<1>5. CASE Stamp \/ StampPaused
  <2>1. Promise!Open
    BY <1>0, <1>5 DEF Stamp, StampPaused, Promise!Open
  <2> QED
    BY <2>1
<1>19. CASE Pause
  <2>1. Promise!Onset
    BY <1>0, <1>19 DEF Pause, Promise!Onset
  <2> QED
    BY <2>1
<1>20. CASE StampFails
  BY <1>20 DEF StampFails
<1>6. CASE InjectRefused \/ InjectionOver \/ CleanupOver \/ AwaitCollector
  BY <1>6 DEF InjectRefused, InjectionOver, CleanupOver, AwaitCollector
<1>7. CASE Flip
  <2>1. Promise!Onset
    BY <1>7 DEF Flip, Promise!Onset
  <2> QED
    BY <2>1
<1>8. CASE FlipFails
  <2>1. active = {} /\ active' = {} /\ gt[run] = "open"
    BY <1>8 DEF FlipFails
  <2>2. CASE gt' = [gt EXCEPT ![run] = Closed(@)]
    <3>1. gt'[run] = "closed"
      BY <1>0, <1>8, <2>1, <2>2 DEF FlipFails, Closed
    <3>2. Promise!Close
      BY <2>1, <3>1, <1>8 DEF FlipFails, Promise!Close
    <3> QED
      BY <3>2
  <2>3. CASE UNCHANGED gt
    BY <2>3, <1>8 DEF FlipFails
  <2> QED
    BY <2>2, <2>3, <1>8 DEF FlipFails
<1>9. CASE Unflip
  <2>1. CASE active = {}
    BY <2>1, <1>9 DEF Unflip
  <2>2. CASE active # {}
    <3>1. Promise!Removal
      BY <2>2, <1>9 DEF Unflip, Promise!Removal
    <3> QED
      BY <3>1
  <2> QED
    BY <2>1, <2>2
<1>10. CASE UnflipFails
  BY <1>10 DEF UnflipFails
<1>11. CASE CloseWindow
  <2>1. active = {} /\ active' = {} /\ gt[run] \in Windows
    BY <1>0, <1>11 DEF CloseWindow
  <2>2. gt'[run] = IF gt[run] = "open" THEN "closed" ELSE gt[run]
    BY <1>0, <1>11 DEF CloseWindow, Closed
  <2>3. CASE exiting /\ Exit
    <3>1. Promise!End
      BY <2>1, <2>3, <1>11 DEF CloseWindow, Promise!End, Windows
    <3> QED
      BY <3>1
  <2>4. CASE pc' = "cleaned" /\ gt[run] = "open"
    <3>1. Promise!Close
      BY <2>1, <2>2, <2>4, <1>11 DEF CloseWindow, Promise!Close
    <3> QED
      BY <3>1
  <2>5. CASE pc' = "cleaned" /\ gt[run] # "open"
    BY <2>1, <2>2, <2>5, <1>11 DEF CloseWindow
  <2> QED
    BY <2>3, <2>4, <2>5, <1>11 DEF CloseWindow
<1>12. CASE DisarmOk \/ DisarmFails \/ StopLoad \/ CopyGroundTruth
  BY <1>12 DEF DisarmOk, DisarmFails, StopLoad, CopyGroundTruth
<1>13. CASE Verify \/ Judge
  <2>1. CASE Verify
    BY <2>1 DEF Verify
  <2>2. CASE Judge
    <3>1. Promise!End
      BY <1>0, <2>2 DEF Judge, Promise!End, Windows
    <3> QED
      BY <3>1
  <2> QED
    BY <1>13, <2>1, <2>2
<1>14. CASE Undo
  <2>1. CASE injected
    BY <2>1, <1>14 DEF Undo
  <2>2. CASE ~injected
    <3>1. Promise!End
      BY <2>2, <1>0, <1>14 DEF Undo, Promise!End, Windows
    <3> QED
      BY <3>1
  <2> QED
    BY <2>1, <2>2
<1>15. CASE Interrupt
  BY <1>15 DEF Interrupt, Trapped
<1>16. CASE Die
  <2>1. Promise!End
    BY <1>0, <1>16 DEF Die, Promise!End, Windows
  <2> QED
    BY <2>1
<1>17. CASE Wedge \/ Rest \/ UNCHANGED vars
  BY <1>17 DEF Wedge, Rest, vars
<1>18. ASSUME NEW a \in Attempts,
              CollectorStep(a) \/ CollectorKilled(a) \/ LoadOver(a)
       PROVE  [Promise!Next]_(Promise!vars)
  <2>1. UNCHANGED <<driverVars, active, gt>>
    BY <1>18 DEF CollectorStep, Preflight, CreateSession, CreateFails, WindowOver,
         StopTracing, Teardown, Harvest, DirectoryGone, CollectorKilled, LoadOver
  <2> QED
    BY <2>1
<1> QED
  BY <1>1, <1>2, <1>3, <1>4, <1>5, <1>6, <1>7, <1>8, <1>9, <1>10, <1>11, <1>12,
     <1>13, <1>14, <1>15, <1>16, <1>17, <1>18, <1>19, <1>20 DEF Next, Driver

(* The machine implements Incident.tla: in every orderly campaign faults   *)
(* come and go only within the window of the run that is going on; only a  *)
(* pausing recipe's may come before it.                                    *)
THEOREM MachineKeepsPromise == ASSUME Orderly PROVE Spec => ImplementsIncident
<1>1. Init => Promise!Init
  BY DEF Init, Promise!Init
<1>2. FaultInv /\ [Next]_vars => [Promise!Next]_(Promise!vars)
  BY PromiseStep
<1>3. Spec => []FaultInv
  <2>1. FaultInv /\ [Next]_vars => FaultInv'
    BY FaultStep, StepType DEF FaultInv
  <2> QED
    BY <2>1, FaultInit, PTL DEF Spec
<1> QED
  BY <1>1, <1>2, <1>3, PTL DEF Spec, Promise!Spec, ImplementsIncident

-----------------------------------------------------------------------------
(* Traces and bundles in a campaign that never starts a driver while the   *)
(* collector of an interrupted one still runs: whatever else fails, at     *)
(* most one collector is alive.                                            *)
Patient == "hasty" \notin Upsets

AfterWait == {"disarm", "unload", "copy", "verify", "judge"}

(* Only the last attempt's collector can be alive, from the fork on and    *)
(* not beyond the driver's wait.                                           *)
OneCollector ==
    /\ \A a \in Attempts : a > cur => coll[a] = "none"
    /\ pc \in {"arm", "fork"} => coll[cur] = "none"
    /\ \A a \in Attempts : Live(a) => a = cur
    /\ pc \in AfterWait => ~Live(cur)

(* So nobody cuts a trace that is being recorded, nor its spans.           *)
TraceOfPhase ==
    \A a \in Attempts :
        /\ coll[a] \in {"tracing", "stop"} => rec[a] = "on"
        /\ coll[a] \in {"teardown", "harvest", "done"} => rec[a] = "full"
        /\ coll[a] \in {"tracing", "stop", "teardown", "harvest"} => spans[a] = "on"
        /\ coll[a] = "done" => spans[a] = "full"

(* A harvested directory is the work of the last attempt at its run.       *)
HarvestedOnce ==
    \A a \in Attempts :
        Latest(RunOf[a], a) /\ bundle[RunOf[a]].harvested => coll[a] = "done"

(* The driver judges once, as the last thing it does.                      *)
Unjudged ==
    /\ cur \in Attempts /\ Live(cur) => bundle[run].gate = "none"
    /\ pc # "idle" => bundle[run].gate = "none"

TraceInv == Typed /\ OneCollector /\ TraceOfPhase /\ HarvestedOnce /\ Unjudged

-----------------------------------------------------------------------------
(* A campaign starts without collectors and bundles. *)
LEMMA TraceInit == Init => TraceInv
<1> SUFFICES ASSUME Init PROVE TraceInv
  OBVIOUS
<1>1. Typed
  BY InitType
<1>2. OneCollector
  BY DEF Init, OneCollector, Live, AfterWait
<1>3. TraceOfPhase
  BY DEF Init, TraceOfPhase
<1>4. HarvestedOnce
  BY DEF Init, HarvestedOnce, NoBundle
<1>5. Unjudged
  BY DEF Init, Unjudged, Live
<1> QED
  BY <1>1, <1>2, <1>3, <1>4, <1>5 DEF TraceInv

(* A step that leaves attempts, collectors, recordings and directories     *)
(* alone keeps the invariant if the driver does not skip the wait.         *)
LEMMA DriverMoves ==
  ASSUME TraceInv, UNCHANGED <<cur, coll, rec, spans, bundle>>,
         pc' \in {"arm", "fork"} => coll[cur] = "none",
         pc' \in AfterWait => cur \in Attempts /\ ~Live(cur),
         pc = "idle" => pc' = "idle"
  PROVE  OneCollector' /\ TraceOfPhase' /\ HarvestedOnce' /\ Unjudged'
<1> USE DEF TraceInv
<1>1. OneCollector'
  BY DEF OneCollector, Live
<1>2. TraceOfPhase'
  BY DEF TraceOfPhase
<1>3. HarvestedOnce'
  BY DEF HarvestedOnce, Latest
<1>4. Unjudged'
  BY DEF Unjudged, Live, run
<1> QED
  BY <1>1, <1>2, <1>3, <1>4

(* Starting the driver: no collector is alive, and the directory goes. *)
LEMMA StartTrace ==
  ASSUME Patient, TraceInv, Start
  PROVE  OneCollector' /\ TraceOfPhase' /\ HarvestedOnce' /\ Unjudged'
<1> USE DEF TraceInv
<1>0. /\ cur \in 0 .. NAttempts /\ cur' = cur + 1 /\ cur' \in Attempts
      /\ pc' \in {"arm", "fork"}
      /\ UNCHANGED <<coll, rec, spans>>
      /\ bundle \in [Runs -> Bundles]
      /\ RunOf[cur'] \in Runs
      /\ bundle' = [bundle EXCEPT ![RunOf[cur']] = NoBundle]
  BY DEF Start, Typed, TypeOK
<1>1. \A a \in Attempts : ~Live(a)
  BY DEF Start, Patient, Abandoned, OneCollector, Unjudged, run
<1>2. OneCollector'
  BY <1>0, <1>1 DEF OneCollector, Live, AfterWait
<1>3. TraceOfPhase'
  BY <1>0 DEF TraceOfPhase
<1>4. HarvestedOnce'
  <2> SUFFICES ASSUME NEW a \in Attempts,
                      Latest(RunOf[a], a)', bundle'[RunOf[a]].harvested
               PROVE  coll'[a] = "done"
    BY DEF HarvestedOnce
  <2>1. RunOf[a] # RunOf[cur']
    BY <1>0 DEF NoBundle
  <2>2. Latest(RunOf[a], a) /\ bundle[RunOf[a]].harvested
    BY <1>0, <2>1 DEF Latest
  <2> QED
    BY <1>0, <2>2 DEF HarvestedOnce
<1>5. Unjudged'
  BY <1>0 DEF Unjudged, run, NoBundle
<1> QED
  BY <1>2, <1>3, <1>4, <1>5

(* A driver's write into its directory does not touch what a collector     *)
(* reads of it; if it judges, it is over and so is its collector.          *)
LEMMA WriteTrace ==
  ASSUME TraceInv, pc \in AfterWait,
         UNCHANGED <<cur, coll, rec, spans>>,
         pc' = "idle" \/ pc' \in AfterWait,
         bundle' \in [Runs -> Bundles],
         \A r \in Runs : bundle'[r].harvested = bundle[r].harvested,
         pc' # "idle" => bundle'[run].gate = bundle[run].gate
  PROVE  OneCollector' /\ TraceOfPhase' /\ HarvestedOnce' /\ Unjudged'
<1> USE DEF TraceInv, AfterWait
<1>0. cur \in Attempts /\ run \in Runs
  BY DEF Typed, TypeOK, run
<1>1. OneCollector'
  BY DEF OneCollector, Live
<1>2. TraceOfPhase'
  BY DEF TraceOfPhase
<1>3. HarvestedOnce'
  BY DEF HarvestedOnce, Latest
<1>4. Unjudged'
  BY <1>0 DEF Unjudged, OneCollector, Live, run
<1> QED
  BY <1>1, <1>2, <1>3, <1>4

(* Writing one part of a bundle leaves the others. *)
LEMMA OtherParts ==
  ASSUME NEW b \in Bundles, NEW x
  PROVE  /\ [b EXCEPT !.dir = x].harvested = b.harvested
         /\ [b EXCEPT !.dir = x].gate = b.gate
         /\ [b EXCEPT !.start = x].harvested = b.harvested
         /\ [b EXCEPT !.start = x].gate = b.gate
         /\ [b EXCEPT !.end = x].harvested = b.harvested
         /\ [b EXCEPT !.end = x].gate = b.gate
         /\ [b EXCEPT !.loss = x].harvested = b.harvested
         /\ [b EXCEPT !.loss = x].gate = b.gate
         /\ [b EXCEPT !.harvested = x].gate = b.gate
         /\ [b EXCEPT !.gt = x].harvested = b.harvested
         /\ [b EXCEPT !.gt = x].gate = b.gate
         /\ [b EXCEPT !.verification = x].harvested = b.harvested
         /\ [b EXCEPT !.verification = x].gate = b.gate
         /\ [b EXCEPT !.gate = x].harvested = b.harvested
  BY DEF Bundles

(* Every step of run_scenario.sh keeps the invariant. *)
LEMMA DriverTrace ==
  ASSUME Patient, TraceInv, Driver
  PROVE  OneCollector' /\ TraceOfPhase' /\ HarvestedOnce' /\ Unjudged'
<1> USE DEF TraceInv, driverVars, systemVars, traceVars, GoTo, Exit, AfterWait
<1>0. /\ Typed /\ cur \in 0 .. NAttempts
      /\ pc # "idle" => cur \in Attempts /\ run \in Runs
      /\ bundle \in [Runs -> Bundles]
      /\ bundle' \in [Runs -> Bundles]
      /\ coll \in [Attempts -> CollPhases]
  BY DriverType DEF Typed, TypeOK, run
<1>1. CASE Start
  BY <1>1, StartTrace
<1>2. CASE ArmOk \/ ArmFails \/ InstallTrap \/ StartLoad \/ NoteLoadPid \/ BaselineOver
  BY <1>0, <1>2, DriverMoves DEF ArmOk, ArmFails, InstallTrap, StartLoad, NoteLoadPid,
     BaselineOver, OneCollector
<1>3. CASE Stamp \/ InjectRefused \/ Flip \/ FlipFails \/ Pause \/ StampPaused
           \/ StampFails \/ InjectionOver
  BY <1>3, DriverMoves DEF Stamp, InjectRefused, Flip, FlipFails, Pause, StampPaused,
     StampFails, InjectionOver
<1>4. CASE Unflip \/ UnflipFails \/ CloseWindow \/ CleanupOver \/ Undo
  BY <1>4, DriverMoves DEF Unflip, UnflipFails, CloseWindow, CleanupOver, Undo
<1>5. CASE AwaitCollector
  BY <1>0, <1>5, DriverMoves DEF AwaitCollector, Live
<1>6. CASE DisarmOk \/ DisarmFails \/ StopLoad
  BY <1>0, <1>6, DriverMoves DEF DisarmOk, DisarmFails, StopLoad, OneCollector
<1>7. CASE ForkCollector
  <2>1. /\ coll' = [coll EXCEPT ![cur] = "preflight"] /\ pc' = "trap"
        /\ UNCHANGED <<cur, rec, spans, bundle>>
        /\ pc = "fork" /\ cur \in Attempts /\ coll[cur] = "none"
    BY <1>0, <1>7 DEF ForkCollector, OneCollector
  <2>2. OneCollector'
    BY <1>0, <2>1 DEF OneCollector, Live
  <2>3. TraceOfPhase'
    BY <1>0, <2>1 DEF TraceOfPhase
  <2>4. HarvestedOnce'
    BY <1>0, <2>1 DEF HarvestedOnce, Latest
  <2>5. Unjudged'
    BY <1>0, <2>1 DEF Unjudged, run
  <2> QED
    BY <2>2, <2>3, <2>4, <2>5
<1>8. CASE CopyGroundTruth
  <2>1. \A r \in Runs : /\ bundle'[r].harvested = bundle[r].harvested
                        /\ bundle'[r].gate = bundle[r].gate
    <3>1. run \in Runs /\ bundle[run] \in Bundles
      BY <1>0, <1>8 DEF CopyGroundTruth
    <3>2. CASE UNCHANGED bundle
      BY <3>2
    <3>3. CASE ~UNCHANGED bundle
      <4> DEFINE b == [bundle[run] EXCEPT !.gt = gt[run]]
      <4>1. bundle' = [bundle EXCEPT ![run] = b]
        BY <3>3, <1>8 DEF CopyGroundTruth
      <4>2. b.harvested = bundle[run].harvested /\ b.gate = bundle[run].gate
        BY <3>1, OtherParts
      <4> HIDE DEF b
      <4> QED
        BY <1>0, <4>1, <4>2
    <3> QED
      BY <3>2, <3>3
  <2>2. UNCHANGED run /\ run \in Runs
    BY <1>0, <1>8 DEF CopyGroundTruth, run
  <2> QED
    BY <1>0, <1>8, <2>1, <2>2, WriteTrace DEF CopyGroundTruth
<1>9. CASE Verify
  <2>1. \A r \in Runs : /\ bundle'[r].harvested = bundle[r].harvested
                        /\ bundle'[r].gate = bundle[r].gate
    <3>1. run \in Runs /\ bundle[run] \in Bundles
      BY <1>0, <1>9 DEF Verify
    <3>2. CASE UNCHANGED bundle
      BY <3>2
    <3>3. CASE ~UNCHANGED bundle
      <4>1. PICK v \in Verdicts : bundle' = [bundle EXCEPT ![run].verification = v]
        BY <3>3, <1>9 DEF Verify
      <4> DEFINE b == [bundle[run] EXCEPT !.verification = v]
      <4>2. bundle' = [bundle EXCEPT ![run] = b]
        BY <4>1
      <4>3. b.harvested = bundle[run].harvested /\ b.gate = bundle[run].gate
        BY <3>1, OtherParts
      <4> HIDE DEF b
      <4> QED
        BY <1>0, <4>2, <4>3
    <3> QED
      BY <3>2, <3>3
  <2>2. UNCHANGED run /\ run \in Runs
    BY <1>0, <1>9 DEF Verify, run
  <2> QED
    BY <1>0, <1>9, <2>1, <2>2, WriteTrace DEF Verify
<1>10. CASE Judge
  <2>1. \A r \in Runs : bundle'[r].harvested = bundle[r].harvested
    <3>1. run \in Runs /\ bundle[run] \in Bundles
      BY <1>0, <1>10 DEF Judge
    <3>2. CASE UNCHANGED bundle
      BY <3>2
    <3>3. CASE ~UNCHANGED bundle
      <4>1. PICK g : bundle' = [bundle EXCEPT ![run].gate = g]
        BY <3>3, <1>10 DEF Judge
      <4> DEFINE b == [bundle[run] EXCEPT !.gate = g]
      <4>2. bundle' = [bundle EXCEPT ![run] = b]
        BY <4>1
      <4>3. b.harvested = bundle[run].harvested
        BY <3>1, OtherParts
      <4> HIDE DEF b
      <4> QED
        BY <1>0, <4>2, <4>3
    <3> QED
      BY <3>2, <3>3
  <2> QED
    BY <1>0, <1>10, <2>1, WriteTrace DEF Judge
<1> QED
  BY <1>1, <1>2, <1>3, <1>4, <1>5, <1>6, <1>7, <1>8, <1>9, <1>10 DEF Driver

(* What one live collector does to its own phase, recording and directory  *)
(* keeps the invariant: it must leave the judge's word alone, harvest only *)
(* when done, and record from the session's creation to its stop.          *)
LEMMA CollectorMoves ==
  ASSUME NEW a \in Attempts, TraceInv, TypeOK', Live(a),
         UNCHANGED <<cur, pc>>,
         \A b \in Attempts : b # a => coll'[b] = coll[b],
         coll'[a] # "none",
         \A b \in Attempts : b # a /\ rec[b] # "on" => rec'[b] = rec[b],
         coll'[a] \in {"tracing", "stop"} => rec'[a] = "on",
         coll'[a] \in {"teardown", "harvest", "done"} => rec'[a] = "full",
         \A b \in Attempts : b # a /\ spans[b] # "on" => spans'[b] = spans[b],
         coll'[a] \in {"tracing", "stop", "teardown", "harvest"} => spans'[a] = "on",
         coll'[a] = "done" => spans'[a] = "full",
         \A r \in Runs : bundle'[r].gate = bundle[r].gate,
         \A r \in Runs : bundle'[r].harvested =>
             bundle[r].harvested \/ (r = RunOf[a] /\ coll'[a] = "done")
  PROVE  OneCollector' /\ TraceOfPhase' /\ HarvestedOnce' /\ Unjudged'
<1> USE DEF TraceInv
<1>0. a = cur /\ run \in Runs
  BY DEF OneCollector, run
<1>1. OneCollector'
  BY <1>0 DEF OneCollector, Live, AfterWait
<1>2. TraceOfPhase'
  <2> SUFFICES ASSUME NEW b \in Attempts, b # a
               PROVE  /\ coll'[b] \in {"tracing", "stop"} => rec'[b] = "on"
                      /\ coll'[b] \in {"teardown", "harvest", "done"} => rec'[b] = "full"
                      /\ coll'[b] \in {"tracing", "stop", "teardown", "harvest"} =>
                             spans'[b] = "on"
                      /\ coll'[b] = "done" => spans'[b] = "full"
    BY DEF TraceOfPhase
  <2>1. coll[b] \notin {"tracing", "stop", "teardown", "harvest"}
    BY <1>0 DEF OneCollector, Live
  <2> QED
    BY <2>1 DEF TraceOfPhase
<1>3. HarvestedOnce'
  <2> SUFFICES ASSUME NEW b \in Attempts,
                      Latest(RunOf[b], b)', bundle'[RunOf[b]].harvested
               PROVE  coll'[b] = "done"
    BY DEF HarvestedOnce
  <2>1. RunOf[b] \in Runs /\ Latest(RunOf[b], b)
    BY DEF Latest
  <2>2. CASE b = a
    <3>1. ~bundle[RunOf[a]].harvested
      BY <2>1, <2>2 DEF HarvestedOnce, Live
    <3> QED
      BY <2>1, <2>2, <3>1
  <2>3. CASE b # a
    <3>1. RunOf[b] # RunOf[a]
      BY <1>0, <2>1, <2>3 DEF Latest
    <3> QED
      BY <2>1, <2>3, <3>1 DEF HarvestedOnce
  <2> QED
    BY <2>2, <2>3
<1>4. Unjudged'
  BY <1>0 DEF Unjudged, Live, run
<1> QED
  BY <1>1, <1>2, <1>3, <1>4

(* Replacing a directory by one with the same harvest and the same verdict *)
(* leaves every directory's harvest and verdict as they were.              *)
LEMMA SameVerdicts ==
  ASSUME bundle \in [Runs -> Bundles], NEW r \in Runs, NEW b,
         bundle' = [bundle EXCEPT ![r] = b],
         b.harvested = bundle[r].harvested, b.gate = bundle[r].gate
  PROVE  \A q \in Runs : /\ bundle'[q].harvested = bundle[q].harvested
                         /\ bundle'[q].gate = bundle[q].gate
  OBVIOUS

(* Every step of a collect_trace.sh keeps the invariant. *)
LEMMA CollectorTrace ==
  ASSUME NEW a \in Attempts, TraceInv, CollectorStep(a)
  PROVE  OneCollector' /\ TraceOfPhase' /\ HarvestedOnce' /\ Unjudged'
<1> USE DEF TraceInv, driverVars, systemVars, CollGoes, CollPhases
<1>0. /\ TypeOK' /\ RunOf[a] \in Runs /\ bundle[RunOf[a]] \in Bundles
      /\ bundle \in [Runs -> Bundles]
      /\ coll \in [Attempts -> CollPhases]
      /\ rec \in [Attempts -> {"none", "on", "cut", "full"}]
      /\ spans \in [Attempts -> {"none", "on", "cut", "full"}]
      /\ \A b \in Attempts : rec[b] # "on" => Cut[b] = rec[b]
  BY CollectorType DEF Typed, TypeOK, Cut
<1>1. CASE Preflight(a)
  <2> DEFINE b == [bundle[RunOf[a]] EXCEPT !.dir = TRUE]
  <2>1. bundle' = [bundle EXCEPT ![RunOf[a]] = b]
    BY <1>1 DEF Preflight
  <2>2. b.harvested = bundle[RunOf[a]].harvested /\ b.gate = bundle[RunOf[a]].gate
    BY <1>0, OtherParts
  <2> HIDE DEF b
  <2>3. \A q \in Runs : /\ bundle'[q].harvested = bundle[q].harvested
                        /\ bundle'[q].gate = bundle[q].gate
    BY <1>0, <2>1, <2>2, SameVerdicts
  <2> QED
    BY <1>0, <1>1, <2>3, CollectorMoves DEF Preflight, Live
<1>2. CASE CreateSession(a)
  <2> DEFINE b == [bundle[RunOf[a]] EXCEPT !.start = TRUE]
  <2>1. bundle' = [bundle EXCEPT ![RunOf[a]] = b]
    BY <1>2 DEF CreateSession
  <2>2. b.harvested = bundle[RunOf[a]].harvested /\ b.gate = bundle[RunOf[a]].gate
    BY <1>0, OtherParts
  <2> HIDE DEF b
  <2>3. \A q \in Runs : /\ bundle'[q].harvested = bundle[q].harvested
                        /\ bundle'[q].gate = bundle[q].gate
    BY <1>0, <2>1, <2>2, SameVerdicts
  <2> QED
    BY <1>0, <1>2, <2>3, CollectorMoves DEF CreateSession, Live
<1>3. CASE CreateFails(a)
  BY <1>0, <1>3, CollectorMoves DEF CreateFails, Live
<1>4. CASE WindowOver(a)
  <2> DEFINE b == [bundle[RunOf[a]] EXCEPT !.end = TRUE]
  <2>1. bundle' = [bundle EXCEPT ![RunOf[a]] = b]
    BY <1>4 DEF WindowOver
  <2>2. b.harvested = bundle[RunOf[a]].harvested /\ b.gate = bundle[RunOf[a]].gate
    BY <1>0, OtherParts
  <2> HIDE DEF b
  <2>3. \A q \in Runs : /\ bundle'[q].harvested = bundle[q].harvested
                        /\ bundle'[q].gate = bundle[q].gate
    BY <1>0, <2>1, <2>2, SameVerdicts
  <2> QED
    BY <1>0, <1>4, <2>3, CollectorMoves DEF WindowOver, Live, TraceOfPhase
<1>5. CASE StopTracing(a)
  <2>1. \A q \in Runs : /\ bundle'[q].harvested = bundle[q].harvested
                        /\ bundle'[q].gate = bundle[q].gate
    <3>1. CASE UNCHANGED bundle
      BY <3>1
    <3>2. CASE ~UNCHANGED bundle
      <4>1. PICK l : bundle' = [bundle EXCEPT ![RunOf[a]].loss = l]
        BY <3>2, <1>5 DEF StopTracing
      <4> DEFINE b == [bundle[RunOf[a]] EXCEPT !.loss = l]
      <4>2. bundle' = [bundle EXCEPT ![RunOf[a]] = b]
        BY <4>1
      <4>3. b.harvested = bundle[RunOf[a]].harvested /\ b.gate = bundle[RunOf[a]].gate
        BY <1>0, OtherParts
      <4> HIDE DEF b
      <4> QED
        BY <1>0, <4>2, <4>3, SameVerdicts
    <3> QED
      BY <3>1, <3>2
  <2>2. /\ rec'[a] = "full" /\ \A b \in Attempts : b # a => rec'[b] = Cut[b]
        /\ spans[a] = "on" /\ UNCHANGED spans
    BY <1>0, <1>5 DEF StopTracing, TraceOfPhase
  <2>3. /\ Live(a) /\ UNCHANGED <<cur, pc>>
        /\ coll'[a] \in {"teardown", "dead"}
        /\ \A b \in Attempts : b # a => coll'[b] = coll[b]
    BY <1>0, <1>5 DEF StopTracing, Live
  <2> QED
    BY <1>0, <2>1, <2>2, <2>3, CollectorMoves
<1>6. CASE Teardown(a)
  <2>1. rec'[a] = "full" /\ spans'[a] = "on"
    BY <1>0, <1>6 DEF Teardown, TraceOfPhase
  <2> QED
    BY <1>0, <1>6, <2>1, CollectorMoves DEF Teardown, Live
<1>7. CASE Harvest(a)
  <2>1. /\ coll[a] = "harvest" /\ coll'[a] = "done"
        /\ rec'[a] = "full" /\ spans'[a] = "full"
        /\ \A b \in Attempts : spans[b] # "on" => spans'[b] = spans[b]
    BY <1>0, <1>7 DEF Harvest, TraceOfPhase, Sliced
  <2> DEFINE b == [bundle[RunOf[a]] EXCEPT !.harvested = TRUE]
  <2>2. bundle' = [bundle EXCEPT ![RunOf[a]] = b]
    BY <1>7 DEF Harvest
  <2>3. b.gate = bundle[RunOf[a]].gate
    BY <1>0, OtherParts
  <2> HIDE DEF b
  <2>4. \A q \in Runs : bundle'[q].gate = bundle[q].gate
    BY <1>0, <2>2, <2>3
  <2>5. \A q \in Runs : bundle'[q].harvested => bundle[q].harvested \/ q = RunOf[a]
    BY <1>0, <2>2
  <2> QED
    BY <1>0, <1>7, <2>1, <2>4, <2>5, CollectorMoves DEF Harvest, Live
<1>8. CASE DirectoryGone(a)
  BY <1>0, <1>8, CollectorMoves DEF DirectoryGone, Live
<1> QED
  BY <1>1, <1>2, <1>3, <1>4, <1>5, <1>6, <1>7, <1>8 DEF CollectorStep

(* Every step of a patient campaign keeps the invariant. *)
LEMMA TraceStep == ASSUME Patient PROVE TraceInv /\ [Next]_vars => TraceInv'
<1> SUFFICES ASSUME TraceInv, [Next]_vars
             PROVE  OneCollector' /\ TraceOfPhase' /\ HarvestedOnce' /\ Unjudged'
  BY StepType DEF TraceInv
<1> USE DEF TraceInv, driverVars, systemVars, traceVars, Exit
<1>0. /\ TypeOK' /\ cur \in 0 .. NAttempts
      /\ coll \in [Attempts -> CollPhases]
  BY StepType DEF Typed, TypeOK
<1>1. CASE Driver
  BY <1>1, DriverTrace
<1>2. CASE Interrupt
  BY <1>2, DriverMoves DEF Interrupt, Trapped, AfterWait
<1>3. CASE Die
  BY <1>3, DriverMoves DEF Die, AfterWait
<1>4. CASE Wedge \/ Rest \/ UNCHANGED vars
  <2>1. UNCHANGED <<cur, pc, coll, rec, spans, bundle>>
    BY <1>4 DEF Wedge, Rest, vars
  <2> QED
    BY <2>1 DEF OneCollector, TraceOfPhase, HarvestedOnce, Unjudged, Live, Latest, run
<1>5. ASSUME NEW a \in Attempts, CollectorStep(a)
      PROVE  OneCollector' /\ TraceOfPhase' /\ HarvestedOnce' /\ Unjudged'
  BY <1>5, CollectorTrace
<1>6. ASSUME NEW a \in Attempts, CollectorKilled(a)
      PROVE  OneCollector' /\ TraceOfPhase' /\ HarvestedOnce' /\ Unjudged'
  BY <1>0, <1>6, CollectorMoves DEF CollectorKilled
<1>7. ASSUME NEW a \in Attempts, LoadOver(a)
      PROVE  OneCollector' /\ TraceOfPhase' /\ HarvestedOnce' /\ Unjudged'
  <2>1. UNCHANGED <<cur, pc, coll, rec, spans, bundle>>
    BY <1>7 DEF LoadOver
  <2> QED
    BY <2>1 DEF OneCollector, TraceOfPhase, HarvestedOnce, Unjudged, Live, Latest, run
<1> QED
  BY <1>1, <1>2, <1>3, <1>4, <1>5, <1>6, <1>7 DEF Next

(* Hence in every patient campaign the invariant holds. *)
LEMMA TraceAlways == ASSUME Patient PROVE Spec => []TraceInv
<1>1. TraceInv /\ [Next]_vars => TraceInv'
  BY TraceStep
<1> QED
  BY <1>1, TraceInit, PTL DEF Spec

-----------------------------------------------------------------------------
(* No recipe restarts a container while a trace is recorded: arm comes     *)
(* before the fork of the collector, disarm after the wait for it, and no  *)
(* older collector is left.                                                *)
THEOREM RestartsOutsideTraces ==
  ASSUME Patient PROVE Spec => []RestartOutsideTrace
<1>1. TraceInv => RestartOutsideTrace
  <2> SUFFICES ASSUME TraceInv, pc \in {"arm", "disarm"}, NEW a \in Attempts
               PROVE  coll[a] # "tracing"
    BY DEF RestartOutsideTrace
  <2>1. ~Live(a)
    BY DEF TraceInv, OneCollector, AfterWait, Live
  <2> QED
    BY <2>1 DEF Live
<1> QED
  BY <1>1, TraceAlways, PTL

(* Whatever is killed or fails in a patient campaign, a harvested run that *)
(* its manifest calls usable has the trace of its whole window and its     *)
(* spans: no other collector stops its session or truncates the span file. *)
THEOREM UsableTracesAreWhole ==
  ASSUME Patient PROVE Spec => []UsableTraceIsWhole
<1>1. TraceInv => UsableTraceIsWhole
  BY DEF TraceInv, HarvestedOnce, TraceOfPhase, UsableTraceIsWhole
<1> QED
  BY <1>1, TraceAlways, PTL

(* A judged directory changes no more: a collector that could still write  *)
(* into it has an unjudged one, and a driver that could has not judged.    *)
LEMMA JudgedStep ==
  ASSUME TraceInv, [Next]_vars, NEW r \in Runs, bundle[r].gate # "none"
  PROVE  bundle'[r] \in {bundle[r], NoBundle}
<1> USE DEF TraceInv, driverVars, systemVars, traceVars, GoTo, Exit
<1>0. /\ bundle \in [Runs -> Bundles]
      /\ pc # "idle" => cur \in Attempts /\ run # r
      /\ cur \in 0 .. NAttempts
  BY DEF Typed, TypeOK, Unjudged
<1>1. CASE Start
  BY <1>0, <1>1 DEF Start
<1>2. CASE CopyGroundTruth
  BY <1>0, <1>2 DEF CopyGroundTruth
<1>3. CASE Verify
  BY <1>0, <1>3 DEF Verify
<1>4. CASE Judge
  BY <1>0, <1>4 DEF Judge
<1>5. ASSUME NEW a \in Attempts, CollectorStep(a)
      PROVE  bundle'[r] = bundle[r]
  <2>1. Live(a)
    BY <1>5 DEF CollectorStep, Preflight, CreateSession, CreateFails, WindowOver,
       StopTracing, Teardown, Harvest, DirectoryGone, CollGoes, Live
  <2>2. RunOf[a] # r
    BY <2>1 DEF OneCollector, Unjudged, run
  <2> QED
    BY <1>0, <1>5, <2>2 DEF CollectorStep, Preflight, CreateSession, CreateFails,
       WindowOver, StopTracing, Teardown, Harvest, DirectoryGone
<1>6. CASE UNCHANGED bundle
  BY <1>6
<1>7. CASE Driver
  BY <1>1, <1>2, <1>3, <1>4, <1>6, <1>7 DEF Driver, ArmOk, ArmFails, ForkCollector,
     InstallTrap, StartLoad, NoteLoadPid, BaselineOver, Stamp, InjectRefused, Flip,
     FlipFails, Pause, StampPaused, StampFails, InjectionOver, Unflip, UnflipFails,
     CloseWindow, CleanupOver,
     AwaitCollector, DisarmOk, DisarmFails, StopLoad, Undo
<1>8. CASE Interrupt \/ Die \/ Wedge \/ Rest \/ UNCHANGED vars
  BY <1>6, <1>8 DEF Interrupt, Die, Wedge, Rest, vars
<1>9. ASSUME NEW a \in Attempts, CollectorKilled(a) \/ LoadOver(a)
      PROVE  UNCHANGED bundle
  BY <1>9 DEF CollectorKilled, LoadOver
<1> QED
  BY <1>5, <1>6, <1>7, <1>8, <1>9 DEF Next

(* The verdict of a patient campaign is about what stays on the disk.      *)
THEOREM JudgedStays == ASSUME Patient PROVE Spec => JudgedIsFinal
<1> DEFINE Final == \A r \in Runs :
             bundle[r].gate # "none" => bundle'[r] \in {bundle[r], NoBundle}
<1>1. TraceInv /\ [Next]_vars => [Final]_vars
  BY JudgedStep
<1> HIDE DEF Final
<1>2. Spec => [][Final]_vars
  BY <1>1, TraceAlways, PTL DEF Spec
<1> QED
  BY <1>2 DEF Final, JudgedIsFinal
=============================================================================
