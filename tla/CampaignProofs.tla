--------------------------- MODULE CampaignProofs ---------------------------
(***************************************************************************)
(* Proofs about Campaign, for any matrix, any numbers of attempts and      *)
(* kills, and any upsets: the state is well typed, what a collected run    *)
(* left stays together on one of the disks and is never collected again,   *)
(* its verdict reaches its line, and a campaign that is not killed has a   *)
(* line for every run and no half copy in its archive.                     *)
(***************************************************************************)
EXTENDS Campaign, TLAPS

Safe(r) ==
    Collected(r) =>
        WholeIn(local[r], collected[r]) \/ WholeIn(archive[r], collected[r])

(* Where the evidence of the run at hand is, step by step.                 *)
AtHand ==
    /\ pc \in {"tracing", "ended", "harvested"} => ~Collected(run)
    /\ pc \in {"judged", "packed", "copying", "discarding"} =>
           (Collected(run) => WholeIn(local[run], collected[run]))
    /\ pc = "copying" =>
           \A p \in Parts \ todo : Has(local[run], p) => archive[run][p] = local[run][p]
    /\ pc = "removing" => (Collected(run) => WholeIn(archive[run], collected[run]))

Kept == TypeOK /\ NothingLost /\ AtHand
-----------------------------------------------------------------------------
(* The places of the driver, as the step lemmas need them. *)
LEMMA PCsListed ==
    /\ {"check", "tracing", "ended", "harvested", "judged", "packed"} \subseteq PCs
    /\ {"copying", "removing", "discarding", "row", "down", "done"} \subseteq PCs
BY DEF PCs

(* What the run writes into its directory keeps the rest of it. *)
LEMMA Writing ==
    ASSUME TypeOK, NEW parts \in SUBSET Parts, WriteLocal(parts)
    PROVE  /\ local' \in [Matrix -> Copies]
           /\ \A r \in Matrix \ {run} : local'[r] = local[r]
           /\ \A p \in Parts : local'[run][p] = IF p \in parts THEN attempt ELSE local[run][p]
<1>1. run \in Matrix /\ local \in [Matrix -> Copies] /\ attempt \in 0 .. MaxAttempts
  BY DEF TypeOK
<1> DEFINE new == [p \in Parts |-> IF p \in parts THEN attempt ELSE local[run][p]]
<1>2. local' = [local EXCEPT ![run] = new]
  BY <1>1 DEF WriteLocal
<1>3. new \in Copies
  BY <1>1 DEF Copies
<1>4. \A p \in Parts : new[p] = IF p \in parts THEN attempt ELSE local[run][p]
  OBVIOUS
<1> HIDE DEF new
<1> QED
  BY <1>1, <1>2, <1>3, <1>4

(* One part of a copy is changed. *)
LEMMA PartChanges ==
    ASSUME NEW f \in [Matrix -> Copies], NEW r \in Matrix, NEW p \in Parts,
           NEW v \in 0 .. MaxAttempts
    PROVE  LET g == [f EXCEPT ![r][p] = v] IN
           /\ g \in [Matrix -> Copies] /\ g[r][p] = v
           /\ \A s \in Matrix \ {r} : g[s] = f[s]
           /\ \A q \in Parts \ {p} : g[r][q] = f[r][q]
<1> DEFINE new == [f[r] EXCEPT ![p] = v]
<1>1. new \in Copies /\ new[p] = v /\ \A q \in Parts \ {p} : new[q] = f[r][q]
  BY DEF Copies
<1>2. [f EXCEPT ![r][p] = v] = [f EXCEPT ![r] = new]
  OBVIOUS
<1> HIDE DEF new
<1> QED
  BY <1>1, <1>2

LEMMA Quoted == ASSUME TypeOK PROVE QuotedVerdict \in 0 .. MaxAttempts
BY DEF TypeOK, QuotedVerdict, Has, Copies, Parts

LEMMA Turning ==
    ASSUME TypeOK, NextEntry
    PROVE  pc' \in {"done", "check"} /\ run' \in Matrix
<1>1. CASE run = NRuns
  BY <1>1 DEF NextEntry, TypeOK
<1>2. CASE run # NRuns
  BY <1>2, SizeAssumption DEF NextEntry, TypeOK, Matrix
<1> QED
  BY <1>1, <1>2

-----------------------------------------------------------------------------
LEMMA TypeInit == Init => TypeOK
<1>1. Nothing \in Copies
  BY SizeAssumption DEF Nothing, Copies
<1>2. 1 \in Matrix /\ 0 \in 0 .. MaxAttempts /\ 0 \in 0 .. MaxCrashes
  BY SizeAssumption DEF Matrix
<1> QED
  BY <1>1, <1>2, PCsListed DEF Init, TypeOK

(* One step of the driver or of its copies. *)
LEMMA TypeStep == ASSUME TypeOK, [Next]_vars PROVE TypeOK'
<1>1. CASE UNCHANGED vars
  BY <1>1 DEF TypeOK, vars
<1>2. CASE Skip
  BY <1>2, Turning, PCsListed DEF Skip, TypeOK
<1>3. CASE BeginRun
  <2>1. Nothing \in Copies
    BY SizeAssumption DEF Nothing, Copies
  <2>2. attempt' \in 0 .. MaxAttempts
    BY <1>3, SizeAssumption DEF BeginRun, TypeOK
  <2> QED
    BY <1>3, <2>1, <2>2, PCsListed DEF BeginRun, GoTo, TypeOK
<1>4. CASE ScenarioFails \/ CollectorDies \/ KeepLocal
  BY <1>4, PCsListed DEF ScenarioFails, CollectorDies, KeepLocal, GoTo, TypeOK
<1>5. CASE WindowOver \/ Harvest \/ Package
  <2>1. \E parts \in SUBSET Parts : WriteLocal(parts)
    BY <1>5 DEF WindowOver, Harvest, Package, Parts
  <2>2. local' \in [Matrix -> Copies]
    BY <2>1, Writing
  <2> QED
    BY <1>5, <2>2, PCsListed DEF WindowOver, Harvest, Package, GoTo, TypeOK
<1>6. CASE Judge
  <2>1. {"verdict"} \in SUBSET Parts
    BY DEF Parts
  <2>2. local' \in [Matrix -> Copies]
    BY <1>6, <2>1, Writing DEF Judge, TypeOK
  <2>3. collected' \in [Matrix -> Copies]
    BY <1>6 DEF Judge, TypeOK
  <2> QED
    BY <1>6, <2>2, <2>3, PCsListed DEF Judge, GoTo, TypeOK
<1>7. CASE BeginCopy \/ RemoveOriginal \/ DiscardCopy
  BY <1>7, PCsListed DEF BeginCopy, RemoveOriginal, DiscardCopy, GoTo, TypeOK
<1>8. CASE CopyPart
  <2>1. PICK p \in todo : archive' = [archive EXCEPT ![run][p] = local[run][p]]
                          /\ todo' = todo \ {p}
    BY <1>8 DEF CopyPart
  <2>2. p \in Parts /\ local[run][p] \in 0 .. MaxAttempts
    BY DEF TypeOK, Copies
  <2>3. archive' \in [Matrix -> Copies]
    BY <2>1, <2>2, PartChanges DEF TypeOK
  <2> QED
    BY <1>8, <2>1, <2>3 DEF CopyPart, TypeOK
<1>9. CASE RemovePart
  <2>1. PICK p \in todo :
          /\ todo' = todo \ {p}
          /\ \/ local' = [local EXCEPT ![run][p] = 0] /\ UNCHANGED archive
             \/ archive' = [archive EXCEPT ![run][p] = 0] /\ UNCHANGED local
    BY <1>9 DEF RemovePart
  <2>2. p \in Parts /\ 0 \in 0 .. MaxAttempts
    BY SizeAssumption DEF TypeOK
  <2>3. /\ run \in Matrix /\ local \in [Matrix -> Copies] /\ archive \in [Matrix -> Copies]
        /\ [local EXCEPT ![run][p] = 0] \in [Matrix -> Copies]
        /\ [archive EXCEPT ![run][p] = 0] \in [Matrix -> Copies]
    BY <2>2, PartChanges DEF TypeOK
  <2>4. local' \in [Matrix -> Copies] /\ archive' \in [Matrix -> Copies]
    BY <2>1, <2>3
  <2> QED
    BY <1>9, <2>1, <2>4 DEF RemovePart, TypeOK
<1>10. CASE Removed
  BY <1>10, PCsListed DEF Removed, TypeOK
<1>11. CASE WriteRow
  <2> DEFINE line == [attempt |-> attempt, verdict |-> QuotedVerdict]
  <2>1. line \in Rows
    BY Quoted DEF Rows, TypeOK
  <2>2. rows' = [rows EXCEPT ![run] = Append(@, line)]
    BY <1>11 DEF WriteRow
  <2> HIDE DEF line
  <2>3. rows' \in [Matrix -> Seq(Rows)]
    BY <2>1, <2>2 DEF TypeOK
  <2> QED
    BY <1>11, <2>3, Turning, PCsListed DEF WriteRow, TypeOK
<1>12. CASE Crash
  <2>1. {"trace", "end", "harvest"} \in SUBSET Parts
    BY DEF Parts
  <2>2. local' \in [Matrix -> Copies]
    BY <1>12, <2>1, Writing DEF Crash, TypeOK
  <2>3. crashes' \in 0 .. MaxCrashes
    BY <1>12, SizeAssumption DEF Crash, TypeOK
  <2> QED
    BY <1>12, <2>2, <2>3, PCsListed DEF Crash, TypeOK
<1>13. CASE Resume
  <2>1. 1 \in Matrix
    BY SizeAssumption DEF Matrix
  <2> QED
    BY <1>13, <2>1, PCsListed DEF Resume, GoTo, TypeOK
<1> QED
  BY <1>1, <1>2, <1>3, <1>4, <1>5, <1>6, <1>7, <1>8, <1>9, <1>10, <1>11, <1>12, <1>13
     DEF Next, Step, Rest

(* The state is well typed, whatever the matrix and however often the      *)
(* driver is killed.                                                       *)
THEOREM TypeCorrect == Spec => []TypeOK
BY TypeInit, TypeStep, PTL DEF Spec
-----------------------------------------------------------------------------
LEMMA EvidenceIsParts == Evidence \subseteq Parts /\ "end" \in Evidence
BY DEF Evidence, Parts

(* A run that was collected is skipped from then on. *)
LEMMA CollectedIsSkipped ==
    ASSUME NothingLost, NEW r \in Matrix, ~AlreadyCollected(r)
    PROVE  ~Collected(r)
BY EvidenceIsParts DEF NothingLost, AlreadyCollected, Collected, WholeIn, Has

(* The other runs are left alone. *)
LEMMA OthersSafe ==
    ASSUME TypeOK, NothingLost,
           \A r \in Matrix \ {run} : /\ local'[r] = local[r] /\ archive'[r] = archive[r]
                                     /\ collected'[r] = collected[r],
           Safe(run)'
    PROVE  run' = run => NothingLost'
<1> SUFFICES ASSUME run' = run, NEW r \in Matrix PROVE Safe(r)'
  BY DEF NothingLost, Safe
<1>1. CASE r = run
  BY <1>1
<1>2. CASE r # run
  BY <1>2 DEF NothingLost, Safe, Collected, WholeIn
<1> QED
  BY <1>1, <1>2

(* Between the runs nothing has to be said about the one at hand. *)
Between == {"check", "row", "down", "done"}
LEMMA BetweenRuns == ASSUME pc' \in Between PROVE AtHand'
BY DEF Between, AtHand

(* The disks and what was collected stay as they are. *)
Still == UNCHANGED <<local, archive, collected>>
LEMMA StillSafe == ASSUME NothingLost, Still PROVE NothingLost'
BY DEF NothingLost, Collected, WholeIn, Still

LEMMA KeptInit == Init => NothingLost /\ AtHand
<1>1. ~Has(Nothing, "end")
  BY DEF Has, Nothing, Parts
<1> QED
  BY <1>1 DEF Init, NothingLost, AtHand, Collected

(* The steps in which the run at hand is made. *)
LEMMA KeptMaking ==
    ASSUME Kept, BeginRun \/ WindowOver \/ CollectorDies \/ Harvest \/ Judge \/ Package
    PROVE  NothingLost' /\ AtHand'
<1>1. run \in Matrix /\ TypeOK /\ NothingLost /\ AtHand /\ run' = run
  BY DEF Kept, TypeOK, BeginRun, WindowOver, CollectorDies, Harvest, Judge, Package
<1>2. CASE BeginRun
  <2>1. ~Collected(run) /\ collected' = collected /\ archive' = archive
    BY <1>1, <1>2, CollectedIsSkipped DEF BeginRun
  <2>2. /\ \A r \in Matrix \ {run} : local'[r] = local[r]
        /\ local'[run] = Nothing
    BY <1>1, <1>2 DEF BeginRun, TypeOK
  <2>3. NothingLost'
    BY <1>1, <2>1, <2>2, OthersSafe DEF Safe, Collected
  <2>4. pc' = "tracing"
    BY <1>2 DEF BeginRun, GoTo
  <2> QED
    BY <1>1, <2>1, <2>3, <2>4 DEF AtHand, Collected
<1>3. CASE WindowOver
  <2>1. /\ pc = "tracing" /\ pc' = "ended" /\ WriteLocal({"trace", "end"})
        /\ UNCHANGED <<attempt, archive, collected>>
    BY <1>3 DEF WindowOver, GoTo
  <2>2. {"trace", "end"} \in SUBSET Parts
    BY DEF Parts
  <2>3. \A r \in Matrix \ {run} : local'[r] = local[r]
    BY <1>1, <2>1, <2>2, Writing
  <2>4. ~Collected(run)
    BY <1>1, <2>1 DEF AtHand
  <2>5. NothingLost'
    BY <1>1, <2>1, <2>3, <2>4, OthersSafe DEF Safe, Collected
  <2> QED
    BY <1>1, <2>1, <2>4, <2>5 DEF AtHand, Collected
<1>4. CASE CollectorDies
  <2>1. pc \in {"tracing", "ended"} /\ pc' = "harvested" /\ Still
    BY <1>4 DEF CollectorDies, Still
  <2>2. ~Collected(run)
    BY <1>1, <2>1 DEF AtHand
  <2>3. ~Collected(run)'
    BY <1>1, <2>1, <2>2 DEF Still, Collected
  <2> QED
    BY <1>1, <2>1, <2>3, StillSafe DEF AtHand
<1>5. CASE Harvest
  <2>1. /\ pc = "ended" /\ pc' = "harvested" /\ WriteLocal({"harvest"})
        /\ UNCHANGED <<attempt, archive, collected>>
    BY <1>5 DEF Harvest, GoTo
  <2>2. {"harvest"} \in SUBSET Parts
    BY DEF Parts
  <2>3. ~Collected(run)
    BY <1>1, <2>1 DEF AtHand
  <2>4. \A r \in Matrix \ {run} : local'[r] = local[r]
    BY <1>1, <2>1, <2>2, Writing
  <2>5. NothingLost'
    BY <1>1, <2>1, <2>3, <2>4, OthersSafe DEF Safe, Collected
  <2> QED
    BY <1>1, <2>1, <2>3, <2>5 DEF AtHand, Collected
<1>6. CASE Judge
  <2>1. pc = "harvested" /\ pc' = "judged" /\ UNCHANGED <<attempt, archive>>
        /\ collected' = [collected EXCEPT ![run] = IF Has(local[run], "end") THEN local[run] ELSE @]
    BY <1>6 DEF Judge, GoTo
  <2>2. {"verdict"} \in SUBSET Parts /\ Evidence \subseteq Parts \ {"verdict"}
    BY DEF Parts, Evidence
  <2>3. /\ \A r \in Matrix \ {run} : local'[r] = local[r]
        /\ \A p \in Evidence : local'[run][p] = local[run][p]
    BY <1>1, <1>6, <2>2, Writing DEF Judge
  <2>4. ~Collected(run)
    BY <1>1, <2>1 DEF AtHand
  <2>5. /\ \A r \in Matrix \ {run} : collected'[r] = collected[r]
        /\ collected'[run] = IF Has(local[run], "end") THEN local[run] ELSE collected[run]
    BY <1>1, <2>1 DEF TypeOK
  <2>6. Collected(run)' => WholeIn(local'[run], collected'[run])
    BY <1>1, <2>3, <2>4, <2>5 DEF WholeIn, Collected
  <2>7. NothingLost'
    BY <1>1, <2>1, <2>3, <2>5, <2>6, OthersSafe DEF Safe
  <2> QED
    BY <1>1, <2>1, <2>6, <2>7 DEF AtHand, Collected
<1>7. CASE Package
  <2>1. /\ pc = "judged" /\ pc' = "packed" /\ WriteLocal({"manifest"})
        /\ UNCHANGED <<archive, collected>>
    BY <1>7 DEF Package, GoTo
  <2>2. {"manifest"} \in SUBSET Parts /\ Evidence \subseteq Parts \ {"manifest"}
    BY DEF Parts, Evidence
  <2>3. /\ \A r \in Matrix \ {run} : local'[r] = local[r]
        /\ \A p \in Evidence : local'[run][p] = local[run][p]
    BY <1>1, <2>1, <2>2, Writing
  <2>4. Collected(run) => WholeIn(local[run], collected[run])
    BY <1>1, <2>1 DEF AtHand
  <2>5. Collected(run)' => WholeIn(local'[run], collected'[run])
    BY <1>1, <2>1, <2>3, <2>4 DEF WholeIn, Collected
  <2>6. NothingLost'
    BY <1>1, <2>1, <2>3, <2>5, OthersSafe DEF Safe
  <2> QED
    BY <1>1, <2>1, <2>5, <2>6 DEF AtHand, Collected
<1> QED
  BY <1>2, <1>3, <1>4, <1>5, <1>6, <1>7
(* The steps in which its copies come and go. *)
LEMMA KeptMoving ==
    ASSUME Kept, BeginCopy \/ CopyPart \/ RemoveOriginal \/ DiscardCopy \/ RemovePart
    PROVE  NothingLost' /\ AtHand'
<1>1. /\ run \in Matrix /\ TypeOK /\ NothingLost /\ AtHand
      /\ run' = run /\ collected' = collected
  BY DEF Kept, TypeOK, BeginCopy, CopyPart, RemoveOriginal, DiscardCopy, RemovePart
<1>2. CASE BeginCopy
  <2>1. /\ pc = "packed" /\ pc' = "copying" /\ Still
        /\ todo' = {p \in Parts : Has(local[run], p)}
    BY <1>2 DEF BeginCopy, GoTo, Still
  <2>2. Collected(run) => WholeIn(local[run], collected[run])
    BY <1>1, <2>1 DEF AtHand
  <2>3. \A p \in Parts \ todo' : ~Has(local'[run'], p)
    BY <1>1, <2>1 DEF Still
  <2> QED
    BY <1>1, <2>1, <2>2, <2>3, StillSafe DEF AtHand, Still, Collected
<1>3. CASE CopyPart
  <2>1. PICK p \in todo : archive' = [archive EXCEPT ![run][p] = local[run][p]]
                          /\ todo' = todo \ {p}
    BY <1>3 DEF CopyPart
  <2>2. pc = "copying" /\ pc' = pc /\ local' = local
    BY <1>3 DEF CopyPart
  <2>3. p \in Parts /\ local[run][p] \in 0 .. MaxAttempts /\ archive \in [Matrix -> Copies]
    BY <1>1 DEF TypeOK, Copies
  <2>4. /\ \A r \in Matrix \ {run} : archive'[r] = archive[r]
        /\ archive'[run][p] = local[run][p]
        /\ \A q \in Parts \ {p} : archive'[run][q] = archive[run][q]
    BY <1>1, <2>1, <2>3, PartChanges
  <2>5. /\ Collected(run) => WholeIn(local[run], collected[run])
        /\ \A q \in Parts \ todo : Has(local[run], q) => archive[run][q] = local[run][q]
    BY <1>1, <2>2 DEF AtHand
  <2>6. \A q \in Parts \ todo' : Has(local[run], q) => archive'[run][q] = local[run][q]
    BY <2>1, <2>4, <2>5
  <2>7. Safe(run)'
    BY <1>1, <2>2, <2>5 DEF Safe, Collected
  <2>8. NothingLost'
    BY <1>1, <2>2, <2>4, <2>7, OthersSafe
  <2> QED
    BY <1>1, <2>2, <2>5, <2>6, <2>8 DEF AtHand, Collected
<1>4. CASE RemoveOriginal
  <2>1. pc = "copying" /\ pc' = "removing" /\ Still /\ CopyVerified
    BY <1>4 DEF RemoveOriginal, GoTo, Still
  <2>2. /\ Collected(run) => WholeIn(local[run], collected[run])
        /\ \A p \in Parts : Has(local[run], p) => archive[run][p] = local[run][p]
    BY <1>1, <2>1 DEF AtHand, CopyVerified
  <2>3. Collected(run) => WholeIn(archive[run], collected[run])
    BY <2>2, EvidenceIsParts DEF WholeIn, Has
  <2> QED
    BY <1>1, <2>1, <2>3, StillSafe DEF AtHand, Still, Collected
<1>5. CASE DiscardCopy
  <2>1. pc = "copying" /\ pc' = "discarding" /\ Still
    BY <1>5 DEF DiscardCopy, GoTo, Still
  <2>2. Collected(run) => WholeIn(local[run], collected[run])
    BY <1>1, <2>1 DEF AtHand
  <2> QED
    BY <1>1, <2>1, <2>2, StillSafe DEF AtHand, Still, Collected
<1>6. CASE RemovePart
  <2>1. /\ pc \in {"removing", "discarding"} /\ pc' = pc /\ 0 \in 0 .. MaxAttempts
        /\ local \in [Matrix -> Copies] /\ archive \in [Matrix -> Copies] /\ todo \subseteq Parts
    BY <1>1, <1>6, SizeAssumption DEF RemovePart, TypeOK
  <2>2. CASE pc = "removing"
    <3>1. PICK p \in Parts : local' = [local EXCEPT ![run][p] = 0] /\ archive' = archive
      BY <1>6, <2>1, <2>2 DEF RemovePart
    <3>2. \A r \in Matrix \ {run} : local'[r] = local[r]
      BY <1>1, <2>1, <3>1, PartChanges
    <3>3. Collected(run) => WholeIn(archive[run], collected[run])
      BY <1>1, <2>2 DEF AtHand
    <3>4. Safe(run)'
      BY <1>1, <3>1, <3>3 DEF Safe, Collected
    <3>5. NothingLost'
      BY <1>1, <3>1, <3>2, <3>4, OthersSafe
    <3> QED
      BY <1>1, <2>1, <2>2, <3>1, <3>3, <3>5 DEF AtHand, Collected
  <2>3. CASE pc = "discarding"
    <3>1. PICK p \in Parts : archive' = [archive EXCEPT ![run][p] = 0] /\ local' = local
      BY <1>6, <2>1, <2>3 DEF RemovePart
    <3>2. \A r \in Matrix \ {run} : archive'[r] = archive[r]
      BY <1>1, <2>1, <3>1, PartChanges
    <3>3. Collected(run) => WholeIn(local[run], collected[run])
      BY <1>1, <2>3 DEF AtHand
    <3>4. Safe(run)'
      BY <1>1, <3>1, <3>3 DEF Safe, Collected
    <3>5. NothingLost'
      BY <1>1, <3>1, <3>2, <3>4, OthersSafe
    <3> QED
      BY <1>1, <2>1, <2>3, <3>1, <3>3, <3>5 DEF AtHand, Collected
  <2> QED
    BY <2>1, <2>2, <2>3
<1> QED
  BY <1>2, <1>3, <1>4, <1>5, <1>6

(* A kill, with or without a collector that lives on. *)
LEMMA KeptCrash == ASSUME Kept, Crash PROVE NothingLost' /\ AtHand'
<1>1. /\ run \in Matrix /\ TypeOK /\ NothingLost /\ AtHand
      /\ run' = run /\ UNCHANGED <<archive, collected>> /\ pc' = "down"
  BY DEF Kept, TypeOK, Crash
<1>2. CASE UNCHANGED local
  BY <1>1, <1>2, StillSafe, BetweenRuns DEF Still, Between
<1>3. CASE pc \in {"tracing", "ended"} /\ WriteLocal({"trace", "end", "harvest"})
  <2>1. {"trace", "end", "harvest"} \in SUBSET Parts
    BY DEF Parts
  <2>2. \A r \in Matrix \ {run} : local'[r] = local[r]
    BY <1>1, <1>3, <2>1, Writing
  <2>3. ~Collected(run)
    BY <1>1, <1>3 DEF AtHand
  <2>4. Safe(run)'
    BY <1>1, <2>3 DEF Safe, Collected
  <2> QED
    BY <1>1, <2>2, <2>4, OthersSafe, BetweenRuns DEF Between
<1> QED
  BY <1>2, <1>3 DEF Crash

LEMMA KeptStep == ASSUME Kept, [Next]_vars PROVE Kept'
<1>1. TypeOK' /\ TypeOK /\ NothingLost /\ AtHand
  BY TypeStep DEF Kept
<1> SUFFICES NothingLost' /\ AtHand'
  BY <1>1 DEF Kept
<1>2. CASE UNCHANGED vars
  BY <1>1, <1>2, StillSafe DEF vars, Still, AtHand, Collected
<1>3. CASE Skip \/ WriteRow \/ ScenarioFails \/ KeepLocal \/ Removed \/ Resume
  <2>1. Still /\ pc' \in Between
    BY <1>1, <1>3, Turning DEF Skip, WriteRow, ScenarioFails, KeepLocal, Removed, Resume, GoTo,
                               Still, Between
  <2> QED
    BY <1>1, <2>1, StillSafe, BetweenRuns
<1> QED
  BY <1>2, <1>3, KeptMaking, KeptMoving, KeptCrash DEF Next, Step, Rest

(* What a collected run left when it was judged, with its harvest or       *)
(* without, stays together on one of the two disks, whenever the driver is *)
(* killed and however the copy fails (campaign_finish_run.sh 54-68).       *)
THEOREM NothingIsLost == Spec => []NothingLost
<1>1. Init => Kept
  BY TypeInit, KeptInit DEF Kept
<1>2. Kept => NothingLost
  BY DEF Kept
<1> QED
  BY <1>1, <1>2, KeptStep, PTL DEF Spec

(* The resume test keeps a collected run from being collected again, on    *)
(* whichever disk it is (run_campaign.sh 57-61).                           *)
THEOREM CollectedAtMostOnce == Spec => CollectedOnce
<1> DEFINE Once == [\A r \in Matrix : Collected(r) => collected'[r] = collected[r]]_vars
<1>1. Init => Kept
  BY TypeInit, KeptInit DEF Kept
<1>2. ASSUME Kept, [Next]_vars PROVE Once
  <2>1. CASE Judge
    <3>1. run \in Matrix /\ collected \in [Matrix -> Copies] /\ ~Collected(run)
      BY <1>2, <2>1 DEF Kept, TypeOK, AtHand, Judge, GoTo
    <3>2. \A r \in Matrix \ {run} : collected'[r] = collected[r]
      BY <2>1, <3>1 DEF Judge
    <3> QED
      BY <3>1, <3>2
  <2>2. CASE UNCHANGED collected
    BY <2>2
  <2> QED
    BY <1>2, <2>1, <2>2 DEF Next, Step, Rest, vars, Skip, BeginRun, ScenarioFails, WindowOver,
       CollectorDies, Harvest, Package, KeepLocal, BeginCopy, CopyPart, RemoveOriginal, DiscardCopy,
       RemovePart, Removed, WriteRow, Resume, Crash
<1> QED
  BY <1>1, <1>2, KeptStep, PTL DEF Spec, CollectedOnce
-----------------------------------------------------------------------------
(* From the start of run_scenario.sh to the run's line. *)
Making == {"tracing", "ended", "harvested", "judged", "packed", "copying", "removing",
           "discarding", "row"}

(* Nothing is numbered above the attempt that is on or was the last one,   *)
(* and while it is on no line quotes it and its directory has no verdict   *)
(* but its own.                                                            *)
Numbered ==
    /\ \A r \in Matrix : local[r]["verdict"] <= attempt /\ archive[r]["verdict"] <= attempt
    /\ \A r \in Matrix : \A i \in DOMAIN rows[r] :
           /\ rows[r][i].attempt # 0 /\ rows[r][i].attempt <= attempt
           /\ pc \in Making => rows[r][i].attempt # attempt
    /\ pc \in Making => attempt # 0 /\ local[run]["verdict"] \in {0, attempt}

Quotable == TypeOK /\ Numbered /\ VerdictReachesRow

(* The steps that neither number an attempt nor judge it nor quote it: a   *)
(* verdict stays, goes, or is copied to the archive.                       *)
Quiet ==
    /\ UNCHANGED <<attempt, rows>>
    /\ pc' \in Making => pc \in Making /\ run' = run
    /\ \A r \in Matrix :
         /\ local'[r]["verdict"] \in {0, local[r]["verdict"]}
         /\ archive'[r]["verdict"] \in {0, local[r]["verdict"], archive[r]["verdict"]}

LEMMA PartsListed == {"trace", "end", "harvest", "verdict", "manifest"} \subseteq Parts
BY DEF Parts

LEMMA QuietStep ==
    ASSUME TypeOK, [Next]_vars, ~BeginRun, ~Judge, ~WriteRow
    PROVE  Quiet
<1>1. /\ run \in Matrix /\ local \in [Matrix -> Copies] /\ archive \in [Matrix -> Copies]
      /\ todo \subseteq Parts /\ attempt \in 0 .. MaxAttempts
  BY DEF TypeOK
<1>2. CASE UNCHANGED <<local, archive>>
  <2>1. UNCHANGED <<attempt, rows>>
    BY DEF Next, Step, Rest, vars, Skip, ScenarioFails, WindowOver, CollectorDies, Harvest,
           Package, KeepLocal, BeginCopy, CopyPart, RemoveOriginal, DiscardCopy, RemovePart,
           Removed, Resume, Crash
  <2>2. pc' \in Making => pc \in Making /\ run' = run
    BY Turning DEF Making, GoTo, Next, Step, Rest, vars, Skip, ScenarioFails, WindowOver,
           CollectorDies, Harvest, Package, KeepLocal, BeginCopy, CopyPart, RemoveOriginal,
           DiscardCopy, RemovePart, Removed, Resume, Crash
  <2> QED
    BY <1>2, <2>1, <2>2 DEF Quiet
<1>3. ASSUME NEW parts \in SUBSET (Parts \ {"verdict"}), WriteLocal(parts), archive' = archive,
             UNCHANGED <<attempt, rows, run>>, pc' \in Making => pc \in Making
      PROVE  Quiet
  <2>1. parts \in SUBSET Parts /\ "verdict" \in Parts /\ "verdict" \notin parts
    BY <1>3, PartsListed
  <2>2. /\ \A r \in Matrix \ {run} : local'[r] = local[r]
        /\ local'[run]["verdict"] = local[run]["verdict"]
    BY <1>3, <2>1, Writing
  <2> QED
    BY <1>3, <2>2 DEF Quiet
<1>4. CASE WindowOver \/ Harvest \/ Package
  <2>1. PICK parts \in {{"trace", "end"}, {"harvest"}, {"manifest"}} : WriteLocal(parts)
    BY <1>4 DEF WindowOver, Harvest, Package
  <2>2. parts \in SUBSET (Parts \ {"verdict"})
    BY <2>1, PartsListed
  <2> QED
    BY <1>3, <1>4, <2>1, <2>2 DEF WindowOver, Harvest, Package, GoTo, Making
<1>5. CASE Crash /\ WriteLocal({"trace", "end", "harvest"})
  <2>1. {"trace", "end", "harvest"} \in SUBSET (Parts \ {"verdict"})
    BY PartsListed
  <2> QED
    BY <1>3, <1>5, <2>1 DEF Crash, Making
<1>6. CASE CopyPart
  <2>1. PICK p \in todo : archive' = [archive EXCEPT ![run][p] = local[run][p]]
    BY <1>6 DEF CopyPart
  <2>2. p \in Parts /\ local[run][p] \in 0 .. MaxAttempts
    BY <1>1 DEF Copies
  <2>3. /\ \A r \in Matrix \ {run} : archive'[r] = archive[r]
        /\ archive'[run][p] = local[run][p]
        /\ \A q \in Parts \ {p} : archive'[run][q] = archive[run][q]
    BY <1>1, <2>1, <2>2, PartChanges
  <2>4. archive'[run]["verdict"] \in {local[run]["verdict"], archive[run]["verdict"]}
    BY <2>3, PartsListed
  <2> QED
    BY <1>6, <2>3, <2>4 DEF CopyPart, Quiet
<1>7. CASE RemovePart
  <2>1. PICK p \in Parts :
          \/ local' = [local EXCEPT ![run][p] = 0] /\ archive' = archive
          \/ archive' = [archive EXCEPT ![run][p] = 0] /\ local' = local
    BY <1>1, <1>7 DEF RemovePart
  <2>2. 0 \in 0 .. MaxAttempts
    BY SizeAssumption
  <2>3. CASE local' = [local EXCEPT ![run][p] = 0] /\ archive' = archive
    <3>1. /\ \A r \in Matrix \ {run} : local'[r] = local[r]
          /\ local'[run][p] = 0
          /\ \A q \in Parts \ {p} : local'[run][q] = local[run][q]
      BY <1>1, <2>2, <2>3, PartChanges
    <3>2. local'[run]["verdict"] \in {0, local[run]["verdict"]}
      BY <3>1, PartsListed
    <3> QED
      BY <1>7, <2>3, <3>1, <3>2 DEF RemovePart, Quiet
  <2>4. CASE archive' = [archive EXCEPT ![run][p] = 0] /\ local' = local
    <3>1. /\ \A r \in Matrix \ {run} : archive'[r] = archive[r]
          /\ archive'[run][p] = 0
          /\ \A q \in Parts \ {p} : archive'[run][q] = archive[run][q]
      BY <1>1, <2>2, <2>4, PartChanges
    <3>2. archive'[run]["verdict"] \in {0, archive[run]["verdict"]}
      BY <3>1, PartsListed
    <3> QED
      BY <1>7, <2>4, <3>1, <3>2 DEF RemovePart, Quiet
  <2> QED
    BY <2>1, <2>3, <2>4
<1> QED
  BY <1>2, <1>4, <1>5, <1>6, <1>7 DEF Next, Step, Rest, vars, Skip, ScenarioFails, CollectorDies,
     KeepLocal, BeginCopy, RemoveOriginal, DiscardCopy, Removed, Resume, Crash

LEMMA VerdictsTyped ==
    ASSUME TypeOK, NEW r \in Matrix
    PROVE  /\ local[r]["verdict"] \in Nat /\ archive[r]["verdict"] \in Nat
           /\ attempt \in Nat
BY SizeAssumption, PartsListed DEF TypeOK, Copies

LEMMA QuotableQuiet == ASSUME Quotable, TypeOK', Quiet PROVE Numbered' /\ VerdictReachesRow'
<1>1. TypeOK /\ Numbered /\ VerdictReachesRow /\ run \in Matrix
  BY DEF Quotable, TypeOK
<1>2. \A r \in Matrix : local'[r]["verdict"] <= attempt' /\ archive'[r]["verdict"] <= attempt'
  BY <1>1, VerdictsTyped DEF Numbered, Quiet
<1>3. ASSUME NEW r \in Matrix, NEW i \in DOMAIN rows'[r]
      PROVE  /\ rows'[r][i].attempt # 0 /\ rows'[r][i].attempt <= attempt'
             /\ pc' \in Making => rows'[r][i].attempt # attempt'
  BY <1>1, <1>3 DEF Numbered, Quiet
<1>4. pc' \in Making => attempt' # 0 /\ local'[run']["verdict"] \in {0, attempt'}
  BY <1>1 DEF Numbered, Quiet
<1>5. VerdictReachesRow'
  <2> SUFFICES ASSUME NEW r \in Matrix, NEW i \in DOMAIN rows[r],
                      NEW copy \in {local'[r], archive'[r]},
                      copy["verdict"] = rows[r][i].attempt
               PROVE  rows[r][i].verdict = rows[r][i].attempt
    BY <1>1 DEF VerdictReachesRow, Quiet
  <2>1. copy["verdict"] # 0
    BY <1>1 DEF Numbered
  <2>2. copy["verdict"] \in {local[r]["verdict"], archive[r]["verdict"]}
    BY <2>1 DEF Quiet
  <2> QED
    BY <1>1, <2>2 DEF VerdictReachesRow
<1> QED
  BY <1>2, <1>3, <1>4, <1>5 DEF Numbered

LEMMA QuotableStep == ASSUME Quotable, [Next]_vars PROVE Quotable'
<1>1. /\ TypeOK /\ Numbered /\ VerdictReachesRow /\ run \in Matrix /\ TypeOK'
      /\ rows \in [Matrix -> Seq(Rows)] /\ attempt \in Nat
  BY TypeStep, SizeAssumption DEF Quotable, TypeOK
<1> SUFFICES Numbered' /\ VerdictReachesRow'
  BY <1>1 DEF Quotable
<1>2. CASE BeginRun
  <2>1. /\ UNCHANGED <<run, archive, rows>> /\ attempt' = attempt + 1
        /\ local'[run]["verdict"] = 0
        /\ \A r \in Matrix \ {run} : local'[r] = local[r]
    BY <1>1, <1>2, PartsListed DEF BeginRun, TypeOK, Nothing
  <2>2. \A r \in Matrix : local'[r]["verdict"] \in {0, local[r]["verdict"]}
    BY <2>1
  <2>3. \A r \in Matrix : local'[r]["verdict"] <= attempt' /\ archive'[r]["verdict"] <= attempt'
    BY <1>1, <2>1, <2>2, VerdictsTyped DEF Numbered
  <2>4. ASSUME NEW r \in Matrix, NEW i \in DOMAIN rows[r]
        PROVE  rows[r][i].attempt # 0 /\ rows[r][i].attempt < attempt'
    <3>1. rows[r][i] \in Rows
      BY <1>1
    <3>2. rows[r][i].attempt \in Nat
      BY <3>1, SizeAssumption DEF Rows
    <3> QED
      BY <1>1, <2>1, <3>2 DEF Numbered
  <2>5. Numbered'
    <3>1. \A r \in Matrix : \A i \in DOMAIN rows'[r] :
             /\ rows'[r][i].attempt # 0 /\ rows'[r][i].attempt <= attempt'
             /\ rows'[r][i].attempt # attempt'
      <4> SUFFICES ASSUME NEW r \in Matrix, NEW i \in DOMAIN rows[r]
                   PROVE  /\ rows[r][i].attempt # 0 /\ rows[r][i].attempt <= attempt'
                          /\ rows[r][i].attempt # attempt'
        BY <2>1
      <4>1. rows[r][i] \in Rows
        BY <1>1
      <4>2. rows[r][i].attempt \in Nat
        BY <4>1, SizeAssumption DEF Rows
      <4> QED
        BY <1>1, <2>1, <2>4, <4>2
    <3>2. attempt' # 0 /\ local'[run']["verdict"] \in {0, attempt'}
      BY <1>1, <2>1
    <3> QED
      BY <2>3, <3>1, <3>2 DEF Numbered
  <2>6. ASSUME NEW r \in Matrix, NEW i \in DOMAIN rows[r], NEW copy \in {local'[r], archive'[r]},
               copy["verdict"] = rows[r][i].attempt
        PROVE  rows[r][i].verdict = rows[r][i].attempt
    BY <1>1, <2>1, <2>2, <2>4, <2>6 DEF VerdictReachesRow
  <2> QED
    BY <2>1, <2>5, <2>6 DEF VerdictReachesRow
<1>3. CASE Judge
  <2>1. /\ UNCHANGED <<run, archive, rows, attempt>> /\ pc \in Making
        /\ \A r \in Matrix \ {run} : local'[r] = local[r]
        /\ local'[run]["verdict"] \in {local[run]["verdict"], attempt}
    <3>1. {"verdict"} \in SUBSET Parts /\ "verdict" \in Parts
      BY PartsListed
    <3> QED
      BY <1>1, <1>3, <3>1, Writing DEF Judge, GoTo, Making
  <2>2. /\ attempt # 0 /\ local[run]["verdict"] \in {0, attempt}
        /\ \A i \in DOMAIN rows[run] : rows[run][i].attempt # attempt
    BY <1>1, <2>1 DEF Numbered
  <2>3. \A r \in Matrix : local'[r]["verdict"] <= attempt' /\ archive'[r]["verdict"] <= attempt'
    <3> SUFFICES ASSUME NEW r \in Matrix
                 PROVE  local'[r]["verdict"] <= attempt /\ archive[r]["verdict"] <= attempt
      BY <2>1
    <3>1. local[r]["verdict"] <= attempt /\ archive[r]["verdict"] <= attempt
      BY <1>1 DEF Numbered
    <3>2. CASE r = run
      BY <1>1, <2>1, <3>1, <3>2
    <3> QED
      BY <2>1, <3>1, <3>2
  <2>4. Numbered'
    BY <1>1, <2>1, <2>2, <2>3 DEF Numbered
  <2>5. ASSUME NEW r \in Matrix, NEW i \in DOMAIN rows[r], NEW copy \in {local'[r], archive'[r]},
               copy["verdict"] = rows[r][i].attempt
        PROVE  rows[r][i].verdict = rows[r][i].attempt
    BY <1>1, <2>1, <2>2, <2>5 DEF VerdictReachesRow
  <2> QED
    BY <2>1, <2>4, <2>5 DEF VerdictReachesRow
<1>4. CASE WriteRow
  <2> DEFINE line == [attempt |-> attempt, verdict |-> QuotedVerdict]
             new == Append(rows[run], line)
  <2>1. /\ UNCHANGED <<local, archive, attempt>> /\ pc \in Making /\ pc' \notin Making
        /\ rows' = [rows EXCEPT ![run] = new]
    BY <1>1, <1>4, Turning DEF WriteRow, Making
  <2>2. /\ attempt # 0 /\ local[run]["verdict"] \in {0, attempt}
    BY <1>1, <2>1 DEF Numbered
  <2>3. line \in Rows /\ line.attempt = attempt /\ line.verdict = QuotedVerdict
    BY <1>1, Quoted DEF Rows, TypeOK
  <2> HIDE DEF line
  <2>4. rows[run] \in Seq(Rows)
    BY <1>1
  <2>5. \A i \in DOMAIN new : (i \in DOMAIN rows[run] /\ new[i] = rows[run][i]) \/ new[i] = line
    BY <2>3, <2>4
  <2> HIDE DEF new
  <2>6. ASSUME NEW r \in Matrix, NEW i \in DOMAIN rows'[r]
        PROVE  \/ i \in DOMAIN rows[r] /\ rows'[r][i] = rows[r][i]
               \/ r = run /\ rows'[r][i] = line
    BY <1>1, <2>1, <2>5, <2>6
  <2>7. Numbered'
    <3>1. ASSUME NEW r \in Matrix, NEW i \in DOMAIN rows'[r]
          PROVE  rows'[r][i].attempt # 0 /\ rows'[r][i].attempt <= attempt'
      <4>1. CASE i \in DOMAIN rows[r] /\ rows'[r][i] = rows[r][i]
        BY <1>1, <2>1, <4>1 DEF Numbered
      <4>2. CASE rows'[r][i] = line
        BY <1>1, <2>1, <2>2, <2>3, <4>2
      <4> QED
        BY <2>6, <3>1, <4>1, <4>2
    <3>2. \A r \in Matrix : local'[r]["verdict"] <= attempt' /\ archive'[r]["verdict"] <= attempt'
      BY <1>1, <2>1 DEF Numbered
    <3> QED
      BY <2>1, <3>1, <3>2 DEF Numbered
  <2>8. ASSUME NEW copy \in {local[run], archive[run]}, copy["verdict"] = attempt
        PROVE  QuotedVerdict = attempt
    BY <2>2, <2>8 DEF QuotedVerdict, Has
  <2>9. ASSUME NEW r \in Matrix, NEW i \in DOMAIN rows'[r], NEW copy \in {local[r], archive[r]},
               copy["verdict"] = rows'[r][i].attempt
        PROVE  rows'[r][i].verdict = rows'[r][i].attempt
    <3>1. CASE i \in DOMAIN rows[r] /\ rows'[r][i] = rows[r][i]
      BY <1>1, <2>9, <3>1 DEF VerdictReachesRow
    <3>2. CASE r = run /\ rows'[r][i] = line
      BY <2>3, <2>8, <2>9, <3>2
    <3> QED
      BY <2>6, <2>9, <3>1, <3>2
  <2> QED
    BY <2>1, <2>7, <2>9 DEF VerdictReachesRow
<1> QED
  BY <1>1, <1>2, <1>3, <1>4, QuietStep, QuotableQuiet

(* The verdict of a run reaches its line in campaign_manifest.csv: a line  *)
(* about an attempt whose verdict is on one of the disks quotes that one   *)
(* (run_campaign.sh 75-80).                                                *)
THEOREM VerdictIsQuoted == Spec => []VerdictReachesRow
<1>1. Init => Quotable
  <2> SUFFICES ASSUME Init PROVE Numbered /\ VerdictReachesRow
    BY TypeInit DEF Quotable
  <2>1. /\ \A r \in Matrix : local[r]["verdict"] = 0 /\ archive[r]["verdict"] = 0
        /\ attempt = 0 /\ \A r \in Matrix : rows[r] = << >>
    BY PartsListed DEF Init, Nothing
  <2>2. pc \notin Making
    BY DEF Init, Making
  <2> QED
    BY <2>1, <2>2 DEF Numbered, VerdictReachesRow
<1>2. Quotable => VerdictReachesRow
  BY DEF Quotable
<1> QED
  BY <1>1, <1>2, QuotableStep, PTL DEF Spec
-----------------------------------------------------------------------------
(* A campaign that was not killed, step by step.  Every run behind it has  *)
(* its line; no run before it has left anything on a disk, so that none is *)
(* skipped; what the run at hand leaves in the archive is either whole, in *)
(* the making, or on its way out.                                          *)
ArchivedWhole(r) ==
    Has(archive[r], "end") => Collected(r) /\ WholeIn(archive[r], collected[r])
Behind(r) == rows[r] # <<>> /\ ArchivedWhole(r)
Untouched(r) == local[r] = Nothing /\ archive[r] = Nothing
RunAtHand ==
    /\ pc \in {"tracing", "ended", "harvested", "judged", "packed"} => archive[run] = Nothing
    /\ pc \in {"judged", "packed", "copying"} => (Has(local[run], "end") => Collected(run))
    /\ pc = "copying" => \A p \in Parts : archive[run][p] \in {0, local[run][p]}
    /\ pc \in {"removing", "row"} => ArchivedWhole(run)
    /\ pc = "discarding" => \A p \in Parts \ todo : ~Has(archive[run], p)
InOrder ==
    /\ \A r \in Matrix : r < run \/ pc = "done" => Behind(r)
    /\ \A r \in Matrix : r > run \/ (r = run /\ pc = "check") => Untouched(r)
    /\ RunAtHand
Unkilled ==
    /\ pc = "down" => crashes # 0
    /\ pc = "done" => run = NRuns
    /\ crashes = 0 => InOrder

Progress == Kept /\ Unkilled

(* The steps within a run leave the other runs as they are. *)
Within ==
    /\ run' = run /\ pc \notin {"check", "done"} /\ pc' \notin {"check", "down", "done"}
    /\ \A r \in Matrix \ {run} : /\ local'[r] = local[r] /\ archive'[r] = archive[r]
                                 /\ collected'[r] = collected[r] /\ rows'[r] = rows[r]

LEMMA WithinInOrder == ASSUME TypeOK, InOrder, Within, RunAtHand' PROVE InOrder'
<1>1. run \in Matrix /\ run \in Int
  BY DEF TypeOK, Matrix
<1>2. ASSUME NEW r \in Matrix, r < run' \/ pc' = "done" PROVE Behind(r)'
  <2>1. r < run /\ r \in Matrix \ {run}
    BY <1>1, <1>2 DEF Within, Matrix
  <2> QED
    BY <2>1 DEF InOrder, Within, Behind, ArchivedWhole, Collected, WholeIn
<1>3. ASSUME NEW r \in Matrix, r > run' \/ (r = run' /\ pc' = "check") PROVE Untouched(r)'
  <2>1. r > run /\ r \in Matrix \ {run}
    BY <1>1, <1>3 DEF Within, Matrix
  <2> QED
    BY <2>1 DEF InOrder, Within, Untouched
<1> QED
  BY <1>2, <1>3 DEF InOrder

(* The steps that make, copy and clear the run at hand. *)
LEMMA WithinStep ==
    ASSUME Kept, crashes = 0, InOrder, Step, ~Skip, ~BeginRun, ~WriteRow, ~Resume
    PROVE  Within
<1>1. /\ run \in Matrix /\ local \in [Matrix -> Copies] /\ archive \in [Matrix -> Copies]
      /\ collected \in [Matrix -> Copies] /\ todo \subseteq Parts /\ TypeOK
      /\ attempt \in 0 .. MaxAttempts
  BY DEF Kept, TypeOK
<1>2. /\ run' = run /\ pc \notin {"check", "done"} /\ pc' \notin {"check", "down", "done"}
      /\ rows' = rows
  BY DEF Step, GoTo, ScenarioFails, WindowOver, CollectorDies, Harvest, Judge, Package, KeepLocal,
         BeginCopy, CopyPart, RemoveOriginal, DiscardCopy, RemovePart, Removed
<1>3. \A r \in Matrix \ {run} : collected'[r] = collected[r]
  BY <1>1 DEF Step, ScenarioFails, WindowOver, CollectorDies, Harvest, Judge, Package, KeepLocal,
         BeginCopy, CopyPart, RemoveOriginal, DiscardCopy, RemovePart, Removed
<1>4. \A r \in Matrix \ {run} : local'[r] = local[r]
  <2>1. ASSUME NEW parts, WriteLocal(parts) PROVE \A r \in Matrix \ {run} : local'[r] = local[r]
    BY <1>1, <2>1 DEF WriteLocal
  <2>2. ASSUME NEW p, local' = [local EXCEPT ![run][p] = 0]
        PROVE  \A r \in Matrix \ {run} : local'[r] = local[r]
    BY <1>1, <2>2
  <2> QED
    BY <2>1, <2>2 DEF Step, ScenarioFails, WindowOver, CollectorDies, Harvest, Judge, Package,
       KeepLocal, BeginCopy, CopyPart, RemoveOriginal, DiscardCopy, RemovePart, Removed
<1>5. \A r \in Matrix \ {run} : archive'[r] = archive[r]
  BY <1>1 DEF Step, ScenarioFails, WindowOver, CollectorDies, Harvest, Judge, Package,
     KeepLocal, BeginCopy, CopyPart, RemoveOriginal, DiscardCopy, RemovePart, Removed
<1> QED
  BY <1>2, <1>3, <1>4, <1>5 DEF Within

LEMMA NothingWhole ==
    ASSUME TypeOK, NEW r \in Matrix, archive[r] = Nothing PROVE ArchivedWhole(r)
BY PartsListed DEF ArchivedWhole, Has, Nothing

(* What they make of the run at hand. *)
LEMMA AtHandStep ==
    ASSUME Kept, crashes = 0, InOrder, Step, ~Skip, ~BeginRun, ~WriteRow, ~Resume
    PROVE  RunAtHand'
<1>1. /\ run \in Matrix /\ local \in [Matrix -> Copies] /\ archive \in [Matrix -> Copies]
      /\ collected \in [Matrix -> Copies] /\ todo \subseteq Parts /\ TypeOK
      /\ attempt \in 0 .. MaxAttempts /\ RunAtHand /\ AtHand /\ run' = run
  BY WithinStep DEF Kept, TypeOK, InOrder, Within
<1>2. CASE ScenarioFails \/ KeepLocal
  <2>1. /\ pc \in {"tracing", "packed"} /\ pc' = "row" /\ UNCHANGED <<archive, collected>>
    BY <1>2 DEF ScenarioFails, KeepLocal, GoTo
  <2>2. archive[run] = Nothing
    BY <1>1, <2>1 DEF RunAtHand
  <2>3. ArchivedWhole(run)'
    BY <1>1, <2>1, <2>2, NothingWhole DEF ArchivedWhole, Collected, WholeIn
  <2> QED
    BY <1>1, <2>1, <2>3 DEF RunAtHand
<1>3. CASE WindowOver \/ CollectorDies \/ Harvest
  BY <1>1, <1>3 DEF RunAtHand, WindowOver, CollectorDies, Harvest, GoTo
<1>4. CASE Judge
  <2>1. /\ pc = "harvested" /\ pc' = "judged" /\ archive' = archive
        /\ collected' = [collected EXCEPT ![run] = IF Has(local[run], "end") THEN local[run] ELSE @]
    BY <1>4 DEF Judge, GoTo
  <2>2. local'[run]["end"] = local[run]["end"]
    BY <1>1, <1>4, PartsListed, Writing DEF Judge
  <2>3. Has(local[run], "end") => Collected(run)'
    BY <1>1, <2>1 DEF Collected
  <2> QED
    BY <1>1, <2>1, <2>2, <2>3 DEF RunAtHand, Has
<1>5. CASE Package
  <2>1. pc = "judged" /\ pc' = "packed" /\ UNCHANGED <<archive, collected>>
    BY <1>5 DEF Package, GoTo
  <2>2. local'[run]["end"] = local[run]["end"]
    BY <1>1, <1>5, PartsListed, Writing DEF Package
  <2> QED
    BY <1>1, <2>1, <2>2 DEF RunAtHand, Has, Collected
<1>6. CASE BeginCopy
  <2>1. pc = "packed" /\ pc' = "copying" /\ UNCHANGED <<local, archive, collected>>
    BY <1>6 DEF BeginCopy, GoTo
  <2>2. archive[run] = Nothing /\ (Has(local[run], "end") => Collected(run))
    BY <1>1, <2>1 DEF RunAtHand
  <2>3. \A p \in Parts : archive[run][p] = 0
    BY <2>2 DEF Nothing
  <2> QED
    BY <1>1, <2>1, <2>2, <2>3 DEF RunAtHand, Collected
<1>7. CASE CopyPart
  <2>1. pc = "copying" /\ pc' = "copying" /\ UNCHANGED <<local, collected>>
    BY <1>7 DEF CopyPart
  <2>2. PICK p \in todo : archive' = [archive EXCEPT ![run][p] = local[run][p]]
    BY <1>7 DEF CopyPart
  <2>3. p \in Parts /\ local[run][p] \in 0 .. MaxAttempts
    BY <1>1 DEF Copies
  <2>4. /\ archive'[run][p] = local[run][p]
        /\ \A q \in Parts \ {p} : archive'[run][q] = archive[run][q]
    BY <1>1, <2>2, <2>3, PartChanges
  <2>5. /\ Has(local[run], "end") => Collected(run)
        /\ \A q \in Parts : archive[run][q] \in {0, local[run][q]}
    BY <1>1, <2>1 DEF RunAtHand
  <2>6. \A q \in Parts : archive'[run][q] \in {0, local[run][q]}
    BY <2>4, <2>5
  <2> QED
    BY <1>1, <2>1, <2>5, <2>6 DEF RunAtHand, Collected
<1>8. CASE RemoveOriginal
  <2>1. /\ pc = "copying" /\ pc' = "removing" /\ UNCHANGED <<local, archive, collected>>
        /\ todo = {} /\ Has(archive[run], "end")
    BY <1>8 DEF RemoveOriginal, GoTo, CopyVerified
  <2>2. /\ Has(local[run], "end") => Collected(run)
        /\ \A p \in Parts : archive[run][p] \in {0, local[run][p]}
    BY <1>1, <2>1 DEF RunAtHand
  <2>3. Has(local[run], "end")
    BY <2>1, <2>2, PartsListed DEF Has
  <2>4. /\ WholeIn(local[run], collected[run]) /\ Collected(run)
        /\ \A p \in Parts : Has(local[run], p) => archive[run][p] = local[run][p]
    BY <1>1, <2>1, <2>2, <2>3 DEF AtHand
  <2>5. WholeIn(archive[run], collected[run])
    BY <2>4, EvidenceIsParts DEF WholeIn, Has
  <2> QED
    BY <1>1, <2>1, <2>4, <2>5 DEF RunAtHand, ArchivedWhole, Collected, WholeIn
<1>9. CASE DiscardCopy
  BY <1>1, <1>9 DEF RunAtHand, DiscardCopy, GoTo
<1>10. CASE RemovePart /\ pc = "removing"
  <2>1. pc' = "removing" /\ UNCHANGED <<archive, collected>>
    BY <1>10 DEF RemovePart
  <2>2. ArchivedWhole(run)
    BY <1>1, <1>10 DEF RunAtHand
  <2> QED
    BY <1>1, <2>1, <2>2 DEF RunAtHand, ArchivedWhole, Collected, WholeIn
<1>11. CASE RemovePart /\ pc = "discarding"
  <2>1. pc' = "discarding"
    BY <1>11 DEF RemovePart
  <2>2. PICK p \in todo : /\ todo' = todo \ {p}
                          /\ archive' = [archive EXCEPT ![run][p] = 0]
    BY <1>11 DEF RemovePart
  <2>3. p \in Parts /\ 0 \in 0 .. MaxAttempts
    BY <1>1, SizeAssumption
  <2>4. archive'[run][p] = 0 /\ \A q \in Parts \ {p} : archive'[run][q] = archive[run][q]
    BY <1>1, <2>2, <2>3, PartChanges
  <2>5. \A q \in Parts \ todo : ~Has(archive[run], q)
    BY <1>1, <1>11 DEF RunAtHand
  <2>6. \A q \in Parts \ todo' : ~Has(archive'[run], q)
    BY <2>2, <2>4, <2>5 DEF Has
  <2> QED
    BY <1>1, <2>1, <2>6 DEF RunAtHand
<1>12. CASE Removed
  <2>1. /\ pc \in {"removing", "discarding"} /\ pc' = "row" /\ todo = {}
        /\ UNCHANGED <<archive, collected>>
    BY <1>12 DEF Removed
  <2>2. ArchivedWhole(run)
    BY <1>1, <2>1, PartsListed DEF RunAtHand, ArchivedWhole
  <2> QED
    BY <1>1, <2>1, <2>2 DEF RunAtHand, ArchivedWhole, Collected, WholeIn
<1> QED
  BY <1>2, <1>3, <1>4, <1>5, <1>6, <1>7, <1>8, <1>9, <1>10, <1>11, <1>12
     DEF Step, RemovePart

(* The next entry of the matrix is untouched, and the last one ends it. *)
LEMMA NextInOrder ==
    ASSUME TypeOK, InOrder, NextEntry, UNCHANGED <<local, archive, collected>>,
           pc \notin {"check", "done"}, rows'[run] # << >>, ArchivedWhole(run),
           \A r \in Matrix \ {run} : rows'[r] = rows[r]
    PROVE  InOrder' /\ (pc' = "done" => run' = NRuns)
<1>1. /\ NRuns \in Nat \ {0} /\ run \in 1 .. NRuns /\ Matrix = 1 .. NRuns
      /\ \/ run = NRuns /\ pc' = "done" /\ run' = run
         \/ run # NRuns /\ pc' = "check" /\ run' = run + 1
  BY SizeAssumption DEF TypeOK, Matrix, NextEntry
<1>2. ASSUME NEW r \in Matrix, r < run' \/ pc' = "done" PROVE Behind(r)'
  <2>1. CASE r = run
    BY <2>1 DEF Behind, ArchivedWhole, Collected, WholeIn
  <2>2. CASE r # run
    <3>1. r < run
      BY <1>1, <1>2, <2>2
    <3>2. Behind(r)
      BY <3>1 DEF InOrder
    <3> QED
      BY <2>2, <3>2 DEF Behind, ArchivedWhole, Collected, WholeIn
  <2> QED
    BY <2>1, <2>2
<1>3. ASSUME NEW r \in Matrix, r > run' \/ (r = run' /\ pc' = "check") PROVE Untouched(r)'
  <2>1. r > run
    BY <1>1, <1>3
  <2> QED
    BY <2>1 DEF InOrder, Untouched
<1>4. RunAtHand'
  BY <1>1 DEF RunAtHand
<1> QED
  BY <1>1, <1>2, <1>3, <1>4 DEF InOrder

LEMMA UnkilledStep == ASSUME Progress, [Next]_vars PROVE Unkilled'
<1>1. /\ Kept /\ Unkilled /\ TypeOK /\ run \in Matrix /\ crashes \in Nat
      /\ local \in [Matrix -> Copies] /\ rows \in [Matrix -> Seq(Rows)]
  BY SizeAssumption DEF Progress, Kept, TypeOK
<1>2. CASE UNCHANGED vars \/ Rest
  <2>1. UNCHANGED vars
    BY <1>2 DEF Rest
  <2> QED
    BY <1>1, <2>1 DEF vars, Unkilled, InOrder, Behind, Untouched, ArchivedWhole, Collected, WholeIn, RunAtHand
<1>3. CASE Crash
  BY <1>1, <1>3 DEF Crash, Unkilled
<1>4. CASE crashes # 0 /\ Step
  <2>1. crashes' # 0
    BY <1>1, <1>4 DEF Step, Skip, BeginRun, ScenarioFails, WindowOver, CollectorDies, Harvest,
       Judge, Package, KeepLocal, BeginCopy, CopyPart, RemoveOriginal, DiscardCopy, RemovePart,
       Removed, WriteRow, Resume
  <2>2. pc' = "done" => run' = NRuns
    BY <1>1, <1>4 DEF Unkilled, NextEntry, GoTo, Step, Skip, BeginRun, ScenarioFails, WindowOver,
       CollectorDies, Harvest, Judge, Package, KeepLocal, BeginCopy, CopyPart, RemoveOriginal,
       DiscardCopy, RemovePart, Removed, WriteRow, Resume
  <2> QED
    BY <2>1, <2>2 DEF Unkilled
<1>5. CASE crashes = 0 /\ Step
  <2>1. InOrder /\ crashes' = crashes
    BY <1>1, <1>5 DEF Unkilled, Step, Skip, BeginRun, ScenarioFails, WindowOver, CollectorDies,
       Harvest, Judge, Package, KeepLocal, BeginCopy, CopyPart, RemoveOriginal, DiscardCopy,
       RemovePart, Removed, WriteRow, Resume
  <2>2. ~Skip
    <3>1. pc = "check" => ~AlreadyCollected(run)
      BY <1>1, <2>1, PartsListed DEF InOrder, Untouched, Nothing, AlreadyCollected, Has
    <3> QED
      BY <3>1 DEF Skip
  <2>3. ~Resume
    BY <1>1, <1>5 DEF Resume, GoTo, Unkilled
  <2>4. CASE BeginRun
    <3>1. /\ pc = "check" /\ pc' = "tracing" /\ UNCHANGED <<run, archive, rows, collected>>
          /\ local' = [local EXCEPT ![run] = Nothing]
      BY <2>4 DEF BeginRun, GoTo
    <3>2. Untouched(run) /\ \A r \in Matrix : r > run => Untouched(r)
      BY <1>1, <2>1, <3>1 DEF InOrder
    <3>3. local' = local
      BY <1>1, <3>1, <3>2 DEF Untouched
    <3>4. \A r \in Matrix : r < run => Behind(r)
      BY <2>1 DEF InOrder
    <3>5. RunAtHand'
      BY <1>1, <3>1, <3>2 DEF RunAtHand, Untouched
    <3> QED
      BY <1>1, <2>1, <3>1, <3>2, <3>3, <3>4, <3>5
         DEF Unkilled, InOrder, Behind, Untouched, ArchivedWhole, Collected, WholeIn
  <2>5. CASE WriteRow
    <3> DEFINE new == Append(rows[run], [attempt |-> attempt, verdict |-> QuotedVerdict])
    <3>1. /\ pc = "row" /\ NextEntry /\ UNCHANGED <<local, archive, collected>>
          /\ rows' = [rows EXCEPT ![run] = new]
      BY <2>5 DEF WriteRow
    <3>2. new # << >>
      BY <1>1
    <3> HIDE DEF new
    <3>3. ArchivedWhole(run)
      BY <2>1, <3>1 DEF InOrder, RunAtHand
    <3>4. rows'[run] # << >> /\ \A r \in Matrix \ {run} : rows'[r] = rows[r]
      BY <1>1, <3>1, <3>2
    <3>5. pc' # "down"
      BY <3>1, Turning, <1>1
    <3> QED
      BY <1>1, <2>1, <3>1, <3>3, <3>4, <3>5, NextInOrder DEF Unkilled
  <2>6. CASE ~BeginRun /\ ~WriteRow
    <3>1. Within /\ RunAtHand'
      BY <1>1, <1>5, <2>1, <2>2, <2>3, <2>6, WithinStep, AtHandStep
    <3>2. InOrder' /\ pc' # "done" /\ pc' # "down"
      BY <1>1, <2>1, <3>1, WithinInOrder DEF Within
    <3> QED
      BY <3>2 DEF Unkilled
  <2> QED
    BY <2>4, <2>5, <2>6
<1> QED
  BY <1>2, <1>3, <1>4, <1>5 DEF Next

(* A campaign that was not killed ends with a line for every run of its    *)
(* matrix, and what looks like a bundle in its archive is all that a       *)
(* collected run left, whatever collection or copy failed; a run whose     *)
(* collector died before the end of its harvest is there without it        *)
(* (run_campaign.sh 39-88, campaign_finish_run.sh 54-68).                  *)
THEOREM UnkilledIsComplete == Spec => []CampaignIsComplete
<1>1. Init => Progress
  <2> SUFFICES ASSUME Init PROVE Unkilled
    BY TypeInit, KeptInit DEF Progress, Kept
  <2>1. \A r \in Matrix : r >= 1
    BY DEF Matrix
  <2> QED
    BY <2>1 DEF Init, Unkilled, InOrder, Untouched, RunAtHand
<1>2. ASSUME Progress, [Next]_vars PROVE Progress'
  BY <1>2, KeptStep, UnkilledStep DEF Progress
<1>3. Progress => CampaignIsComplete
  BY DEF Progress, Unkilled, InOrder, Behind, ArchivedWhole, CampaignIsComplete
<1> QED
  BY <1>1, <1>2, <1>3, PTL DEF Spec
=============================================================================
