--------------------------- MODULE AgentRunProofs ---------------------------
(***************************************************************************)
(* Proofs about AgentRun, for any budgets, workers, tool results and       *)
(* upsets: no finding is lost, silence was asked about, the blueprint has  *)
(* its worker, and a stop is obeyed; and about the pages its workers read: *)
(* who is told to have seen all has seen all, and a page shows more.       *)
(***************************************************************************)
EXTENDS AgentRun, SetLemmas

(* What a worker's record is made of; the budgets play no part.            *)
Places == {"idle", "call", "silent", "reply", "tool", "last", "ended", "raised"}
Records == [at : Places, step : Int, todo : Int, found : BOOLEAN, nudged : BOOLEAN,
            asked : BOOLEAN]

Crew ==
    /\ w \in [Workers -> Records]
    /\ plan \in Seq({"task", "blueprint"}) /\ Team \subseteq Workers
    /\ round \in Nat \ {0} /\ blueprint \in {"none", "tools", "only"}
    /\ \A i \in Workers \ Team : w[i].at = "idle"
    /\ phase # "work" => \A i \in Workers : w[i].at \in {"idle", "ended", "raised"}

(* Why a stopped run gives no diagnosis: between the stop and the end no   *)
(* call of the synthesiser is under way, unless one was when it came.      *)
Stopped ==
    /\ cancel /\ ~late => phase # "concluding"
    /\ diagnosis = "given" => phase = "over"
    /\ StopIsObeyed

Asked ==
    \A i \in Workers :
        /\ w[i].nudged => w[i].asked
        /\ w[i].at = "ended" /\ ~w[i].found => w[i].asked

(* The findings not yet merged are those of this round's workers.          *)
Noted ==
    /\ phase \in {"plan", "planning"} => findings = recorded
    /\ FindingsReachSynth
    /\ phase = "work" => recorded = Merged

-----------------------------------------------------------------------------
LEMMA MinOfTwo ==
    ASSUME NEW a \in Nat, NEW b \in Nat
    PROVE  Min({a, b}) \in Nat /\ Min({a, b}) <= a /\ Min({a, b}) <= b
           /\ (a # 0 /\ b # 0 => Min({a, b}) # 0)
<1>1. \E x \in {a, b} : \A y \in {a, b} : x <= y
  <2>1. CASE a <= b
    BY <2>1
  <2>2. CASE ~(a <= b)
    BY <2>2
  <2> QED
    BY <2>1, <2>2
<1>2. Min({a, b}) \in {a, b} /\ \A y \in {a, b} : Min({a, b}) <= y
  BY <1>1 DEF Min
<1> QED
  BY <1>2

LEMMA Generics ==
    ASSUME NEW n \in Nat
    PROVE  Generic(n) \in Seq({"task", "blueprint"}) /\ Len(Generic(n)) = n
BY DEF Generic

(* The tasks of the first round. *)
LEMMA TasksAreFew ==
    ASSUME NEW n \in Nat, blueprint \in {"none", "tools", "only"}
    PROVE  /\ Tasks(n) \in Seq({"task", "blueprint"})
           /\ Len(Tasks(n)) \in 1 .. MaxSubtasks
           /\ blueprint # "none" => \E i \in DOMAIN Tasks(n) : Tasks(n)[i] = "blueprint"
<1> DEFINE cut == Min({MaxSubtasks, IF n = 0 THEN 1 ELSE n})
           some == Min({cut, MaxSubtasks - 1})
<1>1. MaxSubtasks \in Nat \ {0} /\ MaxSubtasks - 1 \in Nat
  BY BudgetAssumption
<1>2. cut \in Nat /\ cut <= MaxSubtasks /\ cut # 0
  BY <1>1, MinOfTwo
<1>3. some \in Nat /\ some <= MaxSubtasks - 1
  <2> HIDE DEF cut
  <2> QED
    BY <1>1, <1>2, MinOfTwo
<1>4. CASE blueprint = "only"
  <2>1. Tasks(n) = <<"blueprint">>
    BY <1>4 DEF Tasks
  <2> QED
    BY <1>1, <2>1
<1>5. CASE blueprint = "tools"
  <2>1. Tasks(n) = Append(Generic(some), "blueprint")
    BY <1>5 DEF Tasks
  <2> HIDE DEF some
  <2>2. Generic(some) \in Seq({"task", "blueprint"}) /\ Len(Generic(some)) = some
    BY <1>3, Generics
  <2>3. /\ Tasks(n) \in Seq({"task", "blueprint"}) /\ Len(Tasks(n)) = some + 1
        /\ Tasks(n)[some + 1] = "blueprint" /\ some + 1 \in DOMAIN Tasks(n)
    BY <1>3, <2>1, <2>2
  <2> QED
    BY <1>1, <1>3, <2>3
<1>6. CASE blueprint = "none"
  <2>1. Tasks(n) = Generic(cut)
    BY <1>6 DEF Tasks
  <2> HIDE DEF cut
  <2> QED
    BY <1>1, <1>2, <1>6, <2>1, Generics
<1> QED
  BY <1>4, <1>5, <1>6

-----------------------------------------------------------------------------
(* A stopped run commits to no verdict.                                    *)
LEMMA StoppedInit == Init => Stopped
BY DEF Init, Stopped, StopIsObeyed

LEMMA StoppedStep == ASSUME Stopped, [Next]_vars PROVE Stopped'
<1>1. CASE UNCHANGED vars
  BY <1>1 DEF Stopped, StopIsObeyed, vars, agentVars
<1>2. CASE CallPlanner \/ SkipReview \/ CallReviewer
  BY <1>2 DEF CallPlanner, SkipReview, CallReviewer, GoTo, Stopped, StopIsObeyed
<1>3. CASE Plan
  <2>1. phase \in {"plan", "planning"} /\ phase' = "work" /\ UNCHANGED <<cancel, late, diagnosis>>
    BY <1>3 DEF Plan, Start
  <2> QED
    BY <2>1 DEF Stopped, StopIsObeyed
<1>4. CASE Joined
  <2>1. /\ phase = "work" /\ phase' \in {"over", "review"} /\ UNCHANGED <<cancel, late>>
        /\ diagnosis' \in {"error", diagnosis}
    BY <1>4 DEF Joined
  <2> QED
    BY <2>1 DEF Stopped, StopIsObeyed
<1>5. CASE Review
  <2>1. phase = "reviewing" /\ phase' \in {"synth", "work"} /\ UNCHANGED <<cancel, late, diagnosis>>
    BY <1>5 DEF Review, Start
  <2> QED
    BY <2>1 DEF Stopped, StopIsObeyed
<1>6. CASE CallSynth
  BY <1>6 DEF CallSynth, GoTo, Stopped, StopIsObeyed
<1>7. CASE Synth
  BY <1>7 DEF Synth, Stopped, StopIsObeyed
<1>8. CASE CallFails
  BY <1>8 DEF CallFails, Fail, GoTo, Stopped, StopIsObeyed
<1>9. CASE Stop
  BY <1>9 DEF Stop, Stopped, StopIsObeyed
<1>10. ASSUME NEW i \in Workers, Worker(i) PROVE Stopped'
  <2>1. UNCHANGED <<phase, cancel, late, diagnosis>>
    BY <1>10 DEF Worker, Model, Call, Raise, Silent, Note, UseTool, ToolAnswers, WrapUp, WrapUpFails,
                 WorkOnly
  <2> QED
    BY <2>1 DEF Stopped, StopIsObeyed
<1> QED
  BY <1>1, <1>2, <1>3, <1>4, <1>5, <1>6, <1>7, <1>8, <1>9, <1>10 DEF Next, Graph, Terminated

(* A run that was asked to stop gives a diagnosis only if its last call    *)
(* had begun by then, whatever its workers do with the cancellation.       *)
THEOREM StopsAreObeyed == Spec => []StopIsObeyed
<1>1. Stopped => StopIsObeyed
  BY DEF Stopped
<1> QED
  BY <1>1, StoppedInit, StoppedStep, PTL DEF Spec

-----------------------------------------------------------------------------
(* All that a step of worker i does to its record.                         *)
Turned(i) ==
    /\ w' \in [Workers -> Records] /\ \A j \in Workers \ {i} : w'[j] = w[j]
    /\ w[i].at # "idle" /\ w'[i].at # "idle"
    /\ \/ recorded' = recorded /\ w'[i].found = w[i].found
       \/ recorded' = recorded \cup {<<round, i>>} /\ w'[i].found
    /\ (w[i].nudged => w[i].asked) => (w'[i].nudged => w'[i].asked)
    /\ (w[i].nudged => w[i].asked) /\ w'[i].at = "ended" /\ ~w'[i].found => w'[i].asked

LEMMA HandledCalls ==
    ASSUME NEW t \in Records
    PROVE  /\ Handled(t) \in Records /\ Handled(t).at \in {"call", "reply"}
           /\ Handled(t).found = t.found /\ Handled(t).nudged = t.nudged
           /\ Handled(t).asked = t.asked
<1>1. PICK at \in {"call", "reply"} : Handled(t) = [t EXCEPT !.todo = t.todo - 1, !.at = at]
  BY DEF Handled
<1>2. at \in Places /\ t.todo - 1 \in Int
  BY DEF Places, Records
<1> QED
  BY <1>1, <1>2 DEF Records

LEMMA WorkerTurns ==
    ASSUME Crew, NEW i \in Workers, Worker(i)
    PROVE  phase = "work" /\ Turned(i) /\ WorkOnly
<1>1. phase = "work" /\ WorkOnly
  <2>1. CASE w[i].at \in {"idle", "ended", "raised"}
    BY <2>1 DEF Worker, Model, Call, Raise, Silent, Note, UseTool, ToolAnswers, WrapUp, WrapUpFails
  <2>2. CASE w[i].at \notin {"idle", "ended", "raised"}
    BY <2>2 DEF Crew, Worker, Model, Call, Raise, Silent, Note, UseTool, ToolAnswers, WrapUp,
                WrapUpFails
  <2> QED
    BY <2>1, <2>2
<1> SUFFICES Turned(i)
  BY <1>1
<1>2. w \in [Workers -> Records] /\ w[i] \in Records
  BY DEF Crew
<1>3. CASE Call(i)
  <2>1. PICK n \in 0 .. MaxCalls :
          w' = [w EXCEPT ![i].at = IF n = 0 THEN "silent" ELSE "reply",
                         ![i].step = @ + 1, ![i].todo = n]
    BY <1>3 DEF Call
  <2>2. PICK at \in {"silent", "reply"} : at = IF n = 0 THEN "silent" ELSE "reply"
    OBVIOUS
  <2>3. at \in Places /\ n \in Int /\ w[i].step + 1 \in Int
    BY <1>2 DEF Places, Records
  <2>4. /\ w' \in [Workers -> Records] /\ \A j \in Workers \ {i} : w'[j] = w[j]
        /\ w'[i].at = at /\ w'[i].found = w[i].found /\ w'[i].nudged = w[i].nudged
        /\ w'[i].asked = w[i].asked
    BY <1>2, <2>1, <2>2, <2>3 DEF Records
  <2>5. w[i].at = "call" /\ recorded' = recorded
    BY <1>3 DEF Call
  <2> QED
    BY <2>2, <2>4, <2>5 DEF Turned
<1>4. CASE Raise(i) \/ UseTool(i)
  <2>1. PICK at \in {"raised", "tool"} : w' = [w EXCEPT ![i].at = at]
    BY <1>4 DEF Raise, UseTool, To
  <2>2. at \in Places
    BY DEF Places
  <2>3. /\ w' \in [Workers -> Records] /\ \A j \in Workers \ {i} : w'[j] = w[j]
        /\ w'[i].at = at /\ w'[i].found = w[i].found /\ w'[i].nudged = w[i].nudged
        /\ w'[i].asked = w[i].asked
    BY <1>2, <2>1, <2>2 DEF Records
  <2>4. w[i].at \in {"call", "reply"} /\ recorded' = recorded
    BY <1>4 DEF Raise, UseTool
  <2> QED
    BY <2>3, <2>4 DEF Turned
<1>5. CASE Silent(i)
  <2>1. w[i].at = "silent" /\ recorded' = recorded /\ {"call", "ended"} \subseteq Places
    BY <1>5 DEF Silent, Places
  <2>2. CASE Nudge(w[i])
    <3>1. w' = [w EXCEPT ![i].at = "call", ![i].nudged = TRUE, ![i].asked = TRUE]
      BY <1>5, <2>2 DEF Silent
    <3>2. /\ w' \in [Workers -> Records] /\ \A j \in Workers \ {i} : w'[j] = w[j]
          /\ w'[i].at = "call" /\ w'[i].found = w[i].found /\ w'[i].asked
      BY <1>2, <2>1, <3>1 DEF Records
    <3> QED
      BY <2>1, <3>2 DEF Turned
  <2>3. CASE ~Nudge(w[i])
    <3>1. w' = [w EXCEPT ![i].at = "ended"]
      BY <1>5, <2>3 DEF Silent
    <3>2. /\ w' \in [Workers -> Records] /\ \A j \in Workers \ {i} : w'[j] = w[j]
          /\ w'[i].at = "ended" /\ w'[i].found = w[i].found /\ w'[i].nudged = w[i].nudged
          /\ w'[i].asked = w[i].asked
      BY <1>2, <2>1, <3>1 DEF Records
    <3> QED
      BY <2>1, <2>3, <3>2 DEF Turned, Nudge
  <2> QED
    BY <2>2, <2>3
<1>6. CASE Note(i)
  <2>1. CASE w[i].at = "reply" /\ w' = [w EXCEPT ![i] = [Handled(@) EXCEPT !.found = TRUE]]
    <3>1. w'[i] = [Handled(w[i]) EXCEPT !.found = TRUE] /\ \A j \in Workers \ {i} : w'[j] = w[j]
      BY <1>2, <2>1
    <3>2. /\ w'[i] \in Records /\ w'[i].found /\ w'[i].at = Handled(w[i]).at
          /\ w'[i].nudged = w[i].nudged /\ w'[i].asked = w[i].asked
      BY <1>2, <3>1, HandledCalls DEF Records
    <3>3. w' \in [Workers -> Records]
      BY <1>2, <2>1, <3>1, <3>2
    <3>4. recorded' = recorded \cup {<<round, i>>} /\ Handled(w[i]).at \in {"call", "reply"}
      BY <1>2, <1>6, HandledCalls DEF Note
    <3> QED
      BY <2>1, <3>1, <3>2, <3>3, <3>4 DEF Turned
  <2>2. CASE w[i].at = "last" /\ w' = [w EXCEPT ![i].at = "ended", ![i].found = TRUE]
    <3>1. "ended" \in Places
      BY DEF Places
    <3>2. /\ w' \in [Workers -> Records] /\ \A j \in Workers \ {i} : w'[j] = w[j]
          /\ w'[i].at = "ended" /\ w'[i].found /\ w'[i].nudged = w[i].nudged
          /\ w'[i].asked = w[i].asked
      BY <1>2, <2>2, <3>1 DEF Records
    <3>3. recorded' = recorded \cup {<<round, i>>}
      BY <1>6 DEF Note
    <3> QED
      BY <2>2, <3>2, <3>3 DEF Turned
  <2> QED
    BY <1>6, <2>1, <2>2 DEF Note
<1>7. CASE ToolAnswers(i)
  <2>1. w[i].at = "tool" /\ w' = [w EXCEPT ![i] = Handled(w[i])] /\ recorded' = recorded
    BY <1>2, <1>7 DEF ToolAnswers
  <2>2. w'[i] = Handled(w[i]) /\ (\A j \in Workers \ {i} : w'[j] = w[j])
        /\ w' \in [Workers -> Records]
    BY <1>2, <2>1, HandledCalls
  <2>3. /\ w'[i].at \in {"call", "reply"} /\ w'[i].found = w[i].found
        /\ w'[i].nudged = w[i].nudged /\ w'[i].asked = w[i].asked
    BY <1>2, <2>2, HandledCalls
  <2> QED
    BY <2>1, <2>2, <2>3 DEF Turned
<1>8. CASE WrapUp(i) \/ WrapUpFails(i)
  <2>1. PICK at \in {"last", "ended"} : w' = [w EXCEPT ![i].at = at, ![i].asked = TRUE]
    BY <1>8 DEF WrapUp, WrapUpFails
  <2>2. at \in Places
    BY DEF Places
  <2>3. /\ w' \in [Workers -> Records] /\ \A j \in Workers \ {i} : w'[j] = w[j]
        /\ w'[i].at = at /\ w'[i].found = w[i].found /\ w'[i].asked
    BY <1>2, <2>1, <2>2 DEF Records
  <2>4. w[i].at \in {"call", "last"} /\ recorded' = recorded
    BY <1>8 DEF WrapUp, WrapUpFails
  <2> QED
    BY <2>3, <2>4 DEF Turned
<1> QED
  BY <1>3, <1>4, <1>5, <1>6, <1>7, <1>8 DEF Worker, Model

(* A round begins: fresh workers, as many as it has tasks.                 *)
LEMMA RoundStarts ==
    ASSUME NEW t \in Seq({"task", "blueprint"}), Start(t), 1 .. Len(t) \subseteq Workers
    PROVE  /\ w' \in [Workers -> Records] /\ plan' = t /\ Team' \subseteq Workers
           /\ \A i \in Workers \ Team' : w'[i].at = "idle"
           /\ \A i \in Workers : /\ w'[i].at \in {"idle", "call"} /\ ~w'[i].found
                                 /\ ~w'[i].nudged
           /\ phase' = "work"
<1>0. "call" \in Places /\ Idle \in Records
  BY DEF Idle, Records, Places
<1>1. [Idle EXCEPT !.at = "call"] \in Records
  BY <1>0 DEF Records
<1>2. \A i \in Workers : w'[i] = IF i \in 1 .. Len(t) THEN [Idle EXCEPT !.at = "call"] ELSE Idle
  BY DEF Start
<1> QED
  BY <1>0, <1>1, <1>2 DEF Start, Team, Idle

(* The rounds that Plan and Review start. *)
LEMMA PlanStarts ==
    ASSUME Crew, Plan
    PROVE  \E t \in Seq({"task", "blueprint"}) :
               /\ Start(t) /\ 1 .. Len(t) \subseteq Workers /\ Len(t) <= MaxSubtasks
               /\ blueprint # "none" => \E i \in DOMAIN t : t[i] = "blueprint"
<1>1. PICK n \in 0 .. MaxSubtasks + 1 : Start(Tasks(n))
  BY DEF Plan
<1>2. n \in Nat
  BY BudgetAssumption
<1>3. /\ Tasks(n) \in Seq({"task", "blueprint"})
      /\ Len(Tasks(n)) \in 1 .. MaxSubtasks
      /\ blueprint # "none" => \E i \in DOMAIN Tasks(n) : Tasks(n)[i] = "blueprint"
  BY <1>2, TasksAreFew DEF Crew
<1>4. 1 .. Len(Tasks(n)) \subseteq Workers
  BY <1>3, BudgetAssumption
<1> QED
  BY <1>1, <1>3, <1>4, BudgetAssumption

LEMMA ReviewStarts ==
    ASSUME NEW n \in 1 .. MaxFollowups
    PROVE  Generic(n) \in Seq({"task", "blueprint"}) /\ 1 .. Len(Generic(n)) \subseteq Workers
<1>1. n \in Nat
  BY BudgetAssumption
<1> QED
  BY <1>1, Generics, BudgetAssumption

-----------------------------------------------------------------------------
(* The steps that neither start a round nor are a worker's.                *)
LEMMA OthersKeepCrew ==
    ASSUME Next, ~Plan, ~Review, \A i \in Workers : ~Worker(i)
    PROVE  /\ UNCHANGED <<w, plan, round, blueprint, recorded>>
           /\ \/ phase' = phase /\ findings' = findings
              \/ Joined
              \/ phase # "work" /\ phase' # "work" /\ findings' = findings
<1>1. CASE CallPlanner \/ SkipReview \/ CallReviewer \/ CallSynth
  BY <1>1 DEF CallPlanner, SkipReview, CallReviewer, CallSynth, GoTo
<1>2. CASE Joined
  BY <1>2 DEF Joined
<1>3. CASE Synth
  BY <1>3 DEF Synth
<1>4. CASE CallFails
  BY <1>4 DEF CallFails, Fail, GoTo
<1>5. CASE Stop \/ Terminated
  BY <1>5 DEF Stop, Terminated, vars, agentVars
<1> QED
  BY <1>1, <1>2, <1>3, <1>4, <1>5 DEF Next, Graph

LEMMA CrewStep == ASSUME Crew, [Next]_vars PROVE Crew'
<1>1. CASE UNCHANGED vars
  BY <1>1 DEF Crew, Team, vars, agentVars
<1>2. CASE Plan
  <2>1. PICK t \in Seq({"task", "blueprint"}) : Start(t) /\ 1 .. Len(t) \subseteq Workers
    BY <1>2, PlanStarts
  <2> QED
    BY <1>2, <2>1, RoundStarts DEF Crew, Plan
<1>3. CASE Review
  <2>1. round' \in Nat \ {0} /\ blueprint' = blueprint
    BY <1>3 DEF Review, NextRound, Crew
  <2>2. CASE phase' = "synth" /\ UNCHANGED <<plan, w, view>>
    BY <1>3, <2>1, <2>2 DEF Review, Crew, Team
  <2>3. CASE \E n \in 1 .. MaxFollowups : Start(Generic(n))
    <3>1. PICK n \in 1 .. MaxFollowups : Start(Generic(n))
      BY <2>3
    <3> QED
      BY <2>1, <3>1, RoundStarts, ReviewStarts DEF Crew
  <2> QED
    BY <1>3, <2>2, <2>3 DEF Review
<1>4. ASSUME NEW i \in Workers, Worker(i) PROVE Crew'
  <2>1. phase = "work" /\ Turned(i) /\ WorkOnly
    BY <1>4, WorkerTurns
  <2>2. Team' = Team /\ phase' = "work"
    BY <2>1 DEF WorkOnly, Team
  <2>3. \A j \in Workers \ Team : w'[j].at = "idle"
    BY <2>1 DEF Crew, Turned
  <2> QED
    BY <2>1, <2>2, <2>3 DEF Crew, Turned, WorkOnly
<1>5. CASE Next /\ ~Plan /\ ~Review /\ \A i \in Workers : ~Worker(i)
  <2>1. UNCHANGED <<w, plan, round, blueprint>>
    BY <1>5, OthersKeepCrew
  <2>2. CASE phase' = "work"
    BY <2>1, <2>2 DEF Crew, Team
  <2>3. CASE phase' # "work" /\ phase # "work"
    BY <2>1, <2>3 DEF Crew, Team
  <2>4. CASE Joined
    BY <2>1, <2>4 DEF Crew, Team, Joined
  <2> QED
    BY <1>5, <2>2, <2>3, <2>4, OthersKeepCrew
<1> QED
  BY <1>1, <1>2, <1>3, <1>4, <1>5

LEMMA CrewInit == Init => Crew
<1>1. Idle \in Records
  BY DEF Idle, Records, Places
<1> QED
  BY <1>1 DEF Init, Crew, Team, Idle
-----------------------------------------------------------------------------
(* The blueprint's own scripts are on the first round's list, which keeps  *)
(* within the limit.                                                       *)
LEMMA BlueprintStep ==
    ASSUME Crew, BlueprintIsWorked, [Next]_vars PROVE BlueprintIsWorked'
<1>1. CASE UNCHANGED vars
  BY <1>1 DEF BlueprintIsWorked, vars, agentVars
<1>2. CASE Plan
  <2>1. PICK t \in Seq({"task", "blueprint"}) :
          /\ Start(t) /\ Len(t) <= MaxSubtasks
          /\ blueprint # "none" => \E i \in DOMAIN t : t[i] = "blueprint"
    BY <1>2, PlanStarts
  <2> QED
    BY <1>2, <2>1 DEF BlueprintIsWorked, Plan, Start
<1>3. CASE Review
  <2>1. CASE round' = NextRound
    BY <2>1 DEF BlueprintIsWorked, NextRound, Crew
  <2>2. CASE phase' = "synth" /\ round' = round /\ plan' = plan
    BY <1>3, <2>2 DEF BlueprintIsWorked, Review
  <2> QED
    BY <1>3, <2>1, <2>2 DEF Review
<1>4. ASSUME NEW i \in Workers, Worker(i) PROVE BlueprintIsWorked'
  BY <1>4, WorkerTurns DEF BlueprintIsWorked, WorkOnly
<1>5. CASE Next /\ ~Plan /\ ~Review /\ \A i \in Workers : ~Worker(i)
  <2>1. UNCHANGED <<plan, round, blueprint>> /\ (phase = "over" => phase' = "over")
    <3>1. phase = "over" => phase' = "over"
      BY <1>5 DEF Next, Graph, CallPlanner, SkipReview, CallReviewer, CallSynth, GoTo, Joined,
                  Synth, CallFails, Fail, Stop, Terminated, vars, agentVars
    <3> QED
      BY <1>5, <3>1, OthersKeepCrew
  <2> QED
    BY <2>1 DEF BlueprintIsWorked
<1> QED
  BY <1>1, <1>2, <1>3, <1>4, <1>5

(* Whatever the planner answers, the blueprint's scripts have their worker *)
(* in the first round (n_plan's cut before its append).                    *)
THEOREM BlueprintHasAWorker == Spec => []BlueprintIsWorked
<1>1. Init => Crew /\ BlueprintIsWorked
  BY CrewInit DEF Init, BlueprintIsWorked
<1>2. Crew /\ BlueprintIsWorked /\ [Next]_vars => Crew' /\ BlueprintIsWorked'
  BY CrewStep, BlueprintStep
<1> QED
  BY <1>1, <1>2, PTL DEF Spec

-----------------------------------------------------------------------------
LEMMA AskedStep == ASSUME Crew, Asked, [Next]_vars PROVE Asked'
<1>1. CASE UNCHANGED w
  BY <1>1 DEF Asked
<1>2. ASSUME NEW t \in Seq({"task", "blueprint"}), Start(t), 1 .. Len(t) \subseteq Workers
      PROVE  Asked'
  <2>1. \A i \in Workers : w'[i].at \in {"idle", "call"} /\ ~w'[i].nudged
    BY <1>2, RoundStarts
  <2> QED
    BY <2>1 DEF Asked
<1>3. CASE Plan
  BY <1>2, <1>3, PlanStarts
<1>4. CASE Review
  <2>1. CASE \E n \in 1 .. MaxFollowups : Start(Generic(n))
    BY <1>2, <2>1, ReviewStarts
  <2> QED
    BY <1>1, <1>4, <2>1 DEF Review
<1>5. ASSUME NEW i \in Workers, Worker(i) PROVE Asked'
  <2>1. Turned(i)
    BY <1>5, WorkerTurns
  <2> QED
    BY <2>1 DEF Turned, Asked
<1>6. CASE Next /\ ~Plan /\ ~Review /\ \A i \in Workers : ~Worker(i)
  BY <1>1, <1>6, OthersKeepCrew
<1> QED
  BY <1>1, <1>3, <1>4, <1>5, <1>6 DEF vars, agentVars

(* No worker of any round leaves without a finding unasked (n_work's nudge *)
(* and wrap-up, whose failures and cancellations it swallows).             *)
THEOREM NobodyLeavesUnasked == Spec => []SilenceWasAskedAbout
<1>1. Init => Crew /\ Asked
  BY CrewInit DEF Init, Asked, Idle
<1>2. Crew /\ Asked /\ [Next]_vars => Crew' /\ Asked'
  BY CrewStep, AskedStep
<1>3. Crew /\ Asked => SilenceWasAskedAbout
  BY DEF Crew, Asked, SilenceWasAskedAbout
<1> QED
  BY <1>1, <1>2, <1>3, PTL DEF Spec

-----------------------------------------------------------------------------
(* A round that starts after all findings so far were merged.              *)
LEMMA NotedAtStart ==
    ASSUME NEW t \in Seq({"task", "blueprint"}), Start(t), 1 .. Len(t) \subseteq Workers,
           findings = recorded, UNCHANGED <<findings, recorded>>
    PROVE  Noted'
<1>1. /\ phase' = "work" /\ Team' \subseteq Workers
      /\ \A i \in Workers : ~w'[i].found
  BY RoundStarts
<1>2. Merged' = findings'
  BY <1>1 DEF Merged
<1> QED
  BY <1>1, <1>2 DEF Noted, FindingsReachSynth

LEMMA NotedStep == ASSUME Crew, Noted, [Next]_vars PROVE Noted'
<1>1. CASE UNCHANGED vars
  BY <1>1 DEF Noted, FindingsReachSynth, Merged, Team, vars, agentVars
<1>2. CASE Plan
  <2>1. findings = recorded /\ UNCHANGED <<findings, recorded>>
    BY <1>2 DEF Plan, Noted
  <2> QED
    BY <1>2, <2>1, PlanStarts, NotedAtStart
<1>3. CASE Review
  <2>1. findings = recorded /\ UNCHANGED <<findings, recorded>>
    BY <1>3 DEF Review, Noted, FindingsReachSynth
  <2>2. CASE \E n \in 1 .. MaxFollowups : Start(Generic(n))
    BY <2>1, <2>2, ReviewStarts, NotedAtStart
  <2>3. CASE phase' = "synth"
    BY <2>1, <2>3 DEF Noted, FindingsReachSynth
  <2> QED
    BY <1>3, <2>2, <2>3 DEF Review
<1>4. ASSUME NEW i \in Workers, Worker(i) PROVE Noted'
  <2>1. phase = "work" /\ Turned(i) /\ WorkOnly
    BY <1>4, WorkerTurns
  <2>2. i \in Team /\ Team' = Team /\ Team \subseteq Workers /\ recorded = Merged
    BY <2>1 DEF Crew, Turned, WorkOnly, Team, Noted
  <2>3. phase' = "work" /\ findings' = findings /\ round' = round
    BY <2>1 DEF WorkOnly
  <2>4. CASE recorded' = recorded /\ w'[i].found = w[i].found
    <3>1. \A j \in Team : w'[j].found = w[j].found
      BY <2>1, <2>2, <2>4 DEF Turned
    <3>2. Merged' = Merged
      BY <2>2, <2>3, <3>1 DEF Merged
    <3> QED
      BY <2>2, <2>3, <2>4, <3>2 DEF Noted, FindingsReachSynth
  <2>5. CASE recorded' = recorded \cup {<<round, i>>} /\ w'[i].found
    <3>1. \A j \in Team : w'[j].found = (w[j].found \/ j = i)
      BY <2>1, <2>2, <2>5 DEF Turned, Crew, Records
    <3>2. Merged' = Merged \cup {<<round, i>>}
      BY <2>2, <2>3, <3>1 DEF Merged
    <3> QED
      BY <2>2, <2>3, <2>5, <3>2 DEF Noted, FindingsReachSynth
  <2> QED
    BY <2>1, <2>4, <2>5 DEF Turned
<1>5. CASE Next /\ ~Plan /\ ~Review /\ \A i \in Workers : ~Worker(i)
  <2>1. UNCHANGED <<w, plan, round, recorded>>
    BY <1>5, OthersKeepCrew
  <2>2. CASE phase' = phase /\ findings' = findings
    BY <2>1, <2>2 DEF Noted, FindingsReachSynth, Merged, Team
  <2>3. CASE Joined
    <3>1. recorded = Merged /\ phase' \in {"over", "review"}
          /\ (phase' = "review" => findings' = Merged)
      BY <2>3 DEF Joined, Noted
    <3> QED
      BY <2>1, <3>1 DEF Noted, FindingsReachSynth
  <2>4. CASE CallPlanner \/ SkipReview \/ CallReviewer \/ CallSynth
    BY <2>4 DEF CallPlanner, SkipReview, CallReviewer, CallSynth, GoTo, Noted, FindingsReachSynth
  <2>5. CASE Synth
    BY <2>5 DEF Synth, Noted, FindingsReachSynth
  <2>6. CASE CallFails
    BY <2>6 DEF CallFails, Fail, GoTo, Noted, FindingsReachSynth
  <2>7. CASE Stop \/ Terminated
    BY <2>2, <2>7 DEF Stop, Terminated, vars, agentVars
  <2> QED
    BY <1>5, <2>3, <2>4, <2>5, <2>6, <2>7 DEF Next, Graph
<1> QED
  BY <1>1, <1>2, <1>3, <1>4, <1>5

(* Every finding any worker noted is in front of the reviewer and the      *)
(* synthesiser (the operator.add of state["findings"] over _fan's workers).*)
THEOREM NoFindingIsLost == Spec => []FindingsReachSynth
<1>1. Init => Crew /\ Noted
  BY CrewInit DEF Init, Noted, FindingsReachSynth
<1>2. Crew /\ Noted /\ [Next]_vars => Crew' /\ Noted'
  BY CrewStep, NotedStep
<1>3. Noted => FindingsReachSynth
  BY DEF Noted
<1> QED
  BY <1>1, <1>2, <1>3, PTL DEF Spec

(* Both: no worker is ignored, and none leaves in silence. *)
THEOREM EveryWorkerIsHeard == Spec => []WorkersAreHeard
<1>1. FindingsReachSynth /\ SilenceWasAskedAbout => WorkersAreHeard
  BY DEF WorkersAreHeard
<1> QED
  BY <1>1, NobodyLeavesUnasked, NoFindingIsLost, PTL

-----------------------------------------------------------------------------
(* The loop of page_result, and the page it leaves. *)
LEMMA CutTyped ==
    ASSUME NEW D, NEW take \in [D -> Int], NEW f PROVE Cut(take, f) \in [D -> Int]
BY DEF Cut

(* The loop of page_result as the list of what its turns leave. *)
Turning(res, offsets) ==
    [take \in [DOMAIN res -> Int] |->
        LET f == Widest(take)
        IN IF Size(res, offsets, take) <= Cap \/ LastRow(take, f) THEN take ELSE Cut(take, f)]

Turns(t, res, offsets) ==
    t = [n \in 1 .. MaxTurns |-> IF n = 1 THEN Remaining(res, offsets)
                                          ELSE Turning(res, offsets)[t[n - 1]]]

LEMMA TakeTurns ==
    ASSUME NEW res, NEW offsets, Remaining(res, offsets) \in [DOMAIN res -> Int]
    PROVE  \E t : Turns(t, res, offsets) /\ Take(res, offsets) = t[MaxTurns]
<1> DEFINE T == [DOMAIN res -> Int]
           all == Remaining(res, offsets)
           g == Turning(res, offsets)
           t == CHOOSE t : Turns(t, res, offsets)
<1>1. g \in [T -> T]
  BY CutTyped DEF Turning
<1>2. Take(res, offsets) = t[MaxTurns]
  BY DEF Take, Turns, Turning
<1>3. \E h : Turns(h, res, offsets)
  <2> HIDE DEF T, all, g
  <2>1. PICK h : Iterated(h, T, g, all, MaxTurns)
    <3>1. MaxTurns \in Nat
      BY PagesAssumption
    <3>2. Closed(T, g, all)
      BY <1>1 DEF Closed, T, all
    <3> QED
      BY <3>1, <3>2, Iterates
  <2>2. Turns(h, res, offsets)
    BY <2>1 DEF Iterated, Turns, all, g
  <2> QED
    BY <2>2
<1>4. Turns(t, res, offsets)
  BY <1>3
<1> HIDE DEF t
<1> QED
  BY <1>2, <1>4

(* What the first page has and no turn of the loop takes away, the last    *)
(* page has.                                                               *)
LEMMA TakeKeeps ==
    ASSUME NEW res, NEW offsets, Remaining(res, offsets) \in [DOMAIN res -> Int],
           NEW S \in SUBSET [DOMAIN res -> Int], Remaining(res, offsets) \in S,
           \A take \in S : LastRow(take, Widest(take)) \/ Cut(take, Widest(take)) \in S
    PROVE  Take(res, offsets) \in S
<1>1. PICK t : Turns(t, res, offsets) /\ Take(res, offsets) = t[MaxTurns]
  BY TakeTurns
<1>2. \A take \in S : Turning(res, offsets)[take] \in S
  BY DEF Turning
<1>3. MaxTurns \in 1 .. MaxTurns /\ MaxTurns \in Nat
  BY PagesAssumption
<1> DEFINE Good == {n \in 1 .. MaxTurns : t[n] \in S}
<1>4. 1 \in Good
  BY <1>1, <1>3 DEF Turns
<1>5. ASSUME NEW n \in Good, n \in 1 .. MaxTurns - 1 PROVE n + 1 \in Good
  <2>1. n \in Nat /\ n + 1 \in 1 .. MaxTurns /\ n + 1 # 1 /\ n + 1 - 1 = n /\ t[n] \in S
    BY <1>3, <1>5
  <2>2. t[n + 1] = Turning(res, offsets)[t[n]]
    BY <1>1, <2>1 DEF Turns
  <2> QED
    BY <1>2, <2>1, <2>2
<1>6. 1 .. MaxTurns \subseteq Good
  <2> HIDE DEF Good
  <2> QED
    BY <1>3, <1>4, <1>5, UpTo
<1> QED
  BY <1>1, <1>3, <1>6

LEMMA TakeTyped ==
    ASSUME NEW res, NEW offsets, \A f \in DOMAIN res : res[f] \in Seq(Nat) /\ offsets[f] \in Nat
    PROVE  Take(res, offsets) \in [DOMAIN res -> Int]
<1>1. Remaining(res, offsets) \in [DOMAIN res -> Int]
  BY DEF Remaining
<1> DEFINE T == [DOMAIN res -> Int]
<1>2. \A take \in T : Cut(take, Widest(take)) \in T
  BY CutTyped
<1> QED
  BY <1>1, <1>2, TakeKeeps

(* A loop that begins with rows ends with rows: the last one is not cut.   *)
LEMMA TakeTakesSome ==
    ASSUME NEW res, NEW offsets, \A f \in DOMAIN res : res[f] \in Seq(Nat) /\ offsets[f] \in Nat,
           \A f \in DOMAIN res : offsets[f] <= Len(res[f]),
           \E f \in DOMAIN res : offsets[f] # Len(res[f])
    PROVE  \E f \in DOMAIN res : Take(res, offsets)[f] > 0 /\ offsets[f] < Len(res[f])
<1> DEFINE T == [DOMAIN res -> Int]
           all == Remaining(res, offsets)
           Within(take) == \A f \in DOMAIN res : take[f] <= all[f]
           S == {take \in [DOMAIN res -> Nat] : Within(take) /\ \E f \in DOMAIN res : take[f] # 0}
<1>1. /\ all \in [DOMAIN res -> Nat] /\ all \in T /\ \E f \in DOMAIN res : all[f] # 0
      /\ \A f \in DOMAIN res : all[f] = Len(res[f]) - offsets[f]
  BY DEF Remaining
<1> HIDE DEF all
<1>2. S \in SUBSET T /\ all \in S
  BY <1>1
<1>3. ASSUME NEW take \in S, NEW f, ~LastRow(take, f) PROVE Cut(take, f) \in S
  <2>1. Cut(take, f) \in [DOMAIN res -> Nat]
    BY DEF Cut
  <2>2. \E h \in DOMAIN res : Cut(take, f)[h] # 0
    BY <1>3, <2>1 DEF LastRow
  <2>3. Within(Cut(take, f))
    <3> SUFFICES ASSUME NEW h \in DOMAIN res PROVE Cut(take, f)[h] <= take[h]
      BY <1>1, <2>1
    <3>1. take[h] \in Nat /\ (take[h] > 1 => take[h] \div 2 <= take[h])
      OBVIOUS
    <3>2. /\ Cut(take, f)[h] \in {take[h], 0, take[h] \div 2}
          /\ \/ Cut(take, f)[h] \in {take[h], 0}
             \/ take[h] > 1
      BY DEF Cut
    <3> QED
      BY <3>1, <3>2
  <2> HIDE DEF Within
  <2> QED
    BY <2>1, <2>2, <2>3
<1>4. Take(res, offsets) \in S
  <2> HIDE DEF S, T
  <2>1. \A take \in S : LastRow(take, Widest(take)) \/ Cut(take, Widest(take)) \in S
    BY <1>3
  <2> QED
    BY <1>1, <1>2, <2>1, TakeKeeps DEF T, all
<1>5. PICK f \in DOMAIN res : Take(res, offsets)[f] # 0
  BY <1>4
<1>6. Take(res, offsets)[f] \in Nat /\ Take(res, offsets)[f] <= all[f]
  BY <1>4
<1>7. Len(res[f]) \in Nat /\ offsets[f] \in Nat /\ all[f] = Len(res[f]) - offsets[f]
  BY <1>1
<1>8. Take(res, offsets)[f] > 0 /\ offsets[f] < Len(res[f])
  BY <1>5, <1>6, <1>7
<1> QED
  BY <1>8

LEMMA ChunkFits ==
    ASSUME NEW rows, rows \in Seq(Nat), NEW start \in Nat, NEW n \in Int
    PROVE  /\ Len(Chunk(rows, start, n)) \in Nat
           /\ Len(Chunk(rows, start, n)) # 0 => start + Len(Chunk(rows, start, n)) <= Len(rows)
           /\ n > 0 /\ start < Len(rows) => Len(Chunk(rows, start, n)) # 0
<1> DEFINE end == Min({Len(rows), start + n})
<1>1. end \in Int /\ end <= Len(rows) /\ end \in {Len(rows), start + n}
  <2>1. Len(rows) \in Int /\ start + n \in Int
    OBVIOUS
  <2>2. \E x \in {Len(rows), start + n} : \A y \in {Len(rows), start + n} : x <= y
    <3>1. CASE Len(rows) <= start + n
      BY <2>1, <3>1
    <3>2. CASE ~(Len(rows) <= start + n)
      BY <2>1, <3>2
    <3> QED
      BY <3>1, <3>2
  <2>3. end \in {Len(rows), start + n} /\ \A y \in {Len(rows), start + n} : end <= y
    BY <2>2 DEF Min
  <2> QED
    BY <2>1, <2>3
<1> HIDE DEF end
<1>2. Chunk(rows, start, n) = SubSeq(rows, start + 1, end)
  BY DEF Chunk, end
<1>3. Len(SubSeq(rows, start + 1, end)) = IF start + 1 <= end THEN end - start ELSE 0
  BY <1>1
<1> QED
  BY <1>1, <1>2, <1>3

LEMMA NextRowsTyped ==
    ASSUME NEW res, NEW offsets, \A f \in DOMAIN res : res[f] \in Seq(Nat) /\ offsets[f] \in Nat
    PROVE  /\ NextRows(res, offsets) \in [DOMAIN res -> Nat]
           /\ \A f \in DOMAIN res : NextRows(res, offsets)[f] # 0 =>
                  offsets[f] + NextRows(res, offsets)[f] <= Len(res[f])
<1> DEFINE take == Take(res, offsets)
<1>1. take \in [DOMAIN res -> Int]
  BY TakeTyped
<1>2. NextRows(res, offsets) = [f \in DOMAIN res |-> Len(Chunk(res[f], offsets[f], take[f]))]
  BY <1>1 DEF NextRows
<1> HIDE DEF take
<1>3. ASSUME NEW f \in DOMAIN res
      PROVE  /\ Len(Chunk(res[f], offsets[f], take[f])) \in Nat
             /\ Len(Chunk(res[f], offsets[f], take[f])) # 0 =>
                    offsets[f] + Len(Chunk(res[f], offsets[f], take[f])) <= Len(res[f])
  BY <1>1, ChunkFits
<1> QED
  BY <1>2, <1>3

LEMMA NextRowsShowSome ==
    ASSUME NEW res, NEW offsets, \A f \in DOMAIN res : res[f] \in Seq(Nat) /\ offsets[f] \in Nat,
           \A f \in DOMAIN res : offsets[f] <= Len(res[f]),
           \E f \in DOMAIN res : offsets[f] # Len(res[f])
    PROVE  \E f \in DOMAIN res : NextRows(res, offsets)[f] # 0
<1> DEFINE take == Take(res, offsets)
<1>1. take \in [DOMAIN res -> Int]
  BY TakeTyped
<1>2. NextRows(res, offsets) = [f \in DOMAIN res |-> Len(Chunk(res[f], offsets[f], take[f]))]
  BY <1>1 DEF NextRows
<1>3. PICK f \in DOMAIN res : take[f] > 0 /\ offsets[f] < Len(res[f])
  BY TakeTakesSome
<1> HIDE DEF take
<1>4. Len(Chunk(res[f], offsets[f], take[f])) # 0
  BY <1>1, <1>3, ChunkFits
<1> QED
  BY <1>2, <1>4

(* The number of binary digits: a field that is halved loses one.          *)
IsDigits(digits) ==
    /\ digits \in [Nat -> Nat]
    /\ digits[0] = 0
    /\ \A n \in Nat \ {0} : digits[n] = 1 + digits[n \div 2]

LEMMA DigitsGrow ==
    ASSUME NEW digits, IsDigits(digits)
    PROVE  \A n \in Nat : \A m \in 0 .. n : digits[m] <= digits[n]
<1> DEFINE Bad == {n \in Nat : \E m \in 0 .. n : ~(digits[m] <= digits[n])}
<1>1. ASSUME Bad # {} PROVE FALSE
  <2>1. PICK n \in Bad : \A k \in Bad : n <= k
    <3>1. Bad \subseteq Nat
      OBVIOUS
    <3> HIDE DEF Bad
    <3> QED
      BY <1>1, <3>1, Least
  <2>2. PICK m \in 0 .. n : ~(digits[m] <= digits[n])
    BY <2>1
  <2>3. n \in Nat /\ m \in Nat /\ digits[n] \in Nat /\ m # 0 /\ n # 0
    BY <2>2 DEF IsDigits
  <2> DEFINE nn == n \div 2
             mm == m \div 2
  <2>4. nn \in Nat /\ mm \in 0 .. nn /\ nn < n
    BY <2>2, <2>3
  <2>5. digits[n] = 1 + digits[nn] /\ digits[m] = 1 + digits[mm]
    BY <2>3 DEF IsDigits
  <2> HIDE DEF nn, mm
  <2>6. nn \notin Bad
    BY <2>1, <2>3, <2>4
  <2>7. digits[mm] <= digits[nn]
    BY <2>4, <2>6
  <2>8. digits[mm] \in Nat /\ digits[nn] \in Nat
    BY <2>4 DEF IsDigits
  <2> QED
    BY <2>2, <2>5, <2>7, <2>8
<1> QED
  BY <1>1

LEMMA WidestIs ==
    ASSUME NEW D, IsFiniteSet(D), D \subseteq Nat, D # {}, NEW take \in [D -> Nat]
    PROVE  Widest(take) \in D /\ \A g \in D : take[g] <= take[Widest(take)]
<1>1. PICK c \in D : \A d \in D : take[d] <= take[c]
  BY Largest
<1> DEFINE W == {d \in D : take[d] = take[c]}
<1>2. PICK f \in W : \A d \in W : f <= d
  <2>1. W \subseteq Nat /\ W # {}
    OBVIOUS
  <2> HIDE DEF W
  <2> QED
    BY <2>1, Least
<1> DEFINE Is(x) == \A g \in D : take[g] < take[x] \/ (take[g] = take[x] /\ x <= g)
<1>3. f \in D /\ Is(f)
  BY <1>1, <1>2
<1>4. Widest(take) = CHOOSE x \in D : Is(x)
  BY DEF Widest
<1>5. Widest(take) \in D /\ Is(Widest(take))
  <2> HIDE DEF Is
  <2> QED
    BY <1>3, <1>4
<1> QED
  <2> DEFINE wide == Widest(take)
  <2>1. wide \in D /\ \A g \in D : take[g] < take[wide] \/ (take[g] = take[wide] /\ wide <= g)
    BY <1>5
  <2> HIDE DEF wide
  <2>2. \A g \in D : take[g] \in Nat /\ take[wide] \in Nat
    BY <2>1
  <2>3. \A g \in D : take[g] <= take[wide]
    BY <2>1, <2>2
  <2> QED
    BY <2>1, <2>3 DEF wide

LEMMA CutKeeps ==
    ASSUME NEW D, NEW take \in [D -> Nat], NEW f
    PROVE  /\ Cut(take, f) \in [D -> Nat]
           /\ \A g \in D : Cut(take, f)[g] = IF g # f THEN take[g] ELSE take[g] \div 2
<1>1. \A n \in Nat : n \div 2 \in Nat /\ (n <= 1 => n \div 2 = 0)
  OBVIOUS
<1> QED
  BY <1>1 DEF Cut

(* The digits of what is left in the page. *)
Halvings(take, digits) == Sum([f \in DOMAIN take |-> digits[take[f]]], DOMAIN take)

(* The loop stops here. *)
Settled(res, offsets, take) ==
    Size(res, offsets, take) <= Cap \/ LastRow(take, Widest(take))

LEMMA TurnTakesADigit ==
    ASSUME NEW D, IsFiniteSet(D), D \subseteq Nat, NEW take \in [D -> Nat],
           ~LastRow(take, Widest(take)), NEW cut, cut = Cut(take, Widest(take)),
           NEW digits, IsDigits(digits)
    PROVE  /\ cut \in [D -> Nat] /\ \A g \in D : cut[g] <= take[g]
           /\ Halvings(cut, digits) \in Nat \ {0}
           /\ Halvings(take, digits) \in Nat /\ Halvings(cut, digits) < Halvings(take, digits)
<1>0. PICK f : f = Widest(take)
  OBVIOUS
<1>1. /\ cut \in [D -> Nat]
      /\ \A g \in D : cut[g] = IF g # f THEN take[g] ELSE take[g] \div 2
  <2>1. cut = Cut(take, f)
    BY <1>0
  <2>2. /\ Cut(take, f) \in [D -> Nat]
        /\ \A g \in D : Cut(take, f)[g] = IF g # f THEN take[g] ELSE take[g] \div 2
    BY ONLY CutKeeps, take \in [D -> Nat]
  <2> QED
    BY ONLY <2>1, <2>2
<1>2. \E g \in D : take[g] # 0
  <2> SUFFICES ASSUME \A g \in D : take[g] = 0 PROVE FALSE
    OBVIOUS
  <2>1. \A g \in D : cut[g] = 0
    BY <1>1
  <2>2. cut = [g \in D |-> 0]
    BY <1>1, <2>1
  <2> QED
    BY <1>0, <2>2 DEF LastRow
<1>3. f \in D /\ \A g \in D : take[g] <= take[f]
  BY <1>0, <1>2, WidestIs
<1>4. take[f] \in Nat \ {0}
  BY <1>2, <1>3
<1>5. digits[take[f]] = digits[cut[f]] + 1
  BY <1>1, <1>3, <1>4 DEF IsDigits
<1>6. PICK g, h : g = [x \in D |-> digits[cut[x]]] /\ h = [x \in D |-> digits[take[x]]]
  OBVIOUS
<1>7. g \in [D -> Nat] /\ h \in [D -> Nat]
  BY <1>1, <1>6 DEF IsDigits
<1>8. Halvings(cut, digits) = Sum(g, D) /\ Halvings(take, digits) = Sum(h, D)
  BY <1>1, <1>6 DEF Halvings
<1>9. Sum(g, D) \in Nat /\ Sum(h, D) \in Nat /\ Sum(g, D) < Sum(h, D)
  <2>1. h[f] = g[f] + 1 /\ \A x \in D : x # f => h[x] = g[x]
    BY <1>1, <1>3, <1>5, <1>6
  <2> QED
    BY ONLY <1>3, <1>7, <2>1, IsFiniteSet(D), SumGrows
<1>10. Sum(g, D) # 0
  <2>1. PICK x \in D : cut[x] # 0
    BY <1>0, <1>1 DEF LastRow, Cut
  <2>2. cut[x] \in Nat /\ g[x] # 0
    <3>1. cut[x] \in Nat \ {0}
      BY <1>1, <2>1
    <3>2. digits[cut[x]] = 1 + digits[cut[x] \div 2] /\ digits[cut[x] \div 2] \in Nat
      BY <3>1 DEF IsDigits
    <3> QED
      BY <1>6, <3>1, <3>2
  <2> QED
    BY ONLY <1>7, <2>1, <2>2, IsFiniteSet(D), SumPositive
<1>11. \A x \in D : cut[x] <= take[x]
  <2> TAKE x \in D
  <2>1. take[x] \in Nat /\ take[x] \div 2 <= take[x]
    OBVIOUS
  <2> QED
    BY <1>1, <2>1
<1> QED
  BY <1>0, <1>1, <1>8, <1>9, <1>10, <1>11

(* The loop of page_result settles within as many turns as the rows'       *)
(* numbers have digits: the last digit is never taken.                     *)
LEMMA LoopSettles ==
    ASSUME NEW res, NEW offsets, IsFiniteSet(DOMAIN res), DOMAIN res \subseteq Nat,
           \A f \in DOMAIN res : res[f] \in Seq(Nat) /\ offsets[f] \in 0 .. Len(res[f]),
           NEW digits, IsDigits(digits),
           Sum([f \in DOMAIN res |-> digits[Len(res[f])]], DOMAIN res) <= MaxTurns
    PROVE  LET take == Take(res, offsets)
           IN /\ Settled(res, offsets, take) /\ take \in [DOMAIN res -> Nat]
              /\ \A f \in DOMAIN res : take[f] <= Len(res[f]) - offsets[f]
<1> DEFINE D == DOMAIN res
           all == Remaining(res, offsets)
           lens == [f \in D |-> digits[Len(res[f])]]
<1>1. /\ all \in [D -> Nat] /\ all \in [D -> Int]
      /\ \A f \in D : all[f] = Len(res[f]) - offsets[f] /\ all[f] <= Len(res[f])
  BY DEF Remaining
<1>2. Halvings(all, digits) \in Nat /\ Halvings(all, digits) <= MaxTurns
  <2> DEFINE g == [f \in D |-> digits[all[f]]]
  <2>1. g \in [D -> Nat] /\ lens \in [D -> Nat]
    BY <1>1 DEF IsDigits
  <2>2. \A f \in D : g[f] <= lens[f]
    <3> TAKE f \in D
    <3>1. all[f] \in 0 .. Len(res[f]) /\ Len(res[f]) \in Nat
      BY <1>1
    <3> HIDE DEF all
    <3> QED
      BY <3>1, DigitsGrow
  <2>3. Halvings(all, digits) = Sum(g, D)
    BY <1>1 DEF Halvings
  <2> HIDE DEF g, D, all, lens
  <2>4. Sum(g, D) <= Sum(lens, D) /\ Sum(g, D) \in Nat /\ Sum(lens, D) \in Nat
    <3>1. IsFiniteSet(D)
      BY DEF D
    <3> QED
      BY <2>1, <2>2, <3>1, SumMonotone, SumType
  <2>5. Sum(lens, D) <= MaxTurns
    BY DEF lens, D
  <2> QED
    BY <2>3, <2>4, <2>5, PagesAssumption
<1>3. PICK t : Turns(t, res, offsets) /\ Take(res, offsets) = t[MaxTurns]
  BY <1>1, TakeTurns
<1> DEFINE Good == {n \in 1 .. MaxTurns :
                       /\ t[n] \in [D -> Nat] /\ \A f \in D : t[n][f] <= all[f]
                       /\ \/ Settled(res, offsets, t[n])
                          \/ Halvings(t[n], digits) \in Nat
                             /\ Halvings(t[n], digits) + n - 1 <= Halvings(all, digits)}
<1>4. MaxTurns \in Nat /\ MaxTurns \in 1 .. MaxTurns /\ 1 \in 1 .. MaxTurns
  BY PagesAssumption
<1> HIDE DEF D, all
<1>5. 1 \in Good
  <2>1. t[1] = all
    BY <1>3, <1>4 DEF Turns, all
  <2>2. \A f \in D : all[f] <= all[f]
    BY <1>1
  <2> QED
    BY <1>1, <1>2, <1>4, <2>1, <2>2
<1>6. ASSUME NEW n \in Good, n \in 1 .. MaxTurns - 1 PROVE n + 1 \in Good
  <2> DEFINE old == t[n]
             new == t[n + 1]
  <2>1. /\ n + 1 \in 1 .. MaxTurns /\ n \in Nat
        /\ old \in [D -> Nat] /\ old \in [D -> Int] /\ \A x \in D : old[x] <= all[x]
    BY <1>4, <1>6
  <2>2. new = IF Settled(res, offsets, old) THEN old ELSE Cut(old, Widest(old))
    <3>1. new = Turning(res, offsets)[old]
      BY <1>3, <1>6, <2>1 DEF Turns
    <3> HIDE DEF old, new
    <3> QED
      BY <2>1, <3>1 DEF Turning, Settled, D
  <2>3. CASE Settled(res, offsets, old)
    BY <2>1, <2>2, <2>3
  <2>4. CASE ~Settled(res, offsets, old)
    <3>1. Halvings(old, digits) \in Nat /\ Halvings(old, digits) + n - 1 <= Halvings(all, digits)
      BY <1>6, <2>4
    <3>2. ~LastRow(old, Widest(old)) /\ new = Cut(old, Widest(old))
      BY <2>2, <2>4 DEF Settled
    <3> HIDE DEF old, new
    <3>3. /\ new \in [D -> Nat] /\ \A x \in D : new[x] <= old[x]
          /\ Halvings(new, digits) \in Nat \ {0} /\ Halvings(old, digits) \in Nat
          /\ Halvings(new, digits) < Halvings(old, digits)
      <4>1. IsFiniteSet(D) /\ D \subseteq Nat
        BY DEF D
      <4>2. old \in [D -> Nat] /\ ~LastRow(old, Widest(old)) /\ new = Cut(old, Widest(old))
        BY <2>1, <3>2
      <4> QED
        BY ONLY <4>1, <4>2, IsDigits(digits), TurnTakesADigit
    <3>4. \A x \in D : new[x] <= all[x]
      BY <1>1, <2>1, <3>3
    <3>5. Halvings(new, digits) + (n + 1) - 1 <= Halvings(all, digits)
      BY <1>2, <2>1, <3>1, <3>3
    <3> QED
      BY <2>1, <3>3, <3>4, <3>5 DEF new
  <2> QED
    BY <2>3, <2>4
<1>7. MaxTurns \in Good
  <2> HIDE DEF Good
  <2>1. 1 .. MaxTurns \subseteq Good
    BY <1>4, <1>5, <1>6, UpTo
  <2> QED
    BY <1>4, <2>1
<1> DEFINE take == t[MaxTurns]
<1>8. take \in [D -> Nat] /\ \A f \in D : take[f] <= all[f]
  BY <1>7
<1>9. Settled(res, offsets, take)
  <2> SUFFICES ASSUME ~Settled(res, offsets, take) PROVE FALSE
    OBVIOUS
  <2>1. Halvings(take, digits) \in Nat /\ Halvings(take, digits) + MaxTurns - 1 <= Halvings(all, digits)
    BY <1>7
  <2>2. ~LastRow(take, Widest(take))
    BY DEF Settled
  <2> HIDE DEF take
  <2>3. Halvings(take, digits) \in Nat /\ Halvings(take, digits) > 1
    <3>1. IsFiniteSet(D) /\ D \subseteq Nat
      BY DEF D
    <3>2. PICK cut : cut = Cut(take, Widest(take))
      OBVIOUS
    <3>3. Halvings(take, digits) \in Nat /\ Halvings(cut, digits) \in Nat \ {0}
          /\ Halvings(cut, digits) < Halvings(take, digits)
      BY ONLY <1>8, <2>2, <3>1, <3>2, IsDigits(digits), TurnTakesADigit
    <3> QED
      BY <3>3
  <2> QED
    BY <1>2, <1>4, <2>1, <2>3
<1> QED
  BY <1>1, <1>3, <1>8, <1>9 DEF D

(* Hypothesis of PagesAlwaysAdvance: the binary digits of a result's row   *)
(* counts, all of them together, are no more than the loop has turns.      *)
TurnsSuffice ==
    \E digits : /\ IsDigits(digits)
                /\ \A res \in Results :
                      Sum([f \in DOMAIN res |-> digits[Len(res[f])]], DOMAIN res) <= MaxTurns

(* A loop that gave up left nothing or one row. *)
LEMMA NothingOrARow ==
    ASSUME NEW D, IsFiniteSet(D), D \subseteq Nat, NEW take \in [D -> Nat],
           LastRow(take, Widest(take))
    PROVE  Sum(take, D) <= 1
<1>1. CASE D = {}
  <2>1. Sum(take, D) = 0
    BY <1>1, SumOfNothing
  <2> QED
    BY <2>1
<1>2. CASE D # {}
  <2>1. PICK f \in D : f = Widest(take)
    BY <1>2, WidestIs
  <2>2. PICK none : none = [g \in D |-> 0]
    OBVIOUS
  <2>3. \A g \in D : Cut(take, f)[g] = 0
    BY <2>1 DEF LastRow
  <2>9. \A g \in D : Cut(take, f)[g] = IF g # f THEN take[g] ELSE take[g] \div 2
    BY ONLY CutKeeps, take \in [D -> Nat]
  <2>4. take[f] \in Nat /\ take[f] <= 1
    <3>1. take[f] \div 2 = 0 /\ take[f] \in Nat
      BY <2>3, <2>9
    <3> QED
      BY <3>1
  <2>5. \A g \in D : g # f => take[g] = none[g]
    BY <2>2, <2>3, <2>9
  <2>6. none \in [D -> Nat] /\ take[f] = none[f] + take[f] /\ \A g \in D : none[g] = 0
    BY <2>2, <2>4
  <2>7. Sum(none, D) = 0
    BY ONLY <2>6, IsFiniteSet(D), SumOfNothing
  <2>8. Sum(take, D) = Sum(none, D) + take[f]
    BY ONLY <2>4, <2>5, <2>6, IsFiniteSet(D), take \in [D -> Nat], f \in D, SumGrows
  <2> QED
    BY <2>4, <2>7, <2>8
<1> QED
  BY <1>1, <1>2

(* A chunk within the rows is whole. *)
LEMMA ChunkWhole ==
    ASSUME NEW rows, rows \in Seq(Nat), NEW start \in Nat, NEW n \in Nat, start + n <= Len(rows)
    PROVE  Len(Chunk(rows, start, n)) = n
<1> DEFINE end == Min({Len(rows), start + n})
<1>1. end = start + n
  <2>1. Len(rows) \in Int /\ start + n \in Int
    OBVIOUS
  <2>2. \A x \in {Len(rows), start + n} : start + n <= x
    BY <2>1
  <2>3. end \in {Len(rows), start + n} /\ \A y \in {Len(rows), start + n} : end <= y
    BY <2>2 DEF Min
  <2> QED
    BY <2>1, <2>2, <2>3
<1>2. Chunk(rows, start, n) = SubSeq(rows, start + 1, end)
  BY DEF Chunk
<1> HIDE DEF end
<1>3. Len(SubSeq(rows, start + 1, end)) = IF start + 1 <= end THEN end - start ELSE 0
  BY <1>1
<1> QED
  BY <1>1, <1>2, <1>3

(* With turns enough the next page fits but for its footer, or is one row. *)
LEMMA PageFits ==
    ASSUME TurnsSuffice, NEW res \in Results, NEW at,
           \A f \in DOMAIN res : at[f] \in 0 .. Len(res[f])
    PROVE  \/ Size(res, at, NextRows(res, at)) <= Cap
           \/ Sum(NextRows(res, at), DOMAIN res) <= 1
<1>1. /\ IsFiniteSet(DOMAIN res) /\ DOMAIN res \subseteq Nat
      /\ \A f \in DOMAIN res : res[f] \in Seq(Nat) /\ Len(res[f]) \in Nat /\ at[f] \in Nat
  BY ResultsAssumption
<1>2. PICK digits : /\ IsDigits(digits)
                    /\ Sum([f \in DOMAIN res |-> digits[Len(res[f])]], DOMAIN res) <= MaxTurns
  BY DEF TurnsSuffice
<1> DEFINE take == Take(res, at)
<1>3. /\ Settled(res, at, take) /\ take \in [DOMAIN res -> Nat]
      /\ \A f \in DOMAIN res : take[f] <= Len(res[f]) - at[f]
  <2>1. \A f \in DOMAIN res : res[f] \in Seq(Nat) /\ at[f] \in 0 .. Len(res[f])
    BY <1>1
  <2> QED
    BY <1>1, <1>2, <2>1, LoopSettles
<1>4. NextRows(res, at) = take
  <2>1. NextRows(res, at) = [f \in DOMAIN res |-> Len(Chunk(res[f], at[f], take[f]))]
    <3>1. take \in [DOMAIN res -> Int]
      BY <1>3
    <3> QED
      BY <3>1 DEF NextRows
  <2> HIDE DEF take
  <2>2. ASSUME NEW f \in DOMAIN res PROVE Len(Chunk(res[f], at[f], take[f])) = take[f]
    <3>1. take[f] \in Nat /\ at[f] + take[f] <= Len(res[f])
      BY <1>1, <1>3
    <3> QED
      BY <1>1, <3>1, ChunkWhole
  <2> QED
    BY <1>3, <2>1, <2>2
<1> HIDE DEF take
<1>5. CASE Size(res, at, take) <= Cap
  BY <1>4, <1>5
<1>6. CASE LastRow(take, Widest(take))
  BY <1>1, <1>3, <1>4, <1>6, NothingOrARow
<1> QED
  BY <1>3, <1>5, <1>6 DEF Settled

-----------------------------------------------------------------------------
(* A cursor is a number of rows for every field that was shown.            *)
Cursors == UNION {[D -> Nat] : D \in SUBSET Nat}

(* Where a page starts. *)
Before(res, page, entry, f) ==
    IF page = 1 \/ f \notin DOMAIN entry.offsets THEN 0 ELSE entry.offsets[f]

(* What page_result does to the cursor of an entry.                        *)
MovesOn(p, res, page, entry) ==
    /\ \A f \in DOMAIN res : /\ f \in DOMAIN p.offsets
                             /\ p.offsets[f] = Before(res, page, entry, f) + p.rows[f]
                             /\ p.rows[f] # 0 => p.offsets[f] <= Len(res[f])
    /\ p.complete <=> \A f \in DOMAIN res : p.offsets[f] >= Len(res[f])

StaysPut(p, page, entry) == page # 1 => p.offsets = entry.offsets

PageTyped(p, res) ==
    /\ p.offsets \in Cursors /\ p.last \in 0 .. MaxPage /\ p.rows \in [DOMAIN res -> Nat]
    /\ p.refused \in BOOLEAN /\ p.complete \in BOOLEAN

LEMMA CursorTyped ==
    ASSUME NEW res \in Results, NEW offsets \in Cursors
    PROVE  /\ Cursor(offsets, res) \in Cursors
           /\ DOMAIN Cursor(offsets, res) = DOMAIN offsets \cup DOMAIN res
           /\ \A f \in DOMAIN offsets \cup DOMAIN res :
                 Cursor(offsets, res)[f] = IF f \in DOMAIN offsets THEN offsets[f] ELSE 0
<1>1. DOMAIN offsets \in SUBSET Nat /\ offsets \in [DOMAIN offsets -> Nat]
  BY DEF Cursors
<1>2. DOMAIN res \in SUBSET Nat
  BY ResultsAssumption
<1>3. Cursor(offsets, res) \in [DOMAIN offsets \cup DOMAIN res -> Nat]
  BY <1>1 DEF Cursor
<1>4. Cursor(offsets, res) \in Cursors
  BY <1>1, <1>2, <1>3 DEF Cursors
<1> QED
  BY <1>4 DEF Cursor

LEMMA NoCursor == <<>> \in Cursors /\ DOMAIN <<>> = {}
<1>1. <<>> \in [{} -> Nat]
  OBVIOUS
<1> QED
  BY <1>1 DEF Cursors

LEMMA PageResults ==
    ASSUME NEW res \in Results, NEW page \in 1 .. MaxPage, NEW entry,
           entry.offsets \in Cursors, entry.last \in 0 .. MaxPage
    PROVE  LET p == PageResult(res, page, entry)
           IN /\ PageTyped(p, res)
              /\ page = 1 => ~p.refused
              /\ p.refused => ~p.complete
              /\ p.refused \/ res = <<>> => StaysPut(p, page, entry)
              /\ ~p.refused => MovesOn(p, res, page, entry)
              /\ ~p.refused /\ res # <<>> /\ page # 1 => page = entry.last + 1
<1> DEFINE old == IF page = 1 THEN <<>> ELSE entry.offsets
           last == IF page = 1 THEN 0 ELSE entry.last
           at == Cursor(old, res)
           rows == NextRows(res, at)
           new == Advanced(at, rows)
           p == PageResult(res, page, entry)
<1>1. old \in Cursors /\ last \in 0 .. MaxPage
  BY NoCursor, PagesAssumption
<1>2. /\ at \in Cursors /\ DOMAIN at = DOMAIN old \cup DOMAIN res
      /\ \A f \in DOMAIN res : at[f] = Before(res, page, entry, f)
  <2>1. \A f \in DOMAIN res : (f \in DOMAIN old) = (page # 1 /\ f \in DOMAIN entry.offsets)
    BY NoCursor
  <2> HIDE DEF at
  <2>2. /\ at \in Cursors /\ DOMAIN at = DOMAIN old \cup DOMAIN res
        /\ \A f \in DOMAIN res : at[f] = IF f \in DOMAIN old THEN old[f] ELSE 0
    <3> HIDE DEF old
    <3>1. /\ Cursor(old, res) \in Cursors
          /\ DOMAIN Cursor(old, res) = DOMAIN old \cup DOMAIN res
          /\ \A f \in DOMAIN old \cup DOMAIN res :
                 Cursor(old, res)[f] = IF f \in DOMAIN old THEN old[f] ELSE 0
      BY ONLY <1>1, CursorTyped, res \in Results
    <3> QED
      BY <3>1 DEF at
  <2> QED
    BY <2>1, <2>2 DEF Before
<1>3. \A f \in DOMAIN res : res[f] \in Seq(Nat) /\ at[f] \in Nat
  <2> HIDE DEF at
  <2>1. at \in [DOMAIN at -> Nat]
    BY <1>2 DEF Cursors
  <2> QED
    BY <1>2, <2>1, ResultsAssumption
<1>4. /\ rows \in [DOMAIN res -> Nat]
      /\ \A f \in DOMAIN res : rows[f] # 0 => at[f] + rows[f] <= Len(res[f])
  <2> HIDE DEF at
  <2> QED
    BY <1>3, NextRowsTyped
<1>5. /\ new \in Cursors
      /\ \A f \in DOMAIN res : f \in DOMAIN new /\ new[f] = at[f] + rows[f]
  <2> HIDE DEF at, rows
  <2>1. DOMAIN at \in SUBSET Nat /\ at \in [DOMAIN at -> Nat]
    BY <1>2 DEF Cursors
  <2>2. new \in [DOMAIN at -> Nat]
    BY <2>1, <1>4 DEF Advanced
  <2>3. new \in Cursors
    <3> HIDE DEF new
    <3> QED
      BY <2>1, <2>2 DEF Cursors
  <2> QED
    BY <2>1, <2>3, <1>2, <1>4 DEF Advanced
<1> HIDE DEF old, last, at, rows, new
<1>6. CASE res = <<>>
  <2>1. p = [offsets |-> old, last |-> last, rows |-> <<>>, refused |-> FALSE, complete |-> TRUE]
    BY <1>6 DEF PageResult, old, last
  <2>2. DOMAIN res = {} /\ <<>> \in [{} -> Nat]
    BY <1>6
  <2> HIDE DEF p
  <2>3. PageTyped(p, res)
    BY <2>1, <2>2, <1>1 DEF PageTyped
  <2>4. MovesOn(p, res, page, entry)
    BY <2>1, <2>2 DEF MovesOn
  <2>5. StaysPut(p, page, entry)
    BY <2>1 DEF StaysPut, old
  <2> QED
    BY <2>1, <2>3, <2>4, <2>5, <1>6 DEF p
<1>7. CASE res # <<>> /\ page # last + 1
  <2>1. p = [offsets |-> old, last |-> last, rows |-> Zero(res), refused |-> TRUE,
             complete |-> FALSE]
    BY <1>7 DEF PageResult, old, last
  <2>2. page # 1
    BY <1>7 DEF last
  <2> HIDE DEF p
  <2>3. PageTyped(p, res)
    BY <2>1, <1>1 DEF PageTyped, Zero
  <2>4. StaysPut(p, page, entry)
    BY <2>1 DEF StaysPut, old
  <2> QED
    BY <2>1, <2>2, <2>3, <2>4 DEF p
<1>8. CASE res # <<>> /\ page = last + 1
  <2>1. p = [offsets |-> new, last |-> page, rows |-> rows, refused |-> FALSE,
             complete |-> \A f \in DOMAIN res : new[f] >= Len(res[f])]
    BY <1>8 DEF PageResult, old, last, at, rows, new
  <2> HIDE DEF p
  <2>2. PageTyped(p, res)
    BY <2>1, <1>4, <1>5 DEF PageTyped
  <2>3. MovesOn(p, res, page, entry)
    BY <2>1, <1>2, <1>4, <1>5 DEF MovesOn
  <2>4. page # 1 => page = entry.last + 1
    BY <1>8 DEF last
  <2> QED
    BY <2>1, <2>2, <2>3, <2>4, <1>8 DEF p
<1> QED
  BY <1>6, <1>7, <1>8

-----------------------------------------------------------------------------
Calls == {NoCall} \cup [page : 1 .. MaxPage, entry : Nat, res : Results]
Entries == [res : Results, offsets : Cursors, last : 0 .. MaxPage]
Views == [of : Nat, seen : UNION {[D -> Seq(Int)] : D \in SUBSET Nat},
          told : BOOLEAN, alone : BOOLEAN]

(* The cache of pages.  A later page is cut from the entry's own result.   *)
Booked ==
    /\ entries \in Seq(Entries) /\ cache \in 0 .. Len(entries)
    /\ call \in [Workers -> Calls] /\ view \in [Workers -> Views]
    /\ \A i \in Workers :
          /\ call[i].entry \in 0 .. Len(entries) /\ view[i].of \in 0 .. Len(entries)
          /\ call[i].page > 1 /\ call[i].entry # 0 => call[i].res = entries[call[i].entry].res

UpToCursor(e) == [f \in DOMAIN e.res |-> [k \in 1 .. e.offsets[f] |-> k]]

(* Whoever has the entry for himself has seen the rows up to its cursor.   *)
FollowsCursor(v, e) ==
    /\ v.seen = UpToCursor(e)
    /\ \A f \in DOMAIN e.res : /\ f \in DOMAIN e.offsets
                               /\ e.offsets[f] <= Len(e.res[f])
                               /\ v.told => e.offsets[f] = Len(e.res[f])

Followed ==
    \A i \in Workers : /\ view[i].told => view[i].of # 0
                       /\ view[i].alone => view[i].of # 0 /\ FollowsCursor(view[i], entries[view[i].of])

LEMMA NoViewYet == NoView \in Views /\ NoView.of = 0 /\ ~NoView.told /\ ~NoView.alone
<1>1. <<>> \in [{} -> Seq(Int)]
  OBVIOUS
<1> QED
  BY <1>1 DEF NoView, Views

LEMMA NoCallYet == NoCall \in Calls /\ NoCall.entry = 0 /\ NoCall.page = 0
BY DEF NoCall, Calls

LEMMA PageBegins == PageInit => Booked /\ Followed
BY NoViewYet, NoCallYet DEF PageInit, Booked, Followed

(* A round begins or ends.                                                 *)
LEMMA ViewsCleared ==
    ASSUME Booked, view' = [i \in Workers |-> NoView], UNCHANGED <<entries, cache, call>>
    PROVE  Booked' /\ Followed'
BY NoViewYet DEF Booked, Followed

LEMMA LookedUp ==
    ASSUME Booked, Followed, NEW i \in Workers, NEW p \in 1 .. MaxPage, Lookup(i, p)
    PROVE  Booked' /\ Followed'
<1>1. PICK r \in IF cache # 0 /\ p > 1 THEN {entries[cache].res} ELSE Results :
          call' = [call EXCEPT ![i] = [page |-> p, entry |-> cache, res |-> r]]
  BY DEF Lookup
<1>2. r \in Results /\ (cache # 0 /\ p > 1 => r = entries[cache].res)
  <2>1. cache # 0 => entries[cache] \in Entries
    BY DEF Booked
  <2> QED
    BY <1>1, <2>1 DEF Entries
<1>3. UNCHANGED <<entries, cache, view>>
  BY DEF Lookup
<1>4. Followed'
  BY <1>3 DEF Followed, FollowsCursor, UpToCursor
<1> DEFINE c == [page |-> p, entry |-> cache, res |-> r]
<1>5. c \in Calls /\ c.entry = cache /\ c.page = p /\ c.res = r
  BY <1>2 DEF Calls, Booked
<1>6. call' \in [Workers -> Calls]
  BY <1>1, <1>5 DEF Booked
<1>7. \A j \in Workers : call'[j] = IF j = i THEN c ELSE call[j]
  BY <1>1 DEF Booked
<1> HIDE DEF c
<1> QED
  BY <1>2, <1>3, <1>4, <1>5, <1>6, <1>7 DEF Booked

LEMMA Lengths ==
    ASSUME NEW s \in Seq(Int), NEW t \in Seq(Int) PROVE Len(s \o t) = Len(s) + Len(t)
OBVIOUS

LEMMA SeenMore ==
    ASSUME NEW a \in Nat, NEW n \in Nat
    PROVE  [k \in 1 .. a |-> k] \o [k \in 1 .. n |-> (a + n) - n + k] = [k \in 1 .. a + n |-> k]
<1> DEFINE s == [k \in 1 .. a |-> k]
           t == [k \in 1 .. n |-> (a + n) - n + k]
           u == [k \in 1 .. a + n |-> k]
<1>1. s \in Seq(Int) /\ t \in Seq(Int) /\ u \in Seq(Int) /\ Len(s) = a /\ Len(t) = n
      /\ Len(u) = a + n
  OBVIOUS
<1>2. \A k \in 1 .. a + n : (s \o t)[k] = u[k]
  <2> TAKE k \in 1 .. a + n
  <2>1. CASE k <= a
    BY <2>1, <1>1
  <2>2. CASE k > a
    BY <2>2, <1>1
  <2> QED
    BY <2>1, <2>2
<1> HIDE DEF s, t, u
<1>3. s \o t \in Seq(Int)
  BY <1>1
<1>4. Len(s \o t) = a + n
  <2>1. Len(s \o t) = Len(s) + Len(t)
    BY <1>1, Lengths
  <2> QED
    BY <1>1, <2>1
<1> QED
  BY <1>1, <1>2, <1>3, <1>4 DEF s, t, u

LEMMA Replaced ==
    ASSUME NEW S, NEW s \in Seq(S), NEW k \in 1 .. Len(s), NEW x \in S
    PROVE  LET t == [s EXCEPT ![k] = x]
           IN t \in Seq(S) /\ Len(t) = Len(s) /\ t[k] = x /\ \A j \in 1 .. Len(s) : j # k => t[j] = s[j]
OBVIOUS

(* The entry worker i's page is cut from, as it was, and the page.         *)
Fresh(i) == call[i].entry = 0
Used(i) == IF Fresh(i) THEN Len(entries) + 1 ELSE call[i].entry
Found(i) == IF Fresh(i) THEN [res |-> call[i].res, offsets |-> <<>>, last |-> 0] ELSE entries[Used(i)]
PageOf(i) == PageResult(call[i].res, call[i].page, Found(i))
Left(i) == [Found(i) EXCEPT !.offsets = PageOf(i).offsets, !.last = PageOf(i).last]

(* What a page leaves behind: the entry it was cut from, and the others.   *)
LEMMA EntryTurned ==
    ASSUME Booked, NEW i \in Workers, Page(i)
    PROVE  /\ call[i].page \in 1 .. MaxPage /\ call[i].res \in Results
           /\ call[i].page # 1 /\ ~Fresh(i) => call[i].res = entries[Used(i)].res
           /\ Found(i) \in Entries /\ Used(i) \in Nat \ {0}
           /\ PageTyped(PageOf(i), call[i].res)
           /\ call[i].page = 1 => ~PageOf(i).refused
           /\ PageOf(i).refused => ~PageOf(i).complete
           /\ PageOf(i).refused \/ call[i].res = <<>> => StaysPut(PageOf(i), call[i].page, Found(i))
           /\ ~PageOf(i).refused => MovesOn(PageOf(i), call[i].res, call[i].page, Found(i))
           /\ ~PageOf(i).refused /\ call[i].res # <<>> /\ call[i].page # 1 => ~Fresh(i)
           /\ entries' \in Seq(Entries)
           /\ Len(entries') = IF Fresh(i) THEN Len(entries) + 1 ELSE Len(entries)
           /\ Used(i) \in 1 .. Len(entries')
           /\ entries'[Used(i)].res = Found(i).res /\ entries'[Used(i)].offsets = PageOf(i).offsets
           /\ \A k \in 1 .. Len(entries) : k # Used(i) => entries'[k] = entries[k]
           /\ ~Fresh(i) => Used(i) \in 1 .. Len(entries) /\ Found(i) = entries[Used(i)]
           /\ Fresh(i) => Used(i) = Len(entries) + 1 /\ Found(i).res = call[i].res
<1> DEFINE c == call[i]
           fresh == Fresh(i)
           e == Used(i)
           old == Found(i)
           p == PageOf(i)
           new == Left(i)
<1>0. /\ c # NoCall
      /\ entries' = IF fresh THEN Append(entries, new)
                    ELSE [entries EXCEPT ![e].offsets = p.offsets, ![e].last = p.last]
  BY DEF Page, Fresh, Used, Found, PageOf, Left
<1>1. c \in [page : 1 .. MaxPage, entry : Nat, res : Results]
  BY <1>0 DEF Booked, Calls
<1>2. c.page \in 1 .. MaxPage /\ c.res \in Results /\ c.entry \in 0 .. Len(entries)
  BY <1>1 DEF Booked
<1>3. Len(entries) \in Nat /\ (~fresh => e \in 1 .. Len(entries) /\ entries[e] \in Entries)
  BY <1>2 DEF Booked, Fresh, Used
<1>4. old \in Entries
  <2>1. CASE fresh
    <3>1. 0 \in 0 .. MaxPage
      BY PagesAssumption
    <3> QED
      BY <2>1, <3>1, <1>2, NoCursor DEF Entries, Found
  <2>2. CASE ~fresh
    BY <2>2, <1>3 DEF Found
  <2> QED
    BY <2>1, <2>2
<1>5. old.offsets \in Cursors /\ old.last \in 0 .. MaxPage /\ old.res \in Results
  BY <1>4 DEF Entries
<1>6. /\ PageTyped(p, c.res)
      /\ c.page = 1 => ~p.refused
      /\ p.refused => ~p.complete
      /\ p.refused \/ c.res = <<>> => StaysPut(p, c.page, old)
      /\ ~p.refused => MovesOn(p, c.res, c.page, old)
      /\ ~p.refused /\ c.res # <<>> /\ c.page # 1 => c.page = old.last + 1
  BY <1>2, <1>5, PageResults DEF PageOf
<1>7. c.page # 1 /\ ~fresh => c.res = entries[e].res
  BY <1>2 DEF Booked, Fresh, Used
<1>8. ~p.refused /\ c.res # <<>> /\ c.page # 1 => ~fresh
  BY <1>6, <1>2 DEF Found
<1>9. new \in Entries /\ new.res = old.res /\ new.offsets = p.offsets
  BY <1>4, <1>6 DEF Entries, PageTyped, Left
<1>10. CASE fresh
  <2>1. entries' = Append(entries, new)
    BY <1>0, <1>10
  <2>2. /\ entries' \in Seq(Entries) /\ Len(entries') = Len(entries) + 1
        /\ e = Len(entries) + 1 /\ entries'[e] = new
        /\ \A k \in 1 .. Len(entries) : entries'[k] = entries[k]
    BY <2>1, <1>9, <1>10, <1>3 DEF Booked, Used
  <2>3. old.res = call[i].res
    BY <1>10 DEF Found
  <2> QED
    BY <2>2, <2>3, <1>2, <1>3, <1>4, <1>6, <1>7, <1>8, <1>9, <1>10
<1>11. CASE ~fresh
  <2>1. entries' = [entries EXCEPT ![e] = new]
    BY <1>0, <1>3, <1>11 DEF Booked, Left, Found
  <2>2. e \in 1 .. Len(entries) /\ entries \in Seq(Entries) /\ new \in Entries
    BY <1>3, <1>9, <1>11 DEF Booked
  <2>3. /\ entries' \in Seq(Entries) /\ Len(entries') = Len(entries) /\ entries'[e] = new
        /\ \A k \in 1 .. Len(entries) : k # e => entries'[k] = entries[k]
    BY ONLY <2>1, <2>2, Replaced
  <2>4. old = entries[e]
    BY <1>11 DEF Found
  <2>5. /\ c.page # 1 /\ ~fresh => c.res = entries[e].res
        /\ e \in Nat \ {0} /\ e \in 1 .. Len(entries')
        /\ entries'[e].res = old.res /\ entries'[e].offsets = p.offsets
    BY <1>7, <1>9, <2>2, <2>3
  <2> QED
    BY <2>2, <2>3, <2>4, <2>5, <1>2, <1>4, <1>6, <1>8, <1>11
<1> QED
  BY <1>10, <1>11

(* The rows of a served page, as the history notes them.                   *)
RowsOf(res, p) ==
    [f \in DOMAIN res |-> [k \in 1 .. p.rows[f] |-> p.offsets[f] - p.rows[f] + k]]

FirstView(res, p, e, alone) ==
    [of |-> e, seen |-> RowsOf(res, p), told |-> p.complete, alone |-> alone]
SeenMoreOf(v, res, p) ==
    [f \in DOMAIN res |-> (IF f \in DOMAIN v.seen THEN v.seen[f] ELSE <<>>) \o RowsOf(res, p)[f]]
LaterView(v, res, p, alone) ==
    [v EXCEPT !.seen = SeenMoreOf(v, res, p), !.told = p.complete, !.alone = alone]

LEMMA RowsTyped ==
    ASSUME NEW res \in Results, NEW p, PageTyped(p, res), NEW page, NEW old,
           MovesOn(p, res, page, old)
    PROVE  /\ \A f \in DOMAIN res : p.offsets[f] \in Nat /\ p.rows[f] \in Nat
                                    /\ RowsOf(res, p)[f] \in Seq(Int)
           /\ DOMAIN res \in SUBSET Nat /\ DOMAIN RowsOf(res, p) = DOMAIN res
<1>1. \A f \in DOMAIN res : f \in DOMAIN p.offsets /\ p.rows[f] \in Nat
  BY DEF PageTyped, MovesOn
<1>2. p.offsets \in [DOMAIN p.offsets -> Nat]
  BY DEF PageTyped, Cursors
<1>3. \A f \in DOMAIN res : p.offsets[f] \in Nat /\ p.rows[f] \in Nat
  BY <1>1, <1>2
<1>4. ASSUME NEW f \in DOMAIN res PROVE RowsOf(res, p)[f] \in Seq(Int)
  <2>1. RowsOf(res, p)[f] = [k \in 1 .. p.rows[f] |-> p.offsets[f] - p.rows[f] + k]
    BY DEF RowsOf
  <2>2. \A k \in 1 .. p.rows[f] : p.offsets[f] - p.rows[f] + k \in Int
    BY <1>3
  <2>3. RowsOf(res, p)[f] \in [1 .. p.rows[f] -> Int]
    BY <2>1, <2>2
  <2> QED
    BY <2>3, <1>3
<1>5. DOMAIN res \in SUBSET Nat
  BY ResultsAssumption
<1> QED
  BY <1>3, <1>4, <1>5 DEF RowsOf

(* Its first page: what it has seen is what the cursor passed.             *)
LEMMA FirstPage ==
    ASSUME NEW res \in Results, NEW p, PageTyped(p, res), NEW old, MovesOn(p, res, 1, old),
           NEW e \in Nat \ {0}, NEW alone \in BOOLEAN
    PROVE  /\ FirstView(res, p, e, alone) \in Views
           /\ FirstView(res, p, e, alone).of = e /\ FirstView(res, p, e, alone).alone = alone
           /\ \A x : x.res = res /\ x.offsets = p.offsets =>
                        FollowsCursor(FirstView(res, p, e, alone), x)
<1> DEFINE v == FirstView(res, p, e, alone)
<1>1. /\ \A f \in DOMAIN res : p.offsets[f] \in Nat /\ p.rows[f] \in Nat
                                /\ RowsOf(res, p)[f] \in Seq(Int)
      /\ DOMAIN res \in SUBSET Nat /\ DOMAIN RowsOf(res, p) = DOMAIN res
  BY RowsTyped
<1>2. RowsOf(res, p) \in UNION {[D -> Seq(Int)] : D \in SUBSET Nat}
  <2>1. RowsOf(res, p) \in [DOMAIN res -> Seq(Int)]
    BY <1>1 DEF RowsOf
  <2> QED
    BY <1>1, <2>1
<1>3. v \in Views
  BY <1>2 DEF Views, PageTyped, FirstView
<1>4. \A f \in DOMAIN res : f \in DOMAIN p.offsets /\ p.offsets[f] = p.rows[f]
  BY <1>1 DEF MovesOn, Before
<1>5. \A f \in DOMAIN res : res[f] \in Seq(Nat)
  BY ResultsAssumption
<1>6. \A f \in DOMAIN res : p.offsets[f] <= Len(res[f])
  BY <1>1, <1>4, <1>5 DEF MovesOn
<1>7. ASSUME NEW f \in DOMAIN res, p.complete PROVE p.offsets[f] = Len(res[f])
  BY <1>1, <1>5, <1>6, <1>7 DEF MovesOn
<1>8. RowsOf(res, p) = [f \in DOMAIN res |-> [k \in 1 .. p.offsets[f] |-> k]]
  <2>1. \A f \in DOMAIN res : [k \in 1 .. p.rows[f] |-> p.offsets[f] - p.rows[f] + k]
                              = [k \in 1 .. p.offsets[f] |-> k]
    BY <1>1, <1>4
  <2> QED
    BY <2>1 DEF RowsOf
<1>9. ASSUME NEW x, x.res = res, x.offsets = p.offsets PROVE FollowsCursor(v, x)
  BY <1>4, <1>6, <1>7, <1>8, <1>9 DEF FollowsCursor, UpToCursor, FirstView
<1> QED
  BY <1>3, <1>9 DEF FirstView

(* A later page: the rows follow on those seen.                            *)
LEMMA LaterPage ==
    ASSUME NEW res \in Results, NEW p, PageTyped(p, res), NEW page \in Nat \ {1}, NEW old,
           MovesOn(p, res, page, old), old \in Entries, NEW v \in Views, NEW alone \in BOOLEAN
    PROVE  /\ LaterView(v, res, p, alone) \in Views
           /\ LaterView(v, res, p, alone).of = v.of /\ LaterView(v, res, p, alone).alone = alone
           /\ \A x : x.res = res /\ old.res = res /\ x.offsets = p.offsets
                     /\ FollowsCursor(v, old) => FollowsCursor(LaterView(v, res, p, alone), x)
<1> DEFINE seen == SeenMoreOf(v, res, p)
           vv == LaterView(v, res, p, alone)
<1>1. /\ \A f \in DOMAIN res : p.offsets[f] \in Nat /\ p.rows[f] \in Nat
                                /\ RowsOf(res, p)[f] \in Seq(Int)
      /\ DOMAIN res \in SUBSET Nat
  BY RowsTyped
<1>2. seen \in UNION {[D -> Seq(Int)] : D \in SUBSET Nat}
  <2>1. PICK D \in SUBSET Nat : v.seen \in [D -> Seq(Int)]
    BY DEF Views
  <2>2. \A f \in DOMAIN res : (IF f \in DOMAIN v.seen THEN v.seen[f] ELSE <<>>) \in Seq(Int)
    <3> TAKE f \in DOMAIN res
    <3>1. CASE f \in DOMAIN v.seen
      BY <2>1, <3>1
    <3>2. CASE f \notin DOMAIN v.seen
      BY <3>2
    <3> QED
      BY <3>1, <3>2
  <2>3. seen \in [DOMAIN res -> Seq(Int)]
    BY <2>2, <1>1 DEF SeenMoreOf
  <2> QED
    BY <2>3, <1>1
<1>3. /\ vv \in Views /\ vv.of = v.of /\ vv.alone = alone /\ vv.seen = seen
      /\ vv.told = p.complete
  <2> QED
    BY <1>2 DEF Views, PageTyped, LaterView
<1>4. \A f \in DOMAIN res : res[f] \in Seq(Nat)
  BY ResultsAssumption
<1>5. ASSUME NEW x, x.res = res, old.res = res, x.offsets = p.offsets, FollowsCursor(v, old)
      PROVE  FollowsCursor(vv, x)
  <2>1. \A f \in DOMAIN res : /\ f \in DOMAIN old.offsets /\ old.offsets[f] \in Nat
                              /\ old.offsets[f] <= Len(res[f])
    <3>1. old.offsets \in [DOMAIN old.offsets -> Nat]
      BY DEF Entries, Cursors
    <3> QED
      BY <3>1, <1>5 DEF FollowsCursor
  <2>2. \A f \in DOMAIN res : /\ f \in DOMAIN p.offsets
                              /\ p.offsets[f] = old.offsets[f] + p.rows[f]
    BY <2>1 DEF MovesOn, Before
  <2>3. \A f \in DOMAIN res : p.offsets[f] <= Len(res[f])
    BY <1>1, <1>4, <2>1, <2>2 DEF MovesOn
  <2>4. ASSUME NEW f \in DOMAIN res, p.complete PROVE p.offsets[f] = Len(res[f])
    BY <1>1, <1>4, <2>3, <2>4 DEF MovesOn
  <2>5. ASSUME NEW f \in DOMAIN res PROVE seen[f] = [k \in 1 .. p.offsets[f] |-> k]
    <3>1. f \in DOMAIN v.seen /\ v.seen[f] = [k \in 1 .. old.offsets[f] |-> k]
      BY <1>5 DEF FollowsCursor, UpToCursor
    <3>2. RowsOf(res, p)[f] = [k \in 1 .. p.rows[f] |-> (old.offsets[f] + p.rows[f]) - p.rows[f] + k]
      BY <2>2 DEF RowsOf
    <3>3. seen[f] = [k \in 1 .. old.offsets[f] |-> k] \o RowsOf(res, p)[f]
      BY <3>1 DEF SeenMoreOf
    <3> DEFINE a == old.offsets[f]
               n == p.rows[f]
    <3>4. a \in Nat /\ n \in Nat /\ p.offsets[f] = a + n
      BY <2>1, <2>2, <1>1
    <3> HIDE DEF a, n
    <3>5. seen[f] = [k \in 1 .. a |-> k] \o [k \in 1 .. n |-> (a + n) - n + k]
      BY <3>2, <3>3 DEF a, n
    <3>6. seen[f] = [k \in 1 .. a + n |-> k]
      BY ONLY <3>4, <3>5, SeenMore
    <3> QED
      BY <3>4, <3>6
  <2>6. seen = [f \in DOMAIN res |-> [k \in 1 .. p.offsets[f] |-> k]]
    BY <2>5 DEF SeenMoreOf
  <2> QED
    BY <1>3, <1>5, <2>2, <2>3, <2>4, <2>6 DEF FollowsCursor, UpToCursor
<1> QED
  BY <1>3, <1>5

LEMMA PageTurned ==
    ASSUME Booked, Followed, NEW i \in Workers, Page(i) PROVE Booked' /\ Followed'
<1> DEFINE c == call[i]
           fresh == Fresh(i)
           e == Used(i)
           old == Found(i)
           p == PageOf(i)
<1>1. /\ \A j \in Workers : j # i =>
            view'[j] = [view[j] EXCEPT !.alone = @ /\ (p.refused \/ view[j].of # e)]
      /\ view' = [j \in Workers |-> view'[j]]
      /\ cache' = IF fresh THEN e ELSE cache
      /\ call' = [call EXCEPT ![i] = NoCall]
  BY DEF Page, Fresh, Used, Found, PageOf
<1>2. view'[i] =
        IF c.page = 1 THEN FirstView(c.res, p, e, c.res = entries'[e].res)
        ELSE IF p.refused \/ c.res = <<>> \/ view[i].of = 0 THEN view[i]
        ELSE [view[i] EXCEPT !.seen = SeenMoreOf(view[i], c.res, p), !.told = p.complete,
                             !.alone = @ /\ view[i].of = e]
  <2>1. view'[i] = Shown(i, e, p)
    BY DEF Page, Fresh, Used, Found, PageOf
  <2> QED
    BY <2>1 DEF Shown, RowsOf, FirstView, SeenMoreOf
<1>3. /\ c.page \in 1 .. MaxPage /\ c.res \in Results
      /\ c.page # 1 /\ ~fresh => c.res = entries[e].res
      /\ old \in Entries /\ e \in Nat \ {0}
      /\ PageTyped(p, c.res)
      /\ c.page = 1 => ~p.refused
      /\ p.refused => ~p.complete
      /\ p.refused \/ c.res = <<>> => StaysPut(p, c.page, old)
      /\ ~p.refused => MovesOn(p, c.res, c.page, old)
      /\ ~p.refused /\ c.res # <<>> /\ c.page # 1 => ~fresh
      /\ entries' \in Seq(Entries)
      /\ Len(entries') = IF fresh THEN Len(entries) + 1 ELSE Len(entries)
      /\ e \in 1 .. Len(entries')
      /\ entries'[e].res = old.res /\ entries'[e].offsets = p.offsets
      /\ \A k \in 1 .. Len(entries) : k # e => entries'[k] = entries[k]
      /\ ~fresh => e \in 1 .. Len(entries) /\ old = entries[e]
      /\ fresh => e = Len(entries) + 1 /\ old.res = c.res
  BY EntryTurned
<1>4. Len(entries) \in Nat /\ Len(entries') \in Nat /\ Len(entries) <= Len(entries')
  BY <1>3 DEF Booked
<1>5. \A k \in 1 .. Len(entries) : entries'[k].res = entries[k].res
  BY <1>3
<1>6. \A j \in Workers : view[j] \in Views /\ view[j].of \in 0 .. Len(entries)
  BY DEF Booked
(* Whoever is not served. *)
<1>7. ASSUME NEW j \in Workers, NEW v, v.of = view[j].of, v.seen = view[j].seen,
             v.told = view[j].told, v.alone => view[j].alone,
             v.alone /\ v.of = e => c.page # 1 /\ (p.refused \/ c.res = <<>>)
      PROVE  /\ v.told => v.of # 0
             /\ v.alone => v.of # 0 /\ FollowsCursor(v, entries'[v.of])
  <2>1. v.told => v.of # 0
    BY <1>7 DEF Followed
  <2>2. ASSUME v.alone PROVE v.of # 0 /\ FollowsCursor(v, entries'[v.of])
    <3>1. v.of # 0 /\ v.of \in 1 .. Len(entries) /\ FollowsCursor(view[j], entries[v.of])
      BY <1>6, <1>7, <2>2 DEF Followed
    <3>2. entries'[v.of].res = entries[v.of].res /\ entries'[v.of].offsets = entries[v.of].offsets
      <4>1. CASE v.of # e
        BY <4>1, <3>1, <1>3
      <4>2. CASE v.of = e
        <5>1. ~fresh
          BY <4>2, <3>1, <1>3, <1>4
        <5>2. StaysPut(p, c.page, old) /\ c.page # 1
          BY <4>2, <2>2, <1>3, <1>7
        <5> QED
          BY <4>2, <5>1, <5>2, <1>3 DEF StaysPut
      <4> QED
        BY <4>1, <4>2
    <3> QED
      BY <3>1, <3>2, <1>7 DEF FollowsCursor, UpToCursor
  <2> QED
    BY <2>1, <2>2
<1>8. ASSUME NEW j \in Workers, j # i
      PROVE  /\ view'[j] \in Views /\ view'[j].of \in 0 .. Len(entries')
             /\ view'[j].told => view'[j].of # 0
             /\ view'[j].alone => view'[j].of # 0 /\ FollowsCursor(view'[j], entries'[view'[j].of])
  <2>1. view'[j] = [view[j] EXCEPT !.alone = @ /\ (p.refused \/ view[j].of # e)]
    BY <1>1, <1>8
  <2>2. p.refused \in BOOLEAN
    BY <1>3 DEF PageTyped
  <2>3. /\ view'[j] \in Views /\ view'[j].of = view[j].of /\ view'[j].seen = view[j].seen
        /\ view'[j].told = view[j].told
        /\ view'[j].alone => view[j].alone /\ (p.refused \/ view[j].of # e)
    BY <2>1, <2>2, <1>6 DEF Views
  <2> QED
    BY <2>3, <1>3, <1>4, <1>6, <1>7
<1>9. /\ view'[i] \in Views /\ view'[i].of \in 0 .. Len(entries')
      /\ view'[i].told => view'[i].of # 0
      /\ view'[i].alone => view'[i].of # 0 /\ FollowsCursor(view'[i], entries'[view'[i].of])
  <2>1. CASE c.page = 1
    <3> DEFINE alone == c.res = entries'[e].res
    <3>1. view'[i] = FirstView(c.res, p, e, alone) /\ alone \in BOOLEAN
      BY <1>2, <2>1
    <3>2. MovesOn(p, c.res, 1, old) /\ PageTyped(p, c.res) /\ c.res \in Results /\ e \in Nat \ {0}
      BY <1>3, <2>1
    <3>3. /\ view'[i] \in Views /\ view'[i].of = e /\ view'[i].alone = alone
          /\ \A x : x.res = c.res /\ x.offsets = p.offsets => FollowsCursor(view'[i], x)
      <4> HIDE DEF alone, c
      <4> QED
        BY ONLY <3>1, <3>2, FirstPage
    <3>4. alone => FollowsCursor(view'[i], entries'[e])
      BY <3>3, <1>3
    <3> HIDE DEF alone
    <3> QED
      BY <3>3, <3>4, <1>3
  <2>2. CASE c.page # 1 /\ (p.refused \/ c.res = <<>> \/ view[i].of = 0)
    <3>1. view'[i] = view[i]
      BY <2>2, <1>2
    <3>2. view[i].alone => view[i].of # 0
      BY DEF Followed
    <3> QED
      BY <3>1, <3>2, <2>2, <1>4, <1>6, <1>7
  <2>3. CASE c.page # 1 /\ ~p.refused /\ c.res # <<>> /\ view[i].of # 0
    <3> DEFINE alone == view[i].alone /\ view[i].of = e
    <3>1. view'[i] = LaterView(view[i], c.res, p, alone)
      BY <2>3, <1>2, <1>6 DEF Views, LaterView
    <3>2. MovesOn(p, c.res, c.page, old) /\ ~fresh /\ old = entries[e] /\ old.res = c.res
      BY <2>3, <1>3
    <3>3. alone \in BOOLEAN
      BY <1>6 DEF Views
    <3>4. /\ view'[i] \in Views /\ view'[i].of = view[i].of /\ view'[i].alone = alone
          /\ \A x : x.res = c.res /\ old.res = c.res /\ x.offsets = p.offsets
                    /\ FollowsCursor(view[i], old) => FollowsCursor(view'[i], x)
      <4>1. /\ c.res \in Results /\ PageTyped(p, c.res) /\ c.page \in Nat \ {1} /\ old \in Entries
            /\ view[i] \in Views
        BY <1>3, <1>6, <2>3
      <4> HIDE DEF c, alone
      <4> QED
        BY ONLY <3>1, <3>2, <3>3, <4>1, LaterPage
    <3>5. view'[i].alone => view'[i].of = e /\ FollowsCursor(view[i], old)
      BY <3>2, <3>4 DEF Followed
    <3> QED
      BY <3>2, <3>4, <3>5, <2>3, <1>3, <1>4, <1>6
  <2> QED
    BY <2>1, <2>2, <2>3
<1>10. view' \in [Workers -> Views]
  <2>1. \A j \in Workers : view'[j] \in Views
    BY <1>8, <1>9
  <2> QED
    BY <2>1, <1>1
<1>11. cache' \in 0 .. Len(entries')
  BY <1>1, <1>3, <1>4 DEF Booked
<1>12. call' \in [Workers -> Calls]
  BY <1>1, NoCallYet DEF Booked
<1>13. ASSUME NEW j \in Workers
       PROVE  /\ call'[j].entry \in 0 .. Len(entries')
              /\ call'[j].page > 1 /\ call'[j].entry # 0 =>
                    call'[j].res = entries'[call'[j].entry].res
  <2>1. CASE j = i
    BY <2>1, <1>1, <1>4, NoCallYet DEF Booked
  <2>2. CASE j # i
    <3>1. call'[j] = call[j]
      BY <2>2, <1>1 DEF Booked
    <3>2. call[j].entry \in 0 .. Len(entries)
          /\ (call[j].page > 1 /\ call[j].entry # 0 => call[j].res = entries[call[j].entry].res)
      BY DEF Booked
    <3> QED
      BY <3>1, <3>2, <1>4, <1>5
  <2> QED
    BY <2>1, <2>2
<1> QED
  BY <1>3, <1>8, <1>9, <1>10, <1>11, <1>12, <1>13 DEF Booked, Followed

(* How a step of the run meets the pages.                                  *)
LEMMA PagesMeetRun ==
    ASSUME [Next]_vars
    PROVE  \/ UNCHANGED pageVars
           \/ view' = [i \in Workers |-> NoView] /\ UNCHANGED <<entries, cache, call>>
           \/ \E i \in Workers, p \in 1 .. MaxPage : Lookup(i, p)
           \/ \E i \in Workers : Page(i)
<1>1. CASE UNCHANGED vars
  BY <1>1 DEF vars
<1>2. CASE Plan \/ Joined
  BY <1>2 DEF Plan, Joined, Start
<1>3. CASE Review
  BY <1>3 DEF Review, Start, pageVars
<1>4. CASE CallPlanner \/ SkipReview \/ CallReviewer \/ CallSynth \/ Synth \/ Stop \/ Terminated
  BY <1>4 DEF CallPlanner, SkipReview, CallReviewer, CallSynth, Synth, Stop, Terminated, vars
<1>5. CASE CallFails
  BY <1>5 DEF CallFails, Fail
<1>6. ASSUME NEW i \in Workers, Model(i) PROVE UNCHANGED pageVars
  BY <1>6 DEF Model, Call, Raise, Silent, Note, WrapUp, WrapUpFails
<1>7. ASSUME NEW i \in Workers, UseTool(i) PROVE \E p \in 1 .. MaxPage : Lookup(i, p)
  BY <1>7 DEF UseTool
<1>8. ASSUME NEW i \in Workers, ToolAnswers(i) PROVE Page(i)
  BY <1>8 DEF ToolAnswers
<1> QED
  BY <1>1, <1>2, <1>3, <1>4, <1>5, <1>6, <1>7, <1>8 DEF Next, Graph, Worker

LEMMA PagesKept == ASSUME Booked, Followed, [Next]_vars PROVE Booked' /\ Followed'
<1>1. CASE UNCHANGED pageVars
  BY <1>1 DEF Booked, Followed, FollowsCursor, UpToCursor, pageVars
<1>2. CASE view' = [i \in Workers |-> NoView] /\ UNCHANGED <<entries, cache, call>>
  BY <1>2, ViewsCleared
<1>3. ASSUME NEW i \in Workers, NEW p \in 1 .. MaxPage, Lookup(i, p) PROVE Booked' /\ Followed'
  BY <1>3, LookedUp
<1>4. ASSUME NEW i \in Workers, Page(i) PROVE Booked' /\ Followed'
  BY <1>4, PageTurned
<1> QED
  BY <1>1, <1>2, <1>3, <1>4, PagesMeetRun

LEMMA FollowersKnow == Booked /\ Followed => ToldOnlyTheTruth
<1> SUFFICES ASSUME Booked, Followed, NEW i \in Workers, view[i].told, view[i].alone
             PROVE  view[i].seen = Whole(entries[view[i].of].res)
  BY DEF ToldOnlyTheTruth
<1> DEFINE e == entries[view[i].of]
<1>1. FollowsCursor(view[i], e)
  BY DEF Followed
<1>2. \A f \in DOMAIN e.res : e.offsets[f] = Len(e.res[f])
  BY <1>1 DEF FollowsCursor
<1>3. UpToCursor(e) = Whole(e.res)
  BY <1>2 DEF UpToCursor, Whole
<1> QED
  BY <1>1, <1>3 DEF FollowsCursor

(* "You have now seen ALL rows/lines in every field of this result"        *)
(* (page_result): a worker that is told so has been shown every row        *)
(* exactly once and in order, unless somebody else moved its cursor.       *)
THEOREM ReadersAreToldTheTruth == Spec => []ToldOnlyTheTruth
<1>1. Init => Booked /\ Followed
  BY PageBegins DEF Init
<1>2. Booked /\ Followed /\ [Next]_vars => Booked' /\ Followed'
  BY PagesKept
<1> QED
  BY <1>1, <1>2, FollowersKnow, PTL DEF Spec

-----------------------------------------------------------------------------
LEMMA PageServes ==
    ASSUME NEW res, NEW page, NEW entry
    PROVE  LET p == PageResult(res, page, entry)
           IN /\ page # 1 /\ p.last # entry.last => res # <<>> /\ ~p.refused
              /\ res # <<>> /\ ~p.refused =>
                    p.rows = NextRows(res, Cursor(IF page = 1 THEN <<>> ELSE entry.offsets, res))
<1> DEFINE p == PageResult(res, page, entry)
           old == IF page = 1 THEN <<>> ELSE entry.offsets
           last == IF page = 1 THEN 0 ELSE entry.last
<1>1. CASE res = <<>>
  <2>1. p = [offsets |-> old, last |-> last, rows |-> <<>>, refused |-> FALSE, complete |-> TRUE]
    BY <1>1 DEF PageResult
  <2> HIDE DEF p
  <2> QED
    BY <1>1, <2>1 DEF p
<1>2. CASE res # <<>> /\ page # last + 1
  <2>1. p = [offsets |-> old, last |-> last, rows |-> Zero(res), refused |-> TRUE,
             complete |-> FALSE]
    BY <1>2 DEF PageResult
  <2> HIDE DEF p
  <2> QED
    BY <1>2, <2>1 DEF p
<1>3. CASE res # <<>> /\ page = last + 1
  <2>1. p.rows = NextRows(res, Cursor(old, res)) /\ ~p.refused
    BY <1>3 DEF PageResult
  <2> HIDE DEF p
  <2> QED
    BY <1>3, <2>1 DEF p
<1> QED
  BY <1>1, <1>2, <1>3

(* Only the step under page_lock ends a call. *)
LEMMA ServedByPage ==
    ASSUME Booked, [Next]_vars, NEW i \in Workers, PageServed(i)
    PROVE  Page(i)
<1>1. call[i].page # 0 /\ call'[i].page = 0
  BY DEF PageServed
<1>2. call' # call /\ call[i] # NoCall
  BY <1>1, NoCallYet
<1>3. ASSUME NEW j \in Workers, NEW p \in 1 .. MaxPage, Lookup(j, p) PROVE FALSE
  <2>1. PICK r : call' = [call EXCEPT ![j] = [page |-> p, entry |-> cache, res |-> r]]
    BY <1>3 DEF Lookup
  <2>2. CASE i = j
    <3>1. call'[i].page = p
      BY <2>1, <2>2 DEF Booked
    <3> QED
      BY <3>1, <1>1
  <2>3. CASE i # j
    BY <2>1, <2>3, <1>1 DEF Booked
  <2> QED
    BY <2>2, <2>3
<1>4. ASSUME NEW j \in Workers, j # i, Page(j) PROVE FALSE
  <2>1. call'[i] = call[i]
    BY <1>4 DEF Page, Booked
  <2> QED
    BY <2>1, <1>1
<1> QED
  BY <1>2, <1>3, <1>4, PagesMeetRun DEF pageVars

(* A served page shows the rows that the loop left, from the cursor on.    *)
LEMMA PageShows ==
    ASSUME Booked, NEW i \in Workers, Page(i), PageServed(i), CursorInside(i)
    PROVE  /\ call[i].res \in Results
           /\ \A f \in DOMAIN call[i].res : CursorBefore(i)[f] \in 0 .. Len(call[i].res[f])
           /\ Served(i) = NextRows(call[i].res, CursorBefore(i))
<1> DEFINE c == call[i]
           p == PageOf(i)
           at == CursorBefore(i)
<1>1. /\ c.page \in 1 .. MaxPage /\ c.res \in Results
      /\ Found(i) \in Entries /\ PageTyped(p, c.res)
      /\ c.page = 1 => ~p.refused
      /\ ~p.refused => MovesOn(p, c.res, c.page, Found(i))
      /\ entries'[Used(i)].offsets = p.offsets
      /\ ~Fresh(i) => Found(i) = entries[Used(i)]
      /\ Len(entries') = IF Fresh(i) THEN Len(entries) + 1 ELSE Len(entries)
  BY EntryTurned
<1>2. Served(i) = [f \in DOMAIN c.res |-> p.offsets[f] - at[f]]
  <2>1. Used(i) = IF call[i].entry = 0 THEN Len(entries') ELSE call[i].entry
    BY <1>1 DEF Used, Fresh
  <2> QED
    BY <1>1, <2>1 DEF Served
<1>3. c.page # 1 => c.entry # 0 /\ p.last # Found(i).last
  <2>1. ASSUME c.page # 1 PROVE c.entry # 0 /\ entries'[c.entry].last # entries[c.entry].last
    BY <2>1 DEF PageServed
  <2>2. ASSUME c.entry # 0 PROVE entries'[c.entry].last = p.last /\ Found(i) = entries[c.entry]
    <3>1. entries' = [entries EXCEPT ![c.entry].offsets = p.offsets, ![c.entry].last = p.last]
      BY <2>2 DEF Page, PageOf, Found, Fresh, Used
    <3>2. c.entry \in 1 .. Len(entries) /\ entries[c.entry] \in Entries
      BY <2>2 DEF Booked
    <3>3. entries'[c.entry].last = p.last
      BY <3>1, <3>2 DEF Booked, Entries
    <3> QED
      BY <3>3, <2>2 DEF Found, Fresh, Used
  <2> QED
    BY <2>1, <2>2
<1>4. CASE c.res = <<>>
  <2>1. DOMAIN c.res = {}
    BY <1>4
  <2>2. NextRows(c.res, at) \in [DOMAIN c.res -> Nat]
    BY <2>1, NextRowsTyped
  <2> QED
    BY <1>1, <1>2, <2>1, <2>2
<1>5. CASE c.res # <<>>
  <2>1. ~p.refused /\ p.rows = NextRows(c.res, Cursor(IF c.page = 1 THEN <<>> ELSE Found(i).offsets, c.res))
    BY <1>1, <1>3, <1>5, PageServes DEF PageOf
  <2>2. at = Cursor(IF c.page = 1 THEN <<>> ELSE Found(i).offsets, c.res)
    <3>1. CASE c.page = 1
      BY <3>1 DEF CursorBefore
    <3>2. CASE c.page # 1
      BY <3>2, <1>3 DEF CursorBefore, Found, Fresh, Used
    <3> QED
      BY <3>1, <3>2
  <2> DEFINE old == IF c.page = 1 THEN <<>> ELSE Found(i).offsets
  <2>3. old \in Cursors
    BY <1>1, NoCursor DEF Entries
  <2>4. /\ at \in Cursors /\ \A f \in DOMAIN c.res : f \in DOMAIN at
        /\ \A f \in DOMAIN c.res : at[f] = Before(c.res, c.page, Found(i), f)
    <3>1. \A f \in DOMAIN c.res : (f \in DOMAIN old) = (c.page # 1 /\ f \in DOMAIN Found(i).offsets)
      BY NoCursor
    <3>2. /\ at \in Cursors /\ DOMAIN at = DOMAIN old \cup DOMAIN c.res
          /\ \A f \in DOMAIN old \cup DOMAIN c.res :
                at[f] = IF f \in DOMAIN old THEN old[f] ELSE 0
      <4> HIDE DEF old, at, c
      <4>1. c.res \in Results
        BY <1>1 DEF c
      <4>2. /\ Cursor(old, c.res) \in Cursors
            /\ DOMAIN Cursor(old, c.res) = DOMAIN old \cup DOMAIN c.res
            /\ \A f \in DOMAIN old \cup DOMAIN c.res :
                   Cursor(old, c.res)[f] = IF f \in DOMAIN old THEN old[f] ELSE 0
        BY ONLY <2>3, <4>1, CursorTyped
      <4>3. at = Cursor(old, c.res)
        BY <2>2 DEF old, c
      <4> QED
        BY <4>2, <4>3
    <3> HIDE DEF at
    <3> QED
      BY <3>1, <3>2 DEF Before
  <2> HIDE DEF at, old
  <2>5. \A f \in DOMAIN c.res : c.res[f] \in Seq(Nat) /\ at[f] \in Nat /\ at[f] <= Len(c.res[f])
    <3>1. at \in [DOMAIN at -> Nat]
      BY <2>4 DEF Cursors
    <3> QED
      BY <2>4, <3>1, <1>1, ResultsAssumption DEF CursorInside, at
  <2>6. \A f \in DOMAIN c.res : p.rows[f] \in Nat /\ p.offsets[f] = at[f] + p.rows[f]
    BY <1>1, <2>1, <2>4 DEF MovesOn, PageTyped
  <2>7. NextRows(c.res, at) \in [DOMAIN c.res -> Nat]
    BY <2>5, NextRowsTyped
  <2>8. Served(i) = NextRows(c.res, at)
    <3>1. p.rows = NextRows(c.res, at)
      BY <2>1, <2>2 DEF old
    <3>2. Served(i) = [f \in DOMAIN c.res |-> p.offsets[f] - at[f]]
      BY <1>2 DEF at
    <3>3. \A f \in DOMAIN c.res : p.offsets[f] - at[f] = p.rows[f]
      BY <2>5, <2>6
    <3> HIDE DEF p, c
    <3>4. Served(i) = [f \in DOMAIN c.res |-> p.rows[f]]
      BY <3>2, <3>3
    <3> QED
      BY <2>7, <3>1, <3>4
  <2> QED
    BY <1>1, <2>5, <2>8 DEF at
<1> QED
  BY <1>4, <1>5

LEMMA PageMoves ==
    ASSUME Booked, NEW i \in Workers, Page(i), PageServed(i), CursorInside(i)
    PROVE  ShowsMore(i) /\ (TurnsSuffice => RowsFitCap(i))
<1>1. PICK res, at, rows : /\ res = call[i].res /\ at = CursorBefore(i) /\ rows = Served(i)
  OBVIOUS
<1>2. /\ res \in Results /\ rows = NextRows(res, at)
      /\ \A f \in DOMAIN res : at[f] \in 0 .. Len(res[f])
  BY <1>1, PageShows
<1>3. \A f \in DOMAIN res : res[f] \in Seq(Nat) /\ at[f] \in Nat /\ at[f] <= Len(res[f])
  BY <1>2, ResultsAssumption
<1>4. rows \in [DOMAIN res -> Nat]
  BY <1>2, <1>3, NextRowsTyped
<1>5. ShowsMore(i)
  <2>1. CASE \E f \in DOMAIN res : at[f] # Len(res[f])
    <3>1. PICK f \in DOMAIN res : rows[f] # 0
      BY <1>2, <1>3, <2>1, NextRowsShowSome
    <3>2. f \in DOMAIN rows /\ rows[f] > 0
      BY <1>4, <3>1
    <3> QED
      BY <1>1, <3>2 DEF ShowsMore
  <2>2. CASE \A f \in DOMAIN res : at[f] = Len(res[f])
    <3>1. \A f \in DOMAIN rows : at[f] >= Len(res[f])
      BY <1>3, <1>4, <2>2
    <3> QED
      BY <1>1, <3>1 DEF ShowsMore
  <2> QED
    BY <2>1, <2>2
<1>6. ASSUME TurnsSuffice PROVE RowsFitCap(i)
  <2>1. Size(res, at, rows) <= Cap \/ Sum(rows, DOMAIN rows) <= 1
    BY <1>2, <1>4, <1>6, PageFits
  <2> QED
    BY <1>1, <2>1 DEF RowsFitCap, Sum
<1> QED
  BY <1>5, <1>6

(* The loop of page_result never cuts a page down to nothing: whoever asks *)
(* on, of a cursor within its rows, is shown at least one row more.        *)
THEOREM PagesShowMore ==
    Spec => [][\A i \in Workers : PageServed(i) /\ CursorInside(i) => ShowsMore(i)]_pageVars
<1>1. Init => Booked /\ Followed
  BY PageBegins DEF Init
<1>2. Booked /\ Followed /\ [Next]_vars => Booked' /\ Followed'
  BY PagesKept
<1>3. Booked /\ [Next]_vars
      => [\A i \in Workers : PageServed(i) /\ CursorInside(i) => ShowsMore(i)]_pageVars
  BY ServedByPage, PageMoves
<1> QED
  BY <1>1, <1>2, <1>3, PTL DEF Spec

(* And where its turns are as many as the row counts have binary digits,   *)
(* it ends on a page that fits the cap before its footer is added, or on   *)
(* one single row: page_result takes 400 turns for enough.                 *)
THEOREM PagesAlwaysAdvance ==
    ASSUME TurnsSuffice PROVE Spec => PagesAdvance
<1>1. Init => Booked /\ Followed
  BY PageBegins DEF Init
<1>2. Booked /\ Followed /\ [Next]_vars => Booked' /\ Followed'
  BY PagesKept
<1>3. Booked /\ [Next]_vars => [Advances]_pageVars
  BY ServedByPage, PageMoves DEF Advances
<1> QED
  BY <1>1, <1>2, <1>3, PTL DEF Spec, PagesAdvance

-----------------------------------------------------------------------------
(* The budgets: a worker in a call has a call left, and a review still has *)
(* a round to give.                                                        *)
Budgeted ==
    /\ cancel \in BOOLEAN /\ late \in BOOLEAN /\ attempt \in 0 .. 2
    /\ phase \in {"plan", "planning", "work", "review", "reviewing", "synth", "concluding", "over"}
    /\ diagnosis \in {"none", "given", "error"}
    /\ round \in 1 .. MaxRounds /\ (phase = "reviewing" => round < MaxRounds)
    /\ w \in [Workers -> Threads]
    /\ \A i \in Workers : w[i].at \in {"reply", "tool"} => w[i].todo # 0
    /\ findings \subseteq recorded /\ recorded \subseteq (1 .. MaxRounds) \X Workers

LEMMA BudgetsAtInit == Init => Budgeted
<1>1. Idle \in Threads /\ Idle.at = "idle"
  BY BudgetAssumption DEF Idle, Threads
<1>2. 1 \in 1 .. MaxRounds
  BY BudgetAssumption
<1>3. Init => /\ w \in [Workers -> Threads]
              /\ \A i \in Workers : w[i].at \in {"reply", "tool"} => w[i].todo # 0
  BY <1>1 DEF Init
<1>4. ASSUME Init
      PROVE  /\ cancel \in BOOLEAN /\ late \in BOOLEAN /\ attempt \in 0 .. 2
             /\ phase = "plan" /\ diagnosis = "none" /\ round \in 1 .. MaxRounds
             /\ findings \subseteq recorded /\ recorded \subseteq (1 .. MaxRounds) \X Workers
  <2>1. cancel = FALSE /\ late = FALSE
    BY <1>4 DEF Init
  <2>2. attempt = 0 /\ phase = "plan" /\ diagnosis = "none" /\ round = 1
    BY <1>4 DEF Init
  <2>3. findings = {} /\ recorded = {}
    BY <1>4 DEF Init
  <2>4. findings \subseteq recorded /\ recorded \subseteq (1 .. MaxRounds) \X Workers
    BY <2>3, Zenon
  <2>5. cancel \in BOOLEAN /\ late \in BOOLEAN
    BY <2>1
  <2>6. attempt \in 0 .. 2 /\ round \in 1 .. MaxRounds
    BY <1>2, <2>2
  <2> QED
    BY <2>2, <2>4, <2>5, <2>6
<1> QED
  BY <1>3, <1>4 DEF Budgeted

(* A worker's budgets after its turn.                                      *)
LEMMA TurnInBudget ==
    ASSUME Budgeted, NEW i \in Workers, Worker(i)
    PROVE  /\ w' \in [Workers -> Threads]
           /\ \A j \in Workers : w'[j].at \in {"reply", "tool"} => w'[j].todo # 0
           /\ recorded' \subseteq recorded \cup {<<round, i>>} /\ recorded \subseteq recorded'
<1>0. w \in [Workers -> Threads] /\ w[i] \in Threads /\ MaxSteps \in Nat /\ MaxCalls \in Nat
  BY BudgetAssumption DEF Budgeted
<1>h. ASSUME w[i].at \in {"reply", "tool"}
      PROVE  /\ Handled(w[i]) \in Threads /\ Handled(w[i]).at \in {"call", "reply"}
             /\ Handled(w[i]).at = "reply" => Handled(w[i]).todo # 0
  <2>1. w[i].todo \in 1 .. MaxCalls
    BY <1>0, <1>h DEF Budgeted, Threads
  <2>2. CASE w[i].todo = 1
    <3>1. Handled(w[i]) = [w[i] EXCEPT !.todo = 0, !.at = "call"]
      BY <2>2, <1>0 DEF Handled, Threads
    <3>2. 0 \in 0 .. MaxCalls /\ "call" # "reply"
      BY <1>0
    <3>3. Handled(w[i]) \in Threads /\ Handled(w[i]).at = "call"
      BY <1>0, <3>1, <3>2 DEF Threads
    <3> QED
      BY <3>2, <3>3
  <2>3. CASE w[i].todo # 1
    <3> DEFINE n == w[i].todo - 1
    <3>1. Handled(w[i]) = [w[i] EXCEPT !.todo = n, !.at = "reply"]
      BY <2>3, <1>0 DEF Handled, Threads
    <3>2. n \in 0 .. MaxCalls /\ n # 0
      BY <1>0, <2>1, <2>3
    <3> HIDE DEF n
    <3> QED
      BY <1>0, <3>1, <3>2 DEF Threads
  <2> QED
    BY <2>2, <2>3
<1>1. CASE Call(i)
  <2>1. PICK n \in 0 .. MaxCalls :
          w' = [w EXCEPT ![i].at = IF n = 0 THEN "silent" ELSE "reply",
                         ![i].step = @ + 1, ![i].todo = n]
    BY <1>1 DEF Call
  <2>2. PICK at \in {"silent", "reply"} : at = IF n = 0 THEN "silent" ELSE "reply"
    OBVIOUS
  <2>3. w[i].step + 1 \in 0 .. MaxSteps
    BY <1>0, <1>1 DEF Call, Threads
  <2>4. /\ w'[i] = [w[i] EXCEPT !.at = at, !.step = w[i].step + 1, !.todo = n]
        /\ \A j \in Workers \ {i} : w'[j] = w[j]
        /\ w' = [j \in Workers |-> w'[j]]
    BY <1>0, <2>1, <2>2
  <2>5. w'[i] \in Threads /\ w'[i].at = at /\ w'[i].todo = n
    BY <1>0, <2>2, <2>3, <2>4 DEF Threads
  <2>6. recorded' = recorded
    BY <1>1 DEF Call
  <2> QED
    BY <2>2, <2>4, <2>5, <2>6 DEF Budgeted
<1>2. CASE Raise(i) \/ UseTool(i)
  <2>1. PICK at \in {"raised", "tool"} : w' = [w EXCEPT ![i].at = at]
    BY <1>2 DEF Raise, UseTool, To
  <2>2. /\ w'[i] \in Threads /\ w'[i].todo = w[i].todo /\ w'[i].at = at
        /\ \A j \in Workers \ {i} : w'[j] = w[j]
        /\ w' = [j \in Workers |-> w'[j]]
    BY <1>0, <2>1 DEF Threads
  <2>3. recorded' = recorded /\ (at = "tool" => w[i].at = "reply")
    <3>1. CASE Raise(i)
      <4>1. w' = [w EXCEPT ![i].at = "raised"] /\ recorded' = recorded
        BY <3>1 DEF Raise, To
      <4>2. w'[i].at = "raised"
        BY <4>1, <1>0 DEF Threads
      <4> QED
        BY <2>2, <4>1, <4>2
    <3>2. CASE UseTool(i)
      BY <3>2 DEF UseTool
    <3> QED
      BY <1>2, <3>1, <3>2
  <2> QED
    BY <2>2, <2>3 DEF Budgeted
<1>3. CASE Silent(i)
  <2>1. recorded' = recorded
    BY <1>3 DEF Silent
  <2>2. CASE Nudge(w[i])
    <3>1. w' = [w EXCEPT ![i].at = "call", ![i].nudged = TRUE, ![i].asked = TRUE]
      BY <1>3, <2>2 DEF Silent
    <3>2. /\ w'[i] \in Threads /\ w'[i].at = "call" /\ \A j \in Workers \ {i} : w'[j] = w[j]
          /\ w' = [j \in Workers |-> w'[j]]
      BY <1>0, <3>1 DEF Threads
    <3> QED
      BY <2>1, <3>2 DEF Budgeted
  <2>3. CASE ~Nudge(w[i])
    <3>1. w' = [w EXCEPT ![i].at = "ended"]
      BY <1>3, <2>3 DEF Silent
    <3>2. /\ w'[i] \in Threads /\ w'[i].at = "ended" /\ \A j \in Workers \ {i} : w'[j] = w[j]
          /\ w' = [j \in Workers |-> w'[j]]
      BY <1>0, <3>1 DEF Threads
    <3> QED
      BY <2>1, <3>2 DEF Budgeted
  <2> QED
    BY <2>2, <2>3
<1>4. CASE Note(i)
  <2>1. recorded' = recorded \cup {<<round, i>>}
    BY <1>4 DEF Note
  <2>2. CASE w[i].at = "reply" /\ w' = [w EXCEPT ![i] = [Handled(@) EXCEPT !.found = TRUE]]
    <3>1. /\ w'[i] = [Handled(w[i]) EXCEPT !.found = TRUE]
          /\ \A j \in Workers \ {i} : w'[j] = w[j]
          /\ w' = [j \in Workers |-> w'[j]]
      BY <1>0, <2>2
    <3>2. /\ Handled(w[i]) \in Threads /\ Handled(w[i]).at \in {"call", "reply"}
          /\ Handled(w[i]).at = "reply" => Handled(w[i]).todo # 0
      BY <1>h, <2>2
    <3>3. w'[i] \in Threads /\ w'[i].at = Handled(w[i]).at /\ w'[i].todo = Handled(w[i]).todo
      BY <3>1, <3>2 DEF Threads
    <3> QED
      BY <2>1, <3>1, <3>2, <3>3 DEF Budgeted
  <2>3. CASE w[i].at = "last" /\ w' = [w EXCEPT ![i].at = "ended", ![i].found = TRUE]
    <3>1. /\ w'[i] \in Threads /\ w'[i].at = "ended" /\ \A j \in Workers \ {i} : w'[j] = w[j]
          /\ w' = [j \in Workers |-> w'[j]]
      BY <1>0, <2>3 DEF Threads
    <3> QED
      BY <2>1, <3>1 DEF Budgeted
  <2> QED
    BY <1>4, <2>2, <2>3 DEF Note
<1>5. CASE ToolAnswers(i)
  <2>1. w[i].at = "tool" /\ w' = [w EXCEPT ![i] = Handled(w[i])] /\ recorded' = recorded
    BY <1>0, <1>5 DEF ToolAnswers
  <2>2. /\ w'[i] = Handled(w[i]) /\ \A j \in Workers \ {i} : w'[j] = w[j]
        /\ w' = [j \in Workers |-> w'[j]]
    BY <1>0, <2>1
  <2> QED
    BY <2>1, <2>2, <1>h DEF Budgeted
<1>6. CASE WrapUp(i) \/ WrapUpFails(i)
  <2>1. PICK at \in {"last", "ended"} : w' = [w EXCEPT ![i].at = at, ![i].asked = TRUE]
    BY <1>6 DEF WrapUp, WrapUpFails
  <2>2. /\ w'[i] \in Threads /\ w'[i].at = at /\ \A j \in Workers \ {i} : w'[j] = w[j]
        /\ w' = [j \in Workers |-> w'[j]]
    BY <1>0, <2>1 DEF Threads
  <2>3. recorded' = recorded
    BY <1>6 DEF WrapUp, WrapUpFails
  <2> QED
    BY <2>2, <2>3 DEF Budgeted
<1> QED
  BY <1>1, <1>2, <1>3, <1>4, <1>5, <1>6 DEF Worker, Model

LEMMA RoundInBudget ==
    ASSUME Budgeted, NEW t, Start(t)
    PROVE  /\ w' \in [Workers -> Threads] /\ phase' = "work"
           /\ \A j \in Workers : w'[j].at \in {"reply", "tool"} => w'[j].todo # 0
<1>1. Idle \in Threads /\ Idle.at = "idle"
  BY BudgetAssumption DEF Idle, Threads
<1>2. [Idle EXCEPT !.at = "call"] \in Threads /\ [Idle EXCEPT !.at = "call"].at = "call"
  BY <1>1 DEF Threads
<1> DEFINE begin == [Idle EXCEPT !.at = "call"]
<1>3. w' = [i \in Workers |-> IF i \in 1 .. Len(t) THEN begin ELSE Idle] /\ phase' = "work"
  BY DEF Start
<1> HIDE DEF begin
<1> QED
  BY <1>1, <1>2, <1>3 DEF begin

LEMMA BudgetsKept == ASSUME Noted, Budgeted, [Next]_vars PROVE Budgeted'
<1>1. CASE UNCHANGED vars
  BY <1>1 DEF Budgeted, vars, agentVars
<1>2. CASE Plan
  <2>1. PICK t : Start(t)
    BY <1>2 DEF Plan
  <2>2. UNCHANGED <<cancel, round, findings, recorded, attempt, diagnosis, late>>
    BY <1>2 DEF Plan
  <2> QED
    BY <2>1, <2>2, RoundInBudget DEF Budgeted
<1>3. CASE Review
  <2>1. /\ round' \in {round, round + 1} /\ round < MaxRounds
        /\ UNCHANGED <<cancel, findings, recorded, attempt, diagnosis, late>>
    BY <1>3 DEF Review, NextRound, Budgeted
  <2>2. round' \in 1 .. MaxRounds
    BY <2>1, BudgetAssumption DEF Budgeted
  <2>3. CASE phase' = "synth" /\ w' = w
    BY <2>1, <2>2, <2>3 DEF Budgeted
  <2>4. CASE \E n \in 1 .. MaxFollowups : Start(Generic(n))
    BY <2>1, <2>2, <2>4, RoundInBudget DEF Budgeted
  <2> QED
    BY <1>3, <2>3, <2>4 DEF Review
<1>4. CASE CallPlanner \/ SkipReview \/ CallReviewer
  BY <1>4 DEF CallPlanner, SkipReview, CallReviewer, GoTo, Budgeted
<1>5. CASE CallSynth
  <2>1. attempt' \in 0 .. 2
    BY <1>5 DEF CallSynth, Budgeted
  <2> QED
    BY <1>5, <2>1 DEF CallSynth, GoTo, Budgeted
<1>6. CASE Synth
  BY <1>6 DEF Synth, Budgeted
<1>7. CASE CallFails
  BY <1>7 DEF CallFails, Fail, GoTo, Budgeted
<1>8. CASE Stop
  <2>1. late' \in BOOLEAN /\ cancel' \in BOOLEAN
    BY <1>8 DEF Stop
  <2> QED
    BY <1>8, <2>1 DEF Stop, Budgeted
<1>9. CASE Joined
  <2>1. /\ phase = "work" /\ phase' \in {"over", "review"} /\ diagnosis' \in {"error", diagnosis}
        /\ findings' \in {findings, Merged}
        /\ UNCHANGED <<cancel, late, round, w, recorded, attempt>>
    BY <1>9 DEF Joined
  <2>2. recorded = Merged
    BY <2>1 DEF Noted
  <2> QED
    BY <2>1, <2>2 DEF Budgeted
<1>10. ASSUME NEW i \in Workers, Worker(i) PROVE Budgeted'
  <2>1. WorkOnly
    BY <1>10 DEF Worker, Model, Call, Raise, Silent, Note, UseTool, ToolAnswers, WrapUp, WrapUpFails
  <2>2. /\ w' \in [Workers -> Threads]
        /\ \A j \in Workers : w'[j].at \in {"reply", "tool"} => w'[j].todo # 0
        /\ recorded' \subseteq recorded \cup {<<round, i>>} /\ recorded \subseteq recorded'
    BY <1>10, TurnInBudget
  <2>3. recorded' \subseteq (1 .. MaxRounds) \X Workers /\ findings \subseteq recorded'
    BY <2>2 DEF Budgeted
  <2> QED
    BY <2>1, <2>2, <2>3 DEF WorkOnly, Budgeted
<1> QED
  BY <1>1, <1>2, <1>3, <1>4, <1>5, <1>6, <1>7, <1>8, <1>9, <1>10 DEF Next, Graph, Terminated

(* diagnose's state is well typed: no worker has more calls than its       *)
(* budgets allow, no round comes after the last, and a page never leaves   *)
(* its result.                                                             *)
THEOREM TypeCorrect == Spec => []TypeOK
<1>1. Init => Crew /\ Noted /\ Budgeted /\ Booked /\ Followed
  <2>1. Init => Noted
    BY DEF Init, Noted, FindingsReachSynth
  <2>2. Init => Booked /\ Followed
    BY PageBegins DEF Init
  <2> QED
    BY <2>1, <2>2, CrewInit, BudgetsAtInit
<1>2. Crew /\ Noted /\ Budgeted /\ Booked /\ Followed /\ [Next]_vars
      => Crew' /\ Noted' /\ Budgeted' /\ Booked' /\ Followed'
  BY CrewStep, NotedStep, BudgetsKept, PagesKept
<1>3. ASSUME Crew, Budgeted, Booked PROVE TypeOK
  <2>1. \A k \in DOMAIN entries :
           /\ entries[k].res \in Results /\ entries[k].last \in 0 .. MaxPage
           /\ \A f \in DOMAIN entries[k].offsets : entries[k].offsets[f] \in Nat
    <3> TAKE k \in DOMAIN entries
    <3>1. entries[k] \in Entries
      BY <1>3 DEF Booked
    <3> QED
      BY <3>1 DEF Entries, Cursors
  <2>2. \A i \in Workers : call[i].page \in 0 .. MaxPage
    <3> TAKE i \in Workers
    <3>1. call[i] \in Calls
      BY <1>3 DEF Booked
    <3>2. CASE call[i] = NoCall
      BY <3>2, NoCallYet, PagesAssumption
    <3>3. CASE call[i] # NoCall
      <4>1. call[i].page \in 1 .. MaxPage
        BY <3>1, <3>3 DEF Calls
      <4> QED
        BY <4>1, PagesAssumption
    <3> QED
      BY <3>2, <3>3
  <2>3. PageTypeOK
    BY <1>3, <2>1, <2>2 DEF PageTypeOK, Booked
  <2> QED
    BY <1>3, <2>3 DEF TypeOK, Crew, Budgeted
<1> QED
  BY <1>1, <1>2, <1>3, PTL DEF Spec
=============================================================================
