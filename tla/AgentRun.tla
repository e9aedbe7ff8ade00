------------------------------ MODULE AgentRun ------------------------------
(***************************************************************************)
(* One run of the agent (agent_v2.diagnose): the graph planner -> workers  *)
(* -> reviewer -> at most one more round of workers -> synthesiser.  The   *)
(* workers of a round run in parallel and read tool results page by page   *)
(* (Paging).  A stop request sets CANCEL, which is tested before every     *)
(* model call.                                                             *)
(*                                                                         *)
(* The model's replies are inputs.  A worker's findings are one bit; what  *)
(* they say, the prompts, and the transcript are left out.                 *)
(***************************************************************************)
EXTENDS Paging

CONSTANTS MaxSubtasks, MaxFollowups, MaxRounds, MaxSteps,
          MaxCalls, \* bound: tool calls in one reply
          Upsets   \* what may go wrong

(* api: a model call fails for good.  stop: live_stop or Ctrl-C.           *)
AllUpsets == {"api", "stop"}

ASSUME BudgetAssumption ==
    /\ MaxSubtasks \in Nat \ {0} /\ MaxFollowups \in Nat \ {0}
    /\ MaxRounds \in Nat \ {0} /\ MaxSteps \in Nat \ {0}
    /\ MaxCalls \in Nat \ {0}
    /\ 1 .. MaxSubtasks \subseteq Workers /\ 1 .. MaxFollowups \subseteq Workers
ASSUME UpsetsAssumption == Upsets \subseteq AllUpsets

VARIABLES blueprint, \* "none", "tools" (bp_def) or "only" (bp_only)
          cancel,    \* CANCEL
          phase,     \* the graph's node, "over" once diagnose is left
          plan,      \* the tasks of this round: "task" or "blueprint"
          round,     \* state["round"]
          w,         \* per worker of this round: a thread in n_work
          findings,  \* the scratchpad: <<round, worker>> that recorded
          recorded,  \* history: <<round, worker>> with a note_finding
          attempt,   \* n_synth's calls
          diagnosis, \* diagnose's result
          late       \* history: the stop came after the last call began

agentVars == <<blueprint, cancel, phase, plan, round, w, findings, recorded, attempt,
               diagnosis, late>>
vars == <<pageVars, agentVars>>

(* call: about to call the model; silent, reply: has a reply without, with *)
(* `todo` tool calls to act on; tool: in one; last: has the reply to the   *)
(* wrap-up call; raised: its exception waits for the other workers.        *)
Idle == [at |-> "idle", step |-> 0, todo |-> 0, found |-> FALSE, nudged |-> FALSE,
         asked |-> FALSE]
Threads == [at : {"idle", "call", "silent", "reply", "tool", "last", "ended", "raised"},
            step : 0 .. MaxSteps, todo : 0 .. MaxCalls,
            found : BOOLEAN, nudged : BOOLEAN, asked : BOOLEAN]

TypeOK ==
    /\ PageTypeOK
    /\ blueprint \in {"none", "tools", "only"} /\ cancel \in BOOLEAN
    /\ phase \in {"plan", "planning", "work", "review", "reviewing", "synth", "concluding",
                  "over"}
    /\ plan \in Seq({"task", "blueprint"}) /\ round \in 1 .. MaxRounds
    /\ w \in [Workers -> Threads]
    /\ findings \subseteq (1 .. MaxRounds) \X Workers /\ findings \subseteq recorded
    /\ attempt \in 0 .. 2 /\ diagnosis \in {"none", "given", "error"} /\ late \in BOOLEAN

(* diagnose clears CANCEL before the graph starts. *)
Init ==
    /\ PageInit
    /\ blueprint \in {"none", "tools", "only"} /\ cancel = FALSE
    /\ phase = "plan" /\ plan = <<>> /\ round = 1
    /\ w = [i \in Workers |-> Idle]
    /\ findings = {} /\ recorded = {} /\ attempt = 0 /\ diagnosis = "none" /\ late = FALSE

Team == 1 .. Len(plan)
GoTo(from, to) == phase = from /\ phase' = to

(* _call: refused once CANCEL is set, or fails on its own. *)
MayFail == cancel \/ "api" \in Upsets

(* diagnose's except branch. *)
Fail(from) ==
    /\ GoTo(from, "over") /\ diagnosis' = "error"
    /\ UNCHANGED <<pageVars, blueprint, cancel, plan, round, w, findings, recorded, attempt,
                   late>>

(* live_stop, or whoever else sets CANCEL. *)
Stop ==
    /\ "stop" \in Upsets /\ phase # "over" /\ ~cancel
    /\ cancel' = TRUE
    /\ late' = (phase = "concluding")
    /\ UNCHANGED <<pageVars, blueprint, phase, plan, round, w, findings, recorded, attempt,
                   diagnosis>>

-----------------------------------------------------------------------------
Generic(n) == [i \in 1 .. n |-> "task"]

(* n_plan for a planner that names n subtasks: none becomes one, too many  *)
(* are cut, the blueprint's own task replaces the last or is added.        *)
Tasks(n) ==
    LET cut == Min({MaxSubtasks, IF n = 0 THEN 1 ELSE n})
    IN CASE blueprint = "only"  -> <<"blueprint">>
         [] blueprint = "tools" -> Append(Generic(Min({cut, MaxSubtasks - 1})), "blueprint")
         [] OTHER               -> Generic(cut)

(* A blueprint-only run plans without a model call. *)
CallPlanner ==
    /\ blueprint # "only" /\ ~cancel
    /\ GoTo("plan", "planning")
    /\ UNCHANGED <<pageVars, blueprint, cancel, plan, round, w, findings, recorded, attempt,
                   diagnosis, late>>

Start(tasks) ==
    /\ phase' = "work" /\ plan' = tasks
    /\ w' = [i \in Workers |-> IF i \in 1 .. Len(tasks) THEN [Idle EXCEPT !.at = "call"] ELSE Idle]
    /\ view' = [i \in Workers |-> NoView]

Plan ==
    /\ phase = IF blueprint = "only" THEN "plan" ELSE "planning"
    /\ \E n \in 0 .. MaxSubtasks + 1 : Start(Tasks(n))
    /\ UNCHANGED <<entries, cache, call, blueprint, cancel, round, findings, recorded, attempt,
                   diagnosis, late>>

-----------------------------------------------------------------------------
To(i, at) == w' = [w EXCEPT ![i].at = at]
WorkOnly == UNCHANGED <<blueprint, cancel, phase, plan, round, findings, attempt, diagnosis,
                        late>>

(* One turn of n_work begins: the model is called. *)
Call(i) ==
    /\ phase = "work" /\ w[i].at = "call" /\ w[i].step < MaxSteps /\ ~cancel
    /\ \E n \in 0 .. MaxCalls :
           w' = [w EXCEPT ![i].at = IF n = 0 THEN "silent" ELSE "reply",
                          ![i].step = @ + 1, ![i].todo = n]
    /\ WorkOnly /\ UNCHANGED <<pageVars, recorded>>

Raise(i) ==
    /\ phase = "work" /\ w[i].at = "call" /\ w[i].step < MaxSteps /\ MayFail
    /\ To(i, "raised")
    /\ WorkOnly /\ UNCHANGED <<pageVars, recorded>>

(* A worker that is silent and has recorded nothing is asked once. *)
Nudge(t) == ~t.found /\ ~t.nudged

(* A reply without a tool call. *)
Silent(i) ==
    /\ w[i].at = "silent"
    /\ w' = IF Nudge(w[i])
            THEN [w EXCEPT ![i].at = "call", ![i].nudged = TRUE, ![i].asked = TRUE]
            ELSE [w EXCEPT ![i].at = "ended"]
    /\ WorkOnly /\ UNCHANGED <<pageVars, recorded>>

(* One of the reply's calls is done; after the last one comes a new turn.  *)
Handled(t) == [t EXCEPT !.todo = @ - 1, !.at = IF t.todo = 1 THEN "call" ELSE "reply"]

(* note_finding, in a turn or in the wrap-up. *)
Note(i) ==
    /\ \/ w[i].at = "reply" /\ w' = [w EXCEPT ![i] = [Handled(@) EXCEPT !.found = TRUE]]
       \/ w[i].at = "last" /\ w' = [w EXCEPT ![i].at = "ended", ![i].found = TRUE]
    /\ recorded' = recorded \cup {<<round, i>>}
    /\ WorkOnly /\ UNCHANGED pageVars

(* A tool call, up to the lock on the pages. *)
UseTool(i) ==
    /\ w[i].at = "reply"
    /\ To(i, "tool")
    /\ \E p \in 1 .. MaxPage : Lookup(i, p)
    /\ WorkOnly /\ UNCHANGED recorded

ToolAnswers(i) ==
    /\ w[i].at = "tool"
    /\ w' = [w EXCEPT ![i] = Handled(@)]
    /\ Page(i)
    /\ WorkOnly /\ UNCHANGED recorded

(* Out of steps: one call with note_finding as its only tool. *)
WrapUp(i) ==
    /\ w[i].at = "call" /\ w[i].step = MaxSteps
    /\ ~cancel
    /\ w' = [w EXCEPT ![i].at = "last", ![i].asked = TRUE]
    /\ WorkOnly /\ UNCHANGED <<pageVars, recorded>>

(* Nothing recorded, or an exception, a cancellation among them: the       *)
(* worker ends with the findings it has.                                   *)
WrapUpFails(i) ==
    /\ \/ w[i].at = "last"
       \/ w[i].at = "call" /\ w[i].step = MaxSteps /\ MayFail
    /\ w' = [w EXCEPT ![i].at = "ended", ![i].asked = TRUE]
    /\ WorkOnly /\ UNCHANGED <<pageVars, recorded>>

Model(i) == Call(i) \/ Raise(i) \/ Silent(i) \/ Note(i) \/ WrapUp(i) \/ WrapUpFails(i)
Worker(i) == Model(i) \/ UseTool(i) \/ ToolAnswers(i)

-----------------------------------------------------------------------------
(* Variant: a round's findings replace what was there. *)
MergeLast == {<<round, i>> : i \in {j \in Team : w[j].found}}

(* operator.add on state["findings"]. *)
Merged == findings \cup {<<round, i>> : i \in {j \in Team : w[j].found}}

(* All workers of the round are back; one that raised fails the run.       *)
Joined ==
    /\ phase = "work" /\ \A i \in Team : w[i].at \in {"ended", "raised"}
    /\ IF \E i \in Team : w[i].at = "raised"
       THEN phase' = "over" /\ diagnosis' = "error" /\ findings' = findings
       ELSE phase' = "review" /\ diagnosis' = diagnosis /\ findings' = Merged
    /\ view' = [i \in Workers |-> NoView]
    /\ UNCHANGED <<entries, cache, call, blueprint, cancel, plan, round, w, recorded, attempt,
                   late>>

(* n_review with its rounds spent. *)
SkipReview ==
    /\ round >= MaxRounds /\ GoTo("review", "synth")
    /\ UNCHANGED <<pageVars, blueprint, cancel, plan, round, w, findings, recorded, attempt,
                   diagnosis, late>>

(* Variant: one round too many is reviewed. *)
CallReviewerLate ==
    /\ round <= MaxRounds /\ ~cancel /\ GoTo("review", "reviewing")
    /\ UNCHANGED <<pageVars, blueprint, cancel, plan, round, w, findings, recorded, attempt,
                   diagnosis, late>>

CallReviewer ==
    /\ round < MaxRounds /\ ~cancel /\ GoTo("review", "reviewing")
    /\ UNCHANGED <<pageVars, blueprint, cancel, plan, round, w, findings, recorded, attempt,
                   diagnosis, late>>

(* Variant: the round is not counted. *)
SameRound == round

NextRound == round + 1

(* _after_review: enough, or up to two follow-ups to fresh workers; not    *)
(* enough without a follow-up counts the round and goes on.                *)
Review ==
    /\ phase = "reviewing"
    /\ \/ /\ phase' = "synth" /\ round' \in {round, NextRound}
          /\ UNCHANGED <<plan, w, view>>
       \/ /\ round' = NextRound
          /\ \E n \in 1 .. MaxFollowups : Start(Generic(n))
    /\ UNCHANGED <<entries, cache, call, blueprint, cancel, findings, recorded, attempt,
                   diagnosis, late>>

(* Variant: the synthesiser's call is made whatever CANCEL says. *)
CallSynthAnyway ==
    /\ attempt < 2 /\ GoTo("synth", "concluding")
    /\ attempt' = attempt + 1
    /\ UNCHANGED <<pageVars, blueprint, cancel, plan, round, w, findings, recorded, diagnosis,
                   late>>

CallSynth ==
    /\ attempt < 2 /\ ~cancel /\ GoTo("synth", "concluding")
    /\ attempt' = attempt + 1
    /\ UNCHANGED <<pageVars, blueprint, cancel, plan, round, w, findings, recorded, diagnosis,
                   late>>

(* submit_diagnosis, or an answer that cannot be used, twice at most.      *)
Synth ==
    /\ phase = "concluding"
    /\ \/ phase' = "over" /\ diagnosis' = "given"
       \/ phase' = (IF attempt < 2 THEN "synth" ELSE "over") /\ diagnosis' = diagnosis
    /\ UNCHANGED <<pageVars, blueprint, cancel, plan, round, w, findings, recorded, attempt,
                   late>>

(* The planner's, the reviewer's and the synthesiser's call raise.         *)
CallFails ==
    /\ MayFail
    /\ \/ blueprint # "only" /\ Fail("plan")
       \/ round < MaxRounds /\ Fail("review")
       \/ Fail("synth")

-----------------------------------------------------------------------------
Graph == CallPlanner \/ Plan \/ Joined \/ SkipReview \/ CallReviewer \/ Review
         \/ CallSynth \/ Synth \/ CallFails

Terminated == phase = "over" /\ UNCHANGED vars

Next == Graph \/ (\E i \in Workers : Worker(i)) \/ Stop \/ Terminated

Spec == Init /\ [][Next]_vars

(* Some thread of the run goes on as long as one can: model calls and      *)
(* tools return.                                                           *)
FairSpec ==
    Spec /\ WF_vars(Graph \/ (\E i \in Workers : Model(i)) \/ (\E i \in Workers : UseTool(i))
                   \/ \E i \in Workers : ToolAnswers(i))

-----------------------------------------------------------------------------
(* Nothing recorded is lost: what any worker of any round noted is what    *)
(* the reviewer and the synthesiser read, also from a worker that ran out  *)
(* of steps or whose last call failed or was cancelled.                    *)
FindingsReachSynth ==
    phase \in {"review", "reviewing", "synth", "concluding"} => findings = recorded

(* A worker ends without a finding only after it was asked for one, by the *)
(* nudge or the wrap-up call.                                              *)
SilenceWasAskedAbout ==
    \A i \in Team : w[i].at = "ended" /\ ~w[i].found => w[i].asked

(* Every worker is heard: what it noted is read, or it was asked.          *)
WorkersAreHeard == FindingsReachSynth /\ SilenceWasAskedAbout

(* Whatever the planner answers, a run with a blueprint's own scripts has  *)
(* one worker on them, within the limit on workers.                        *)
BlueprintIsWorked ==
    phase # "over" /\ round = 1 /\ plan # <<>> =>
        /\ Len(plan) <= MaxSubtasks
        /\ blueprint # "none" => \E i \in DOMAIN plan : plan[i] = "blueprint"

(* A stopped run commits to no verdict, although wrap-up calls swallow the *)
(* cancellation: only one whose last call had begun does.                  *)
StopIsObeyed == cancel /\ ~late => diagnosis # "given"

(* The run ends, whatever the model answers and wherever calls fail.       *)
RunEnds == <>(phase = "over")
=============================================================================
