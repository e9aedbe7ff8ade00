# A formal model of the trace collection machine

The repository collects a dataset: it runs a microservice application under
load, injects one fault per run, traces the whole machine with LTTng, and ships
every run as a bundle with its ground truth. The dataset is worth what its
labels are worth: a trace must be whole, and the fault must be in effect in
exactly the window the ground truth records. The scripts that ensure this are
shell scripts run for days unattended, and what goes wrong with them (a signal
at a bad moment, a leaked LTTng session, a campaign killed in the middle of a
copy) is hard to provoke in a test. Around the dataset stand the programs that use
it: an agent that diagnoses a run with parallel workers, a demo server that runs
the agent on threads, an online detector that reads a trace while it is written,
and the attribution of every thread's time from kernel events. These TLA+ modules
model all of them, TLC checks them on small instances, and TLAPS proves the central
guarantees for every instance.

Paths below are relative to the repository; `S` stands for
`microservice-lttng-data-collection-scripts`.

## 1. Inventory

| Part | State it keeps | Operations | Interacts with |
| --- | --- | --- | --- |
| Run driver, `S/run_scenario.sh` | `ARMED`, `INJECTED`, `LOAD_PID`, `TRACE_PID`; the run's state directory | arm, fork the collector, load, baseline, inject, hold, cleanup, wait, disarm, verify, gate; the EXIT/INT/TERM trap | calls the recipe, forks the collector and the load generator |
| Trace collector, `S/collect_trace.sh` | the LTTng sessions (global to the machine), the bundle directory, the span file all collectors share | preflight, create, start, sleep, stop, destroy, harvest | shares the LTTng daemons with every other collector |
| Fault recipes, `S/faults/*.sh`, `fault_lib.sh`, `code_defect_lib.sh` | the image of the service, the flag file, the toxics; `ground_truth.json` | `arm`, `inject`, `cleanup`, `disarm` | called by the driver and by its trap |
| Bundle verdicts, `S/verify_injection.py`, `S/package_run.sh`, `S/check_run_quality.py`, `S/parse_event_loss.py` | files in the bundle | verify, package, judge | read each other's files |
| Campaign, `S/run_campaign.sh`, `S/campaign_finish_run.sh` (and the Train Ticket twin) | position in the matrix, `campaign_manifest.csv`, collection and archive disks | skip, run, package, copy, remove, write a line | calls the run driver; resumed by hand |
| Demo server, `demo/app.py` | `LIVE`, `CHAT`, `TRACE_LOAD`, session files | start, stop, poll a live run; open, ask a session; load a trace | HTTP threads and worker threads over shared dictionaries; the agent's module globals |
| Agent, `Blueprint/agent/agent_v2.py` | `CTX`, `CANCEL`, the graph state, the paging cache | plan, work, review, synthesise; chat | parallel workers share one context |
| Result paging, `Blueprint/agent/utils.py` | one cursor per tool call | `page_result` | called by every worker |
| Online inference, `S/online_inference.py` | per-thread windows, a bounded queue | feed, put or drop the oldest, score | producer and consumer thread |
| Kernel derivations, `stratatrace/derive_kernel_l*.py` | per-thread scheduling state | a fold over events | - |
| Fault workloads, `S/faults/workloads/*.py` | locks, descriptors, connections | deadlock, lock contention, priority inversion, ... | - |
| Load generators, span relay, metrics download, audits, plots | - | stateless or offline | - |

What is hard here: signals and kills between any two commands; a collector that
outlives its driver; LTTng commands that act on *the current session*, whoever
created it; commands whose failure is only warned about; a verdict computed in
two places; a campaign that is killed and resumed by the presence of one file.
`PROJECT.json` lists these hazards at their lines.

What makes each part correct:

* driver and recipes: no fault outside the recorded window, nothing left behind by
  a driver that reaches its end;
* collector: one whole trace per usable bundle, and no hang;
* verdicts: the two judges agree; usable means injected;
* campaign: what a collected run left is neither lost nor collected twice; every
  run is reported;
* server: a conversation is stored with its own session and kept, a session shows
  the transcript and the trace of its own run, an old stop ends no new run, and no
  flag stays set;
* agent: nothing a worker recorded is lost, a stopped run commits to no verdict,
  every run ends;
* paging: a reader that is told it has seen all rows has seen each once, in order;
* online inference: every window is scored, queued or counted as dropped, windows
  hold no event twice and are cut by true times;
* kernel attribution: no category of time is overstated, no time is counted twice.

## 2. Modules

`Verdict` is what a bundle holds as far as its judges can tell, and the two
judgements: `PackUsable` (the manifest's `usable`) and `GateUsable` (the quality
gate without `--strict`).

`FaultRun` is one collection machine. The driver is started `NAttempts` times;
attempt `a` collects run `RunOf[a]` with recipe `Recipe[run]`. `pc` is the
driver's line, `exiting` says that it is inside `_run_cleanup`; `armed`,
`injected`, `loadPid` are its shell variables and vanish with it (`Exit`). A
collector is a process of its own (`coll[a]`): an interrupted driver does not
stop it. `session` and `wedged` are the LTTng daemons, shared by all collectors;
`rec[a]` says whether the trace of attempt `a` is being recorded, was cut, or is
full, and `spans[a]` the same of its share of the one span file that every collector
slices and truncates (byte offsets are not kept, only whether anything of a window
was truncated). `image`, `active`, `gt` are the service image, the faults in effect and the
recorded window. One action stands for one command of the scripts that a signal
can separate from the next; `inject` and `cleanup` are two steps each, since
their order (stamp, then flip; clear, then close) is what the recipes promise.
`dependency_outage.sh` and `queue_backlog.sh` do it the other way round, `docker
pause` and then `gt_begin`: they are the constant `PauseRecipes`, with `Pause`,
`StampPaused` and `StampFails` for `Stamp`, `Flip` and `FlipFails`.
LTTng's user and kernel domain go through the same commands in the same order
and are one session here.

The constant `Upsets` names what may go wrong in a configuration: signals
(`interrupt`, `again`, `gap`, `kill`), failing verbs (`arm`, `inject`,
`cleanup`, `disarm`), dying collectors (`collector`), hanging daemons (`wedge`,
`wedge_live`), dropped events (`lossy`), an operator who starts the next run while
an orphaned collector still runs (`hasty`), a metrics server that does not answer
(`prometheus`). Theorems quantify over it.

`Incident` is the abstract specification: runs one after another, a fault only inside
the open window of the run that is going on, or in a run of `Early` also before it,
but never after. `FaultRun` implements it with `n <- cur`, `Early` the attempts at
runs of a pausing recipe, `window <- IF pc = "idle" THEN "off" ELSE gt[run]`,
`faulty <- active # {}`.

`Campaign` is the loop over the matrix and the finish step. A bundle is a
function from its parts to the attempt that wrote them, on each of the two
disks; `cp -a` and `rm -rf` go part by part in any order, and the driver may be
killed between any two steps (`Crash`, `Resume`). The run itself is reduced to
what it leaves in the directory. Its collector may die in the window, and then
leaves nothing that counts as a run, or between `runinfo_end.txt` and the end of the
harvest (`CollectorDies`), and then leaves what the driver goes on to judge, archive
and, on resume, skip. `collected` is a history variable: what a run whose window was
traced to its end had left when it was judged.

`Paging` is one tool call with its arguments, made by any number of workers: the
cache entries of `_exec_tool`, the cursor `page_result` keeps in each, and the gap
between the cache lookup, outside `page_lock`, and the page, inside it (`Lookup`,
`Page`). A result is a tuple of fields, a field the tuple of its rows' sizes;
`Take` is the loop that halves the widest field until a page fits; the size it tests
(`Size`) is that of the page without the footer `_page`, which the code adds after
the test. `view` is a
history of what a worker was shown since its page 1; `view.alone` says that nobody
else moved its cursor and that its page 1 showed the result that is cached.

`AgentRun` extends it with `diagnose()`: `phase` is the node of the graph, `w[i]`
worker `i`'s place in `n_work`, `plan` the round's tasks, `findings` the
scratchpad, `cancel` the flag `CANCEL`. The model's replies are inputs: any reply,
any number of subtasks, follow-ups and tool calls within the bounds; a call of the
planner, the reviewer or the synthesiser is two actions, so that a stop can fall
inside it. `recorded` (history) is what any worker ever noted, `late`
says that the stop came when the last call had begun.

`LiveServer` is `demo/app.py`: `LiveStart`, `LiveStop`, the run's thread, the watcher
that polls for a context, questions (`chat_ask` and its `work()`), `Request`/`Switch`
(`session_open`), `Connect` (`code_connect`), `Fork` (`session_fork`), which end in an
open. Tests and what depends on them are separate steps wherever no lock spans both;
`live_stop` is three (`StopTest`, `StopSet`, `StopMark`), and the run it tested for
may end, and another begin, between them. `run.at`, `ask[q].at`, `stop[t]` and
`request` are the threads' places; `CTX` and `CANCEL` are the agent's globals, which
all of them share. `RUN_ID` and `RUN_DIR` are the trace that is selected: `Select` is
`load_state`, which sets one and then the other, whatever else is going on; a run is
given `RUN_DIR` when it starts (`given`, history), and its session is written with
`RUN_ID` when it ends (`runId`). A context is named by who made it; `strays` (history)
notes contexts in which somebody else recorded, `crossed` the questions that a start
of a run or a request on sessions overlapped, `shared` the runs that started while a
question was in flight, `moved` the runs during which another trace was being
selected, `hit` the last run there was when `CANCEL` was set.

`OnlineInference` is one session of `online_inference.py` over a trace: `disk` is
what LTTng has flushed, per CPU in order; `pass` is the state of one reading of
the whole trace (`stream_events_from_bt2`), `last` the timestamp events are deduplicated
by, `buf` the segmenter's windows, `queue`, `hand` and `scored` the
inference thread's side. `emitted` and `gone` are histories of the completed and
of the dropped windows. A window's contents are its events; encoding and scores are left out.

`WaitAttribution` puts `attribute()` of `derive_kernel_l2.py` beside a kernel that
schedules the threads: `real` and `open` are what threads do, `truth` the time they
spent, and every event is read by the script as it happens (`st`, `blk`, `opsys`,
`last`, `acc` are its dictionaries) or is lost; an event makes the process of its own
thread known (`known`), a wake-up its waker's. That threads are matched by `comm` when
no process was given is not modelled. The clock shows the time of day.
`lossy` notes the threads an event of which was lost, `gap` those with an interval
the script gives up.

`MCFaultRun`, `MCAgentRun`, `MCLiveServer`, `MCOnlineInference` and
`MCWaitAttribution` give TLC its plans, results, limits, traces and budgets. Eight
modules hold proofs: `FaultRunProofs` (types, faults, the refinement, traces and
bundles), `FaultEndProofs` (how a driver ends, the judges), `CampaignProofs`,
`OnlineInferenceProofs`, `AgentRunProofs`, `LiveServerProofs`,
`WaitAttributionProofs`, and `SetLemmas`, the induction and the sums that the proofs
about page sizes and about buckets share.
Operators commented *Variant* are plausible defects of the operator that follows
them; they are in no next-state relation and serve to test that the properties
would notice.

### Where the model abstracts

* Sleeps are steps. Two facts about their lengths are kept as guards: a
  collector's bounded set-up ends before the driver's 60 s baseline does
  (`BaselineOver`), and, since `DURATION` is the sum of the driver's three windows,
  the collector of a running driver wakes up in the recovery window (`Own`,
  `WindowOver`).
* A signal that hits a foreground child ends the child first or with the driver;
  either is the signal one step later.
* Background jobs of a non-interactive shell ignore SIGINT, so the collector
  survives an interrupted driver.
* What a verification reads from Prometheus is any status; how the statistics
  arrive at it is not modelled.
* One step of the campaign's copy handles one part of a bundle, not one file.
* A worker's findings are one bit, a row is its size, a message of a conversation is
  the question it belongs to.
* A run, or the answer to a question, is a series of model calls in `LiveServer`;
  what happens inside them is `AgentRun`. A run is assumed to outlast the
  watcher's poll of 250 ms.
* Times are small integers on a clock of `Day` units (24 for online inference, 2 for
  the attribution): what matters is their order, the window's length, the slack and
  the modulus.

## 3. What TLC checks

| Run | Bounds | Shows |
| --- | --- | --- |
| `fault_run_faults` | 3 attempts: a code recipe twice for the same run, then one that pauses a container; signals, failing arm and inject, dying collectors, hasty operator | `TypeOK`; `FaultInsideWindow` and `ImplementsIncident`: no baseline, recovery or later run sees a fault, but a paused container is in effect before its window is stamped; `LoadUndone`: no load generator outlives its driver; `UndoneAtEnd`: a driver that reaches its end has undone image, load and fault; `JudgesAgree`: manifest and gate agree |
| `fault_run_traces` | the same plan, with a recipe that stamps first; kills and second signals, failing cleanup and disarm, dying collectors; the operator waits for an orphan | `RestartOutsideTrace`: no restart in a measured window; `UsableTraceIsWhole`: a harvested, usable bundle has its whole trace and all its spans; `UsableMeansInjected`: it records an injection; `JudgedIsFinal`: nothing is written into a judged bundle |
| `fault_run_live` | 2 attempts, fairness | `DriverEnds`, `FaultEnds`, `CollectorEnds`: nothing hangs although leaked sessions wedge the daemon |
| `campaign_crash` | 2 runs, 1 kill, 4 attempts (a bound never reached: two runs, each at most twice), fairness | `NothingLost`, `CollectedOnce`, `VerdictReachesRow`, `CampaignEnds` with a kill anywhere; `CampaignIsComplete` when it was not killed: a line for every run, every bundle in the archive all that its run left |
| `agent_rounds` | 2 workers, 2 rounds, 2 steps each, 1 tool call a reply, results of 2 fields and up to 2 pages, failing calls, a stop, fairness | `ToldOnlyTheTruth`: who is told there is no more has seen each row once; `PagesAdvance`: a page shows some row, and its rows fit; `WorkersAreHeard`: what a worker noted is read, and a silent one was asked; `StopIsObeyed`; `RunEnds` |
| `live_sessions` | two runs with one question, or one run with a fork and two questions, or two runs while one of two traces is selected; one thread in `live_stop`; fairness | `ConversationsAreKept`: a question that nothing crossed stands in its own session with its answer and stays; `SessionShowsItsRun`; `OldStopEndsNoRun`: a stop carried out before a run began never cancels it; `RequestsEnd`: no flag stays set |
| `inference_queue` | a trace of 14 events on two threads and CPUs, one of 9 past two midnights; windows of 2, queue of 2; live or replayed, sync or async; a dying worker, Ctrl-C, fairness | `QueueIsNewest`, `WindowsConserved`, `ScoredInOrder` of the queue; `TimesAreTrue`: past midnight too; `WindowsAreWindows`: of one thread, short enough, no event twice; `SessionEnds` |
| `wait_buckets` | a busy thread over 3 units, with a midnight at 2 and 2 wake-ups and syscall events; the same with a lost event; two threads over 2 units | `NeverOverstated`: no named category exceeds the time spent in it; `TimeCountedOnce`: buckets fill the observed time, and never more |

Three attempts are enough for the cases that matter: a retry that meets the orphan of
its own run, and a following run that meets what either left. Two matrix entries
suffice for the campaign, whose entries share nothing but the loop, and one kill meets
every point of it. Two workers
are what a shared cursor needs, two rounds what the reviewer's budget does; one result
has two fields on two pages, the other more rows of one field only, the later of which
exceed any page: a cursor moved through it is beyond the first one's rows.
`page_result` gives its loop 400 turns, here they are 4, as many as the binary digits
of the rows' numbers, which is what `PagesAlwaysAdvance` asks of 400
(`SmallTurnsSuffice` has TLC confirm it). Two runs show what one leaves to the next,
two questions what two threads do to one conversation; all three of runs, forks and
questions at once exceed what TLC can do in minutes. One thread in `live_stop` is
enough to test for one run and hit the next. A queue of two has an oldest and a newest
window, and the traces fill it more than once. Three units of time suffice for an
interval before, across and after midnight.

`live_sessions` and `wait_buckets` do not check for deadlock: a server may be idle
for ever, and a budget used up ends a behaviour of `WaitAttribution`.

Exceptions the properties make, each because the code does not keep the claim without
it: a paused container is a fault before its window is stamped, and without one when a
signal comes in between or the stamp fails (`Unstamped`); a row larger than the limit
is sent whole, and a page may be over the limit by its footer, although the docstring
of `page_result` says "bounded to `cap` characters" (`utils.py:205`); a cursor that
was moved through another, longer result may be beyond all rows (`PagesAdvance`,
`CursorInside`); a reader that shares its cursor may be told it has seen everything
when it has not (`ToldOnlyTheTruth`); a question that is being answered while a run
starts or a session is opened, forked or connected may be lost or stored elsewhere
(`crossed`); a run that starts while a question is being answered may share its
transcript with it (`shared`), and the session of a run during which another trace was
selected may name either trace (`moved`); a stop that tested for one run and sets the
flag late cancels the next one (`OldStopEndsNoRun` speaks of stops carried out
before); `n_dropped` is only an upper bound (`WindowsConserved`); events in the same
nanosecond as the last one yielded, or flushed late by another CPU, are never yielded,
so no property says that every event reaches a window; a wake-up that finds a thread
awake makes the time since its last event nobody's (`TimeCountedOnce`). The traces of
`inference_queue` flush in order around midnight: a late flush there shifts the day of
a pass.

Four runs check a sentence of the repository that the code does not keep; each
ends in a counterexample:

* `pause_before_stamp`: `faults/check_recipe_ordering.sh:102`, "all $checked recipes
  stamp the incident start before disrupting anything". `dependency_outage.sh:34-35`
  and `queue_backlog.sh:36-37` pause the container first; the script's pattern of
  disruptive commands does not know `docker pause`.
* `no_manual_reset`: `run_scenario.sh:18-19`, "collect_trace.sh self-heals stale
  LTTng state, so no manual reset is needed between runs". The orphaned collector
  of an interrupted run wakes up in the next run and stops and destroys *its*
  session; that trace is cut short and still packaged as usable.
* `two_judges`: `package_run.sh:117`, "This list MUST match check_run_quality.py".
  A missing `verification.json` is "n/a", hence usable, in one and a failed check
  in the other.
* `unbounded_destroy`: `collect_trace.sh:158-160`, "So bound every destroy with
  `timeout`". The two destroys at the end of a run are unbounded.

More departures are noted with the hazards. The trap (`run_scenario.sh:130`) does not
disarm: a driver interrupted after `arm` leaves the service on its defect image
(`UndoneAtEnd` is about drivers that reach their end). A run whose collector died
between `runinfo_end.txt` and the end of its harvest is judged, archived and
skipped on resume without one. Three show up when an upset is added to a passing
run's configuration: `gap` breaks `LoadUndone` (a signal
between the fork of the load generator and `LOAD_PID=$!`), `cleanup` breaks
`FaultInsideWindow` (a failed cleanup is warned about and forgotten), `inject`
breaks `UsableMeansInjected` (a failed injection leaves a bundle that is packaged
as usable). With `hasty` a usable bundle may also lack spans. A killed campaign skips a run
whose window was over but which was never harvested, judged or listed.

Fairness. `Fairness` of `FaultRun` is weak fairness of the driver's steps and of each
live collector's and load generator's: these are processes that the operating system
schedules and whose sleeps end. No fairness is assumed of signals, kills, hangs or the
next upset. `FairSpec` of `Campaign` is weak fairness of the driver's steps, including
that a killed campaign is resumed. `FairSpec` of `AgentRun` is weak fairness of one
disjunction, some thread of the run goes on: `_call` makes at most six attempts, the
providers' clients and the tools return, and nothing more is needed, since every step
of a run uses up a budget. In `LiveServer` the run's thread and each question's thread
are weakly fair; that a run or an answer ends after finitely many model calls (which
`AgentRun` shows of runs) is weak fairness of the return and strong fairness of
leaving the loop of calls. In `OnlineInference` the reading and the inference thread
are weakly fair, LTTng owes nothing, Ctrl-C and a dying worker may or may not come.
`WaitAttribution` has safety properties only.

## 4. What is proved

For every number of attempts and every set of runs and recipes, by TLAPS. Each
theorem says which upsets it leaves out; none is about one plan of runs.

`FaultRunProofs`:

* `TypeCorrect`: `Spec => []TypeOK`. `TypeOK` is not inductive by itself: that a
  cleanup names a recipe of the machine depends on where the driver is, so
  `Typed` adds `RecipeKnown`.
* `FaultContained`: if `Orderly`, `Spec => []FaultInsideWindow`. `Orderly` is an
  assumption on `Upsets`: no SIGKILL, no second signal inside the trap, no failing
  removal. Signals, failing arms, injections and disarms, dying collectors,
  hanging daemons and hasty operators remain. The inductive invariant is
  `Contained`: a fault is in effect only at `stamp`, `hold`, `unflip` or `undo`, with
  `INJECTED=1` and the window open, or unstamped and of a pausing recipe; the window
  is open before the flip; and no window is stamped before the injection. It is
  needed because `FaultInsideWindow` alone does not say that the step that closes the
  window finds no fault.
* `MachineKeepsPromise`: if `Orderly`, `Spec => ImplementsIncident`, from the same
  invariant, step by step.

And, in the same module, for `Patient` campaigns (no `hasty` upset: the operator does
not start a run while the collector of an interrupted one still runs; anything
else may fail or be killed):

* `RestartsOutsideTraces`: `Spec => []RestartOutsideTrace`.
* `UsableTracesAreWhole`: `Spec => []UsableTraceIsWhole`, the trace and the spans.
* `JudgedStays`: `Spec => JudgedIsFinal`.

All three follow from one inductive invariant, `TraceInv`. Its core is
`OneCollector`: only the last attempt's collector can be alive, and not beyond the
driver's wait. Then nobody else can stop or destroy the session it records in, so
what a collector has recorded, and what the span file holds of its window, follows from
where it is (`TraceOfPhase`), and a
harvested directory is the work of the last attempt at its run (`HarvestedOnce`).
`OneCollector` is kept by `Start` only because a live collector's directory is
always unjudged (`Unjudged`), which is what the operator waits on. Without
`Patient` the code keeps none of them, as TLC finds when `hasty` is added to
their run; `no_manual_reset` is the counterexample to the second.

`FaultEndProofs`:

* `NoLoadIsLeft`: if `Tidy` (no SIGKILL, no second signal, none in the gap before
  `LOAD_PID=$!`), `Spec => []LoadUndone`, by `Loads`: only the driver's own load
  runs, and `LOAD_PID` names it wherever a signal may strike.
* `EverythingIsUndone`: if `Orderly`, `Tidy` and disarms do not fail,
  `Spec => UndoneAtEnd`, from the invariants of the two theorems before and
  `Disarmed`: whoever runs with a code recipe is armed, and beyond its disarm the image is the
  stock one.
* `JudgedRunsWereInjected`: if `Patient` and injections are refused at most because
  the service is not armed, `Spec => []UsableMeansInjected`. `Injections` carries
  the stamp from the recipe's file to the copied bundle, beside `TraceInv`, since only one
  collector may write there.
* `ManifestAndGateAgree`: if `Patient`, cleanups work and Prometheus answers,
  `Spec => []JudgesAgree`. `Agreed` says which evidence is in the bundle at each
  line from the copy to the verdict.

`CampaignProofs`, for every matrix, number of attempts and number of kills:
`TypeCorrect`; `NothingIsLost` (`Spec => []NothingLost`) and `CollectedAtMostOnce`
(`Spec => CollectedOnce`), from `Kept`: `TypeOK`, `NothingLost`, and `AtHand`, which
says what disk holds all of the bundle at each line of the finish step. `NothingLost`
alone does not tell that the copy is whole when the original starts to go. All three speak of
what a run left, be its harvest done or not.

* `VerdictIsQuoted`: `Spec => []VerdictReachesRow`, by `Numbered`: no verdict and no
  line has a number above the current attempt's, and while a run is being made no line
  quotes it yet. Steps that neither begin, judge nor list a run only copy or drop
  verdicts (`Quiet`).
* `UnkilledIsComplete`: `Spec => []CampaignIsComplete`, by `Unkilled`: without a kill
  the matrix is done in order, behind the run at hand every run has its line and
  either no copy or one of all that it left in the archive, ahead of it there is nothing, and `RunAtHand`
  says what the copy holds at each line of the finish step.

`OnlineInferenceProofs`, for every trace, window length and queue size:
`TypeCorrect`; `DropsTakeTheOldest`, `WindowsAreAccountedFor` and
`ScoresAreInOrder`. All three follow from `Orderly`, which describes the queue by
the numbers of its windows: a gapless run up to the last window handed over,
everything before it in hand, scored or gone. `Leaving` adds why nothing is left at a
normal end: the worker leaves only when told to and with the queue empty, and by then the
reader puts nothing more.

* `TimesStayTrue` and `WindowsStayWindows`: if every trace is `Steady`,
  `Spec => []TimesAreTrue` and `Spec => []WindowsAreWindows`. `Steady` says that a trace is
  in the order of time and that after its first day every CPU's events follow one
  another within a day less the slack: the rule of `stream_events_from_bt2` is wrong for any other, since a clock
  without a date cannot show a silent day. TLC's traces are steady
  (`SteadyTraces`). `Timed` ties a pass's offset to the midnight of the event read
  last and its deduplication to the one yielded last; `Windows` says that every window
  is cut from one thread's events by true times, and shares none with another. That the time last
  yielded only grows is what keeps a pass from putting an event into a second window.

`AgentRunProofs`, for all budgets: `StopsAreObeyed` by `Stopped` (a cancelled run
whose stop was not late is never in a call of the synthesiser); `BlueprintHasAWorker` by `Crew`
(who is in a round and where: the first round keeps the limit and has the blueprint's
worker, whatever the planner answers); `EveryWorkerIsHeard`
(`Spec => []WorkersAreHeard`) by `Crew`, `Asked` (whoever was nudged, or ended in
silence, was asked) and `Noted` (what was recorded is in the scratchpad or with a
worker of this round). `TypeCorrect` adds `Budgeted`: whoever is in a call has one
left, and a review has a round to give.

Of its pages, for all results, limits, workers and numbers of turns:

* `ReadersAreToldTheTruth`: `Spec => []ToldOnlyTheTruth`, by `Booked` (an entry that a
  call found is there when the call takes its page, with the result that it found unless
  that was page 1) and `Followed` (the rows seen by a reader that is alone are exactly
  those before the cursor of its entry). Neither is about the size of a page: the claim holds
  whatever the loop decides to show.
* `PagesShowMore`: a served page shows a further row of what is left: the loop
  starts with some row and a turn never takes the last one (`TakeKeeps`).
* `PagesAlwaysAdvance`: if `TurnsSuffice`, `Spec => PagesAdvance`. Each turn takes a
  binary digit from one field's number of rows (`TurnTakesADigit`), so after as many
  turns as there are digits the rows fit or are one single row (`LoopSettles`). With 400 turns that
  is the case of any result of twenty fields with less than a million rows each; with more the
  code may send a page over its limit. The digits are a function that is only
  characterised (`IsDigits`), not computed.

The loop is a recursive function of the number of the turn; `Iterates` gives its
values as a list, `UpTo` is induction along it, both from `SetLemmas`, where they
follow from the library's well-founded order on finite sets.

`LiveServerProofs`, for any number of runs, questions, forks, traces and threads in
`live_stop`:

* `OldStopsEndNoRun`: `Spec => []OldStopEndsNoRun`, by `Obeyed`: from `diagnose()` on,
  `CANCEL` is set only if it was set during this run, whose stop is then shown or about to be.
* `TypeCorrect`: `TypeOK` needs `Stands`, that the session shown and those of the
  requests in progress are on disk.
* `SessionsShowTheirRuns`: `Spec => []SessionShowsItsRun`, by `Alone` (the questions in
  flight are all crossed or none is), `OwnContext` (while a run that is not shared goes
  on, `CTX` is its own from `diagnose()` to the end and the watcher finds no other) and `Named`
  (while no other trace is being selected, the one selected is the one the run was given).
* `ConversationsStay`: `Spec => []ConversationsAreKept`, by `Exclusive` (`busy` keeps
  uncrossed questions apart), `Existing` (a session to come has no file yet),
  `Objects` (whose `Chat` is whose) and `Threads`: every copy of a conversation there is, on
  disk, in memory or read by a request that has not yet stored it, is
  faithful to its session. The copies in flight are what a property of the files alone misses.

`WaitAttributionProofs`, for any threads, calls, families, day and budgets:
`TypeCorrect`, and `BucketsAreTrue` (`Spec => []NeverOverstated`) by `Tracked`, which
relates what the script believes of a thread to what the thread does, and says that
what it would add at the next event is covered by the truth. `TimeIsCountedOnce`
(`Spec => []TimeCountedOnce`, for finite families) by `Metered`: the buckets' sum is
the time from the first event to the last, or less where an interval was
given up. The sum is a fold over the set of buckets; that it grows by what a step adds
to one bucket is `SumGrows`, by induction over finite sets (`SetInduction`).

Assumptions: those the constants are declared with, named in each module, the sets
of upsets the statements name, `Steady` traces for the two theorems about times and
windows, and `TurnsSuffice` for `PagesAlwaysAdvance`.

Model-checked only: liveness (`DriverEnds`, `FaultEnds`, `CollectorEnds`,
`CampaignEnds`, `RunEnds`, `RequestsEnd`, `SessionEnds`), which is outside what the prover
can do, and the four counterexamples. Every invariant and every action property that a passing
run checks is a theorem, except that those of `FaultRun`, `OnlineInference` and `Paging`
need the conditions their theorems name.

## 5. Not modelled, and the plan

Most of the repository is not a system with states: of its implementation files the
largest share is archived experiments (`archive/`), vendored code, offline analysis
and training of models, each a function from files to files. Not modelled, and why:

* fault workloads (`S/faults/workloads/*.py`): programs that misbehave on purpose;
  nothing in the machine depends on how they do it;
* load generators: independent clients; that they run until their duration is over
  is in `FaultRun`;
* span relay, metrics download, static content: pure I/O;
* audits, plots, L1 and L3 of the kernel derivations, training and evaluation:
  reports over finished bundles; of these only the fold of L2 carries a state across
  events that is hard to get right;
* encoding of windows and the neural networks: arithmetic on floats;
* prompts, masking, the token account and the transcript of the agent;
* what a recipe does to its target (the kernel's business), ring buffer sizes, the
  metadata snapshots.

Left for later, in this order:

1. refinements: `LiveServer`'s run against `AgentRun`, `OnlineInference`'s queue
   against an abstract lossy channel, each with its step-by-step proof;
2. variants for the termination arguments (what a run of the agent and a campaign
   use up at every step) as action properties, the safety half of their liveness;
3. L1's pairing of syscall entries with exits.

## 6. Running

    tlc -config FaultRunFaults.cfg MCFaultRun.tla
    tlc -config CampaignCrash.cfg Campaign.tla
    tlc -config AgentRounds.cfg MCAgentRun.tla
    tlc -config LiveSessions.cfg MCLiveServer.tla
    tlc -config InferenceQueue.cfg MCOnlineInference.tla
    tlc -config WaitBuckets.cfg MCWaitAttribution.tla
    tlapm FaultRunProofs.tla

and likewise for the other configurations of `MCFaultRun` and the other proof
modules.
