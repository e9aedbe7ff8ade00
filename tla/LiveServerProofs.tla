-------------------------- MODULE LiveServerProofs --------------------------
(***************************************************************************)
(* Proofs about LiveServer, for any numbers of runs, questions and forks:  *)
(* the state is well typed, a stop of the past ends no run, a session      *)
(* shows its run's transcript, and no conversation is mixed up or lost.    *)
(***************************************************************************)
EXTENDS LiveServer, TLAPS

(* The run's record and the threads in live_stop. *)
Places == {"none", "start", "cleared", "running", "returned", "ending"}
RunOK == run \in [n : Int, at : Places] /\ stop \in [Stops -> {"none", "tested", "set"}]

Obeyed == RunOK /\ OldStopEndsNoRun

LEMMA PlacesListed ==
    /\ "start" \in Places /\ "cleared" \in Places /\ "running" \in Places
    /\ "returned" \in Places /\ "ending" \in Places /\ "none" \in Places
BY DEF Places

LEMMA InitObeys == Init => Obeyed
BY PlacesListed DEF Init, Obeyed, RunOK, OldStopEndsNoRun

(* Steps that leave the run where it is and belong to no stop. *)
LEMMA OthersObey ==
    ASSUME Obeyed, run' = run, stopped => stopped', CANCEL' => CANCEL, UNCHANGED stopVars
    PROVE  Obeyed'
<1>1. RunOK' /\ stop' = stop /\ hit' = hit
  BY DEF Obeyed, RunOK, stopVars
<1>2. OldStopEndsNoRun'
  BY <1>1 DEF Obeyed, OldStopEndsNoRun
<1> QED
  BY <1>1, <1>2 DEF Obeyed

(* Steps after which no model call of the run is under way. *)
LEMMA LeavingObeys ==
    ASSUME Obeyed, NEW at \in Places, run' = [run EXCEPT !.at = at], at # "running", stop' = stop
    PROVE  Obeyed'
<1>1. run' \in [n : Int, at : Places] /\ run'.at = at
  BY DEF Obeyed, RunOK
<1> QED
  BY <1>1 DEF Obeyed, RunOK, OldStopEndsNoRun

(* The steps of live_stop. *)
LEMMA StopObeys == ASSUME Obeyed, LiveStop PROVE Obeyed'
<1>1. stop \in [Stops -> {"none", "tested", "set"}] /\ run \in [n : Int, at : Places]
  BY DEF Obeyed, RunOK
<1>2. ASSUME NEW t \in Stops, NEW how \in {"none", "tested", "set"},
             stop' = [stop EXCEPT ![t] = how]
      PROVE  /\ stop' \in [Stops -> {"none", "tested", "set"}] /\ stop'[t] = how
             /\ \A u \in Stops \ {t} : stop'[u] = stop[u]
  BY <1>1, <1>2
<1>3. ASSUME NEW t \in Stops, StopTest(t) PROVE Obeyed'
  <2>1. /\ stop[t] = "none" /\ stop' = [stop EXCEPT ![t] = "tested"]
        /\ UNCHANGED <<run, stopped, CANCEL, hit>>
    BY <1>3 DEF StopTest, runVars, globals
  <2>2. /\ stop' \in [Stops -> {"none", "tested", "set"}]
        /\ \A u \in Stops : stop[u] = "set" => stop'[u] = "set"
    BY <1>2, <2>1
  <2> QED
    BY <1>1, <2>1, <2>2 DEF Obeyed, RunOK, OldStopEndsNoRun
<1>4. ASSUME NEW t \in Stops, StopSet(t) PROVE Obeyed'
  <2>1. /\ stop' = [stop EXCEPT ![t] = "set"] /\ run' = run /\ hit' = run.n
    BY <1>4 DEF StopSet, runVars
  <2>2. stop' \in [Stops -> {"none", "tested", "set"}] /\ stop'[t] = "set"
    BY <1>2, <2>1
  <2> QED
    BY <1>1, <2>1, <2>2 DEF Obeyed, RunOK, OldStopEndsNoRun
<1>5. ASSUME NEW t \in Stops, StopMark(t) PROVE Obeyed'
  <2>1. /\ stop' = [stop EXCEPT ![t] = "none"] /\ stopped'
        /\ UNCHANGED <<run, CANCEL, hit>>
    BY <1>5 DEF StopMark, globals
  <2>2. stop' \in [Stops -> {"none", "tested", "set"}]
    BY <1>2, <2>1
  <2> QED
    BY <1>1, <2>1, <2>2 DEF Obeyed, RunOK, OldStopEndsNoRun
<1> QED
  BY <1>3, <1>4, <1>5 DEF LiveStop

LEMMA ObeyedStep == ASSUME Obeyed, [Next]_vars PROVE Obeyed'
<1>1. CASE UNCHANGED vars
  BY <1>1, OthersObey DEF vars, runVars, globals, histories, others
<1>2. CASE LiveStart
  <2>1. /\ run' = [n |-> run.n + 1, at |-> "start"] /\ run.n \in Int /\ "start" \in Places
        /\ stop' = stop
    BY <1>2, PlacesListed DEF LiveStart, Obeyed, RunOK, stopVars
  <2> QED
    BY <2>1 DEF Obeyed, RunOK, OldStopEndsNoRun
<1>3. CASE LiveStop
  BY <1>3, StopObeys
<1>4. CASE Diagnose
  <2>1. /\ run' = [run EXCEPT !.at = "running"] /\ ~CANCEL' /\ "running" \in Places
        /\ stop' = stop
    BY <1>4, PlacesListed DEF Diagnose, histories, others, stopVars
  <2> QED
    BY <2>1 DEF Obeyed, RunOK, OldStopEndsNoRun
<1>5. CASE ClearContext
  BY <1>5, PlacesListed, LeavingObeys DEF ClearContext, stopVars
<1>6. CASE RunCancelled \/ RunSession \/ RunEnd
  BY <1>6, PlacesListed, LeavingObeys DEF RunCancelled, RunSession, RunEnd, histories, others,
     stopVars
<1>7. CASE RunReturns
  BY <1>7, PlacesListed, LeavingObeys DEF RunReturns, histories, others, stopVars
<1>8. CASE RunCall \/ Select
  BY <1>8, OthersObey DEF RunCall, Select, SelectTrace, SelectDirectory, runVars, globals, others
<1>9. ASSUME NEW n \in Runs, Watch(n) PROVE Obeyed'
  BY <1>9, OthersObey DEF Watch, globals, histories, others
<1>10. ASSUME NEW q \in Questions, AskChecked(q) \/ Answer(q) \/ AskCall(q) PROVE Obeyed'
  <2>1. CASE Ask(q)
    BY <2>1, OthersObey DEF Ask, runVars, globals, histories, others
  <2>2. CASE AskChecked(q) \/ AskAccepted(q) \/ Build(q) \/ SaveChat(q) \/ AskFails(q)
             \/ AskCall(q)
    BY <2>2, OthersObey DEF AskChecked, AskAccepted, Build, SaveChat, AskFails, AskCall, runVars,
                            globals, histories, others
  <2> QED
    BY <1>10, <2>1, <2>2 DEF Answer
<1>11. CASE Request \/ Switch \/ Connect \/ Fork
  BY <1>11, OthersObey DEF Request, Switch, Connect, Fork, runVars, globals, histories, others
<1> QED
  BY <1>1, <1>2, <1>3, <1>4, <1>5, <1>6, <1>7, <1>8, <1>9, <1>10, <1>11 DEF Next, RunThread

(* diagnose clears CANCEL and only live_stop sets it (chat_ask's clearing  *)
(* can lose a stop, never make one): what cancels a run set CANCEL while   *)
(* it was the last one, however the steps of several stops and of the runs *)
(* before interleave, and it is shown as stopped or about to be.           *)
THEOREM OldStopsEndNoRun == Spec => []OldStopEndsNoRun
<1>1. Obeyed => OldStopEndsNoRun
  BY DEF Obeyed
<1> QED
  BY <1>1, InitObeys, ObeyedStep, PTL DEF Spec
-----------------------------------------------------------------------------
(* live_stop and load_state change nothing but CANCEL, LIVE["stopped"] and *)
(* the selected trace.                                                     *)
LEMMA StopsElsewhere ==
    LiveStop \/ Select => UNCHANGED <<run, watch, tr, CTX, chat, objs, ask, request, files, forks,
                                      limit, strays, crossed, runId, given, shared>>
BY DEF LiveStop, StopTest, StopSet, StopMark, Select, SelectTrace, SelectDirectory, runVars, globals,
       traceVars

(* The types of the state, piece by piece. *)
RunTyped ==
    /\ run \in [n : 0 .. MaxRuns,
                at : {"none", "start", "cleared", "running", "returned", "ending"}]
    /\ watch \in [Runs -> [on : BOOLEAN, prev : {0} \cup Contexts]]
    /\ tr \in {0} \cup Contexts /\ CTX \in {0} \cup Contexts /\ CANCEL \in BOOLEAN
    /\ stopped \in BOOLEAN /\ limit \in Limits
    /\ strays \in [Runs -> BOOLEAN] /\ crossed \subseteq Questions
ChatTyped ==
    /\ chat \in [sid : {0} \cup Sessions, obj : {0} \cup Questions, busy : BOOLEAN]
    /\ objs \in [Questions -> Seq(Int)]
    /\ ask \in [Questions -> [at : {"new", "checked", "accepted", "built", "asking", "answered",
                                    "ending", "over", "failed"},
                              sid : {0} \cup Sessions, obj : {0} \cup Questions]]
FilesTyped ==
    /\ request \in [what : {"none", "open", "connect"}, sid : {0} \cup Sessions,
                    thread : Seq(Int)]
    /\ files \in [Sessions -> [tr : {0} \cup Contexts, thread : Seq(Int)]]
    /\ forks \in 0 .. MaxForks

(* A session that is opened, or about to be, is on disk. *)
Stands ==
    /\ chat.sid # 0 => There(chat.sid)
    /\ request # NoRequest => request.sid \in Sessions /\ There(request.sid)

(* The threads in live_stop, the trace selected and those of the runs. *)
TraceTyped ==
    /\ stop \in [Stops -> {"none", "tested", "set"}] /\ hit \in 0 .. MaxRuns
    /\ RUN_ID \in Traces /\ RUN_DIR \in Traces /\ runId \in [Sessions -> 0 .. NTraces]
    /\ given \in [Runs -> 0 .. NTraces]
    /\ moved \subseteq Runs /\ shared \subseteq Runs
    /\ Running => run.n \in Runs

Typed == RunTyped /\ ChatTyped /\ FilesTyped /\ Stands /\ TraceTyped

LEMMA TypedIsTypeOK == Typed => TypeOK
BY DEF Typed, RunTyped, ChatTyped, FilesTyped, Stands, TraceTyped, There, TypeOK

LEMMA Ranges ==
    /\ Runs \subseteq Sessions /\ Runs \subseteq Contexts /\ 0 \notin Sessions /\ 0 \notin Contexts
    /\ 0 .. MaxRuns \subseteq {0} \cup Runs /\ 0 \notin Questions
    /\ \A q \in Questions : Author(q) \in Contexts /\ Author(q) \notin Runs /\ q \in Int /\ -q \in Int
    /\ \A l \in Limits : l.runs \in 1 .. MaxRuns /\ l.questions \in 0 .. MaxQuestions
                         /\ l.forks \in 0 .. MaxForks /\ l.traces \in 1 .. NTraces
BY CountAssumption, LimitsAssumption DEF Runs, Sessions, Contexts, Questions, Author

(* What a step keeps of the sessions on disk. *)
LEMMA StandsStays ==
    ASSUME Typed, \A s \in Sessions : There(s) => There(s)',
           chat'.sid \in {0, chat.sid}, request' = request
    PROVE  Stands'
BY DEF Typed, Stands, ChatTyped

LEMMA TypedInit == Init => Typed
<1>1. /\ {0} \cup Contexts \subseteq Int /\ 0 \in 0 .. MaxForks /\ 0 \in 0 .. MaxRuns
      /\ <<>> \in Seq(Int)
  BY CountAssumption DEF Contexts
<1>2. Init => RunTyped
  <2>1. [on |-> FALSE, prev |-> 0] \in [on : BOOLEAN, prev : {0} \cup Contexts]
    OBVIOUS
  <2>2. Init => watch \in [Runs -> [on : BOOLEAN, prev : {0} \cup Contexts]]
    BY <2>1 DEF Init
  <2>3. Init => run \in [n : 0 .. MaxRuns,
                        at : {"none", "start", "cleared", "running", "returned", "ending"}]
    BY <1>1 DEF Init
  <2>4. Init => /\ tr \in {0} \cup Contexts /\ CTX \in {0} \cup Contexts /\ CANCEL \in BOOLEAN
                /\ stopped \in BOOLEAN /\ limit \in Limits
    BY DEF Init
  <2>5. Init => strays \in [Runs -> BOOLEAN] /\ crossed \subseteq Questions
    BY DEF Init
  <2> QED
    BY <2>2, <2>3, <2>4, <2>5 DEF RunTyped
<1>3. Init => ChatTyped
  BY <1>1 DEF Init, ChatTyped
<1>4. Init => FilesTyped
  BY <1>1 DEF Init, FilesTyped, NoFile, NoRequest
<1>5. Init => Stands
  BY DEF Init, Stands
<1>6. Init => TraceTyped
  BY CountAssumption DEF Init, TraceTyped, Traces, Running
<1> QED
  BY <1>2, <1>3, <1>4, <1>5, <1>6 DEF Typed

(* The run, its context and its watchers. *)
LEMMA RunTypedStep == ASSUME Typed, [Next]_vars PROVE RunTyped'
<1>1. /\ RunTyped /\ limit.runs <= MaxRuns /\ limit.runs \in Nat
      /\ \A q \in Questions : Author(q) \in Contexts
      /\ run.n \in {0} \cup Contexts /\ run.n \in 0 .. MaxRuns /\ MaxRuns \in Nat
  <2>1. RunTyped /\ run.n \in 0 .. MaxRuns /\ limit \in Limits
    BY DEF Typed, RunTyped
  <2>2. limit.runs <= MaxRuns /\ limit.runs \in Nat
    BY <2>1, Ranges, CountAssumption
  <2>3. run.n \in {0} \cup Contexts /\ MaxRuns \in Nat
    BY <2>1, CountAssumption DEF Contexts
  <2> QED
    BY <2>1, <2>2, <2>3, Ranges
<1> DEFINE RunRecords == [n : 0 .. MaxRuns,
                          at : {"none", "start", "cleared", "running", "returned", "ending"}]
           Watches == [Runs -> [on : BOOLEAN, prev : {0} \cup Contexts]]
<1>2. CASE UNCHANGED vars
  BY <1>1, <1>2 DEF RunTyped, vars, runVars, globals, histories
<1>3. CASE LiveStart
  <2>1. /\ run' = [n |-> run.n + 1, at |-> "start"] /\ run.n < limit.runs
        /\ tr' = 0 /\ stopped' = FALSE /\ crossed' = crossed \cup InFlight
        /\ UNCHANGED <<watch, globals, limit, strays>>
    BY <1>3 DEF LiveStart
  <2>2. run.n + 1 \in 0 .. MaxRuns
    BY <1>1, <2>1
  <2>3. run' \in RunRecords
    BY <2>1, <2>2
  <2> QED
    BY <1>1, <2>1, <2>3 DEF RunTyped, globals, InFlight
<1>4. CASE LiveStop \/ Select
  BY <1>1, <1>4 DEF LiveStop, StopTest, StopSet, StopMark, Select, SelectTrace, SelectDirectory,
     RunTyped, runVars, globals
<1>5. CASE ClearContext
  <2>1. /\ run' = [run EXCEPT !.at = "cleared"] /\ CTX' = 0
        /\ watch' = [watch EXCEPT ![run.n] = [on |-> TRUE, prev |-> CTX]]
        /\ UNCHANGED <<tr, stopped, CANCEL, limit, strays, crossed>>
    BY <1>5 DEF ClearContext
  <2>2. run' \in RunRecords
    BY <1>1, <2>1 DEF RunTyped
  <2>3. [on |-> TRUE, prev |-> CTX] \in [on : BOOLEAN, prev : {0} \cup Contexts]
    BY <1>1 DEF RunTyped
  <2>4. watch' \in Watches
    BY <1>1, <2>1, <2>3 DEF RunTyped
  <2> QED
    BY <1>1, <2>1, <2>2, <2>4 DEF RunTyped
<1>6. CASE Diagnose
  BY <1>1, <1>6 DEF Diagnose, RunTyped, histories
<1>7. CASE RunCancelled \/ RunReturns \/ RunSession \/ RunEnd
  <2>1. PICK at \in {"ending", "returned", "none"} : run' = [run EXCEPT !.at = at]
    BY <1>7 DEF RunCancelled, RunReturns, RunSession, RunEnd
  <2>2. run' \in RunRecords
    BY <1>1, <2>1 DEF RunTyped
  <2>3. UNCHANGED <<watch, tr, stopped, globals, limit, strays, crossed>>
    BY <1>7 DEF RunCancelled, RunReturns, RunSession, RunEnd, histories
  <2> QED
    BY <1>1, <2>2, <2>3 DEF RunTyped, globals
<1>8. CASE RunCall
  BY <1>1, <1>8 DEF RunCall, Record, RunTyped, runVars, globals
<1>9. ASSUME NEW n \in Runs, Watch(n) PROVE RunTyped'
  <2>1. /\ watch' = [watch EXCEPT ![n] = [@ EXCEPT !.on = FALSE]] /\ tr' = CTX
        /\ UNCHANGED <<run, stopped, globals, histories>>
    BY <1>9 DEF Watch
  <2>2. [watch[n] EXCEPT !.on = FALSE] \in [on : BOOLEAN, prev : {0} \cup Contexts]
    BY <1>1 DEF RunTyped
  <2>3. watch' \in Watches
    BY <1>1, <2>1, <2>2 DEF RunTyped
  <2> QED
    BY <1>1, <2>1, <2>3 DEF RunTyped, globals, histories
<1>10. ASSUME NEW q \in Questions, AskChecked(q) \/ Answer(q) \/ AskCall(q) PROVE RunTyped'
  <2>1. CASE AskChecked(q)
    BY <1>1, <2>1 DEF AskChecked, RunTyped, runVars, globals
  <2>2. CASE Ask(q)
    <3>1. (CTX' = Author(chat.obj) /\ chat.obj # 0 /\ ~CANCEL') \/ UNCHANGED globals
      BY <2>2 DEF Ask
    <3>2. chat.obj # 0 => Author(chat.obj) \in Contexts
      BY <1>1 DEF Typed, ChatTyped
    <3>3. CTX' \in {0} \cup Contexts /\ CANCEL' \in BOOLEAN
      BY <1>1, <2>2, <3>1, <3>2 DEF RunTyped, globals, Ask
    <3> QED
      BY <1>1, <2>2, <3>3 DEF Ask, RunTyped, runVars, histories
  <2>3. CASE AskAccepted(q) \/ Build(q) \/ SaveChat(q) \/ AskFails(q)
    BY <1>1, <2>3 DEF AskAccepted, Build, SaveChat, AskFails, RunTyped, runVars, globals, histories
  <2>4. CASE AskCall(q)
    <3>1. UNCHANGED <<runVars, globals, limit, crossed>> /\ strays' \in [Runs -> BOOLEAN]
      BY <1>1, <2>4 DEF AskCall, Record, RunTyped
    <3> QED
      BY <1>1, <3>1 DEF RunTyped, runVars, globals
  <2> QED
    BY <1>10, <2>1, <2>2, <2>3, <2>4 DEF Answer
<1>11. CASE Request \/ Switch \/ Connect \/ Fork
  BY <1>1, <1>11 DEF Request, Switch, Connect, Fork, Begin, RunTyped, runVars, globals, histories,
     InFlight
<1> QED
  BY <1>2, <1>3, <1>4, <1>5, <1>6, <1>7, <1>8, <1>9, <1>10, <1>11 DEF Next, RunThread

(* The chat, its objects and the questions. *)
LEMMA ChatTypedStep == ASSUME Typed, [Next]_vars PROVE ChatTyped'
<1> DEFINE Chats == [sid : {0} \cup Sessions, obj : {0} \cup Questions, busy : BOOLEAN]
           Ats == {"new", "checked", "accepted", "built", "asking", "answered",
                   "ending", "over", "failed"}
           S == {0} \cup Sessions
           O == {0} \cup Questions
           Asks == [at : Ats, sid : S, obj : O]
<1>1. /\ chat \in Chats /\ objs \in [Questions -> Seq(Int)] /\ ask \in [Questions -> Asks]
      /\ run.n \in {0} \cup Sessions /\ request.sid \in {0} \cup Sessions
      /\ \A s \in Sessions : files[s].thread \in Seq(Int)
  <2>1. run.n \in 0 .. MaxRuns
    BY DEF Typed, RunTyped
  <2> QED
    BY <2>1, Ranges DEF Typed, ChatTyped, FilesTyped
<1>2. ASSUME NEW q \in Questions
      PROVE  /\ \A at \in Ats : [ask EXCEPT ![q].at = at] \in [Questions -> Asks]
             /\ \A at \in Ats, s \in S : [ask EXCEPT ![q].at = at, ![q].sid = s]
                                             \in [Questions -> Asks]
             /\ \A at \in Ats, o \in O : [ask EXCEPT ![q].at = at, ![q].obj = o]
                                             \in [Questions -> Asks]
  <2>1. ask \in [Questions -> Asks]
    BY <1>1
  <2> HIDE DEF Ats, S, O
  <2>2. ASSUME NEW at \in Ats, NEW s \in S, NEW o \in O
        PROVE  /\ [ask[q] EXCEPT !.at = at] \in Asks
               /\ [ask[q] EXCEPT !.at = at, !.sid = s] \in Asks
               /\ [ask[q] EXCEPT !.at = at, !.obj = o] \in Asks
    BY <2>1
  <2> HIDE DEF Asks
  <2>3. ASSUME NEW r \in Asks PROVE [ask EXCEPT ![q] = r] \in [Questions -> Asks]
    BY <2>1
  <2>4. 0 \in S /\ 0 \in O
    BY DEF S, O
  <2> QED
    BY <2>2, <2>3, <2>4
<1>0. chat.sid \in S /\ chat.obj \in O
  BY <1>1
<1> HIDE DEF Chats, Asks, S, O
<1>3. CASE UNCHANGED <<chat, objs, ask>>
  BY <1>1, <1>3 DEF ChatTyped, Chats, Asks, S, O
<1>4. CASE LiveStart
  <2>1. chat' \in Chats /\ UNCHANGED <<objs, ask>>
    BY <1>4 DEF LiveStart, Chats
  <2> QED
    BY <1>1, <2>1 DEF ChatTyped, Chats, Asks, S, O
<1>5. CASE RunSession \/ Switch \/ Connect
  <2>1. chat' \in Chats
    BY <1>1, <1>5 DEF RunSession, Switch, Connect, Chats
  <2> QED
    BY <1>1, <1>5, <2>1 DEF RunSession, Switch, Connect, ChatTyped, Chats, Asks, S, O
<1>6. ASSUME NEW q \in Questions, AskChecked(q) \/ Answer(q) \/ AskCall(q) PROVE ChatTyped'
  <2>1. CASE AskChecked(q)
    <3>3. ask' \in [Questions -> Asks]
      BY <1>0, <1>2, <2>1 DEF AskChecked
    <3> QED
      BY <1>1, <2>1, <3>3 DEF AskChecked, ChatTyped, Chats, Asks, S, O
  <2>2. CASE AskAccepted(q) \/ SaveChat(q) \/ AskFails(q)
    <3>1. chat' \in Chats /\ objs' = objs
      BY <1>1, <2>2 DEF AskAccepted, SaveChat, AskFails, Chats
    <3>2. PICK at \in Ats : ask' = [ask EXCEPT ![q].at = at]
      BY <2>2 DEF AskAccepted, SaveChat, AskFails
    <3>3. ask' \in [Questions -> Asks]
      BY <1>0, <1>2, <3>2
    <3> QED
      BY <1>1, <3>1, <3>3 DEF ChatTyped, Chats, Asks, S, O
  <2>3. CASE Build(q)
    <3>1. chat' \in Chats
      BY <1>1, <2>3 DEF Build, Chats
    <3>2. Stored(chat.sid) \in Seq(Int)
      BY <1>1 DEF Stored, Chats
    <3>3. objs' \in [Questions -> Seq(Int)]
      BY <1>1, <2>3, <3>2 DEF Build
    <3>4. ask' \in [Questions -> Asks]
      BY <1>0, <1>2, <2>3 DEF Build
    <3> QED
      BY <3>1, <3>3, <3>4 DEF ChatTyped, Chats, Asks, S, O
  <2>4. CASE Ask(q)
    <3>1. chat' = chat /\ q \in Int
      BY <2>4, Ranges DEF Ask
    <3>2. objs' \in {objs, [objs EXCEPT ![chat.obj] = Append(@, q)]}
      BY <2>4 DEF Ask
    <3>3. ASSUME NEW o \in Questions PROVE Append(objs[o], q) \in Seq(Int)
      BY <1>1, <3>1
    <3>4. objs' \in [Questions -> Seq(Int)]
      <4> DEFINE new == Append(objs[chat.obj], q)
      <4>1. CASE chat.obj \in Questions
        <5>1. new \in Seq(Int)
          BY <3>3, <4>1
        <5> HIDE DEF new
        <5> QED
          BY <1>1, <3>2, <5>1 DEF new
      <4>2. CASE chat.obj \notin Questions
        BY <1>1, <3>2, <4>2
      <4> QED
        BY <4>1, <4>2
    <3>5. ask' \in [Questions -> Asks]
      <4>1. /\ "ending" \in Ats /\ "asking" \in Ats
            /\ \/ ask' = [ask EXCEPT ![q].at = "ending"]
               \/ ask' = [ask EXCEPT ![q].at = "asking", ![q].obj = chat.obj]
        BY <2>4 DEF Ask
      <4> HIDE DEF Ats
      <4>2. [ask EXCEPT ![q].at = "ending"] \in [Questions -> Asks]
        BY <1>2, <4>1
      <4>3. [ask EXCEPT ![q].at = "asking", ![q].obj = chat.obj] \in [Questions -> Asks]
        BY <1>0, <1>2, <4>1
      <4> QED
        BY <4>1, <4>2, <4>3
    <3> QED
      BY <1>1, <3>1, <3>4, <3>5 DEF ChatTyped, Chats, Asks, S, O
  <2>5. CASE AskCall(q)
    <3>1. chat' = chat /\ -q \in Int
      BY <2>5, Ranges DEF AskCall
    <3>2. objs' \in {objs, [objs EXCEPT ![ask[q].obj] = Append(@, -q)]}
      BY <2>5 DEF AskCall
    <3>6. ASSUME NEW o \in Questions PROVE Append(objs[o], -q) \in Seq(Int)
      BY <1>1, <3>1
    <3>3. objs' \in [Questions -> Seq(Int)]
      <4> DEFINE new == Append(objs[ask[q].obj], -q)
      <4>1. CASE ask[q].obj \in Questions
        <5>1. new \in Seq(Int)
          BY <3>6, <4>1
        <5> HIDE DEF new
        <5> QED
          BY <1>1, <3>2, <5>1 DEF new
      <4>2. CASE ask[q].obj \notin Questions
        BY <1>1, <3>2, <4>2
      <4> QED
        BY <4>1, <4>2
    <3>4. PICK at \in Ats : ask' = [ask EXCEPT ![q].at = at]
      BY <2>5 DEF AskCall
    <3>5. ask' \in [Questions -> Asks]
      BY <1>0, <1>2, <3>4
    <3> QED
      BY <1>1, <3>1, <3>3, <3>5 DEF ChatTyped, Chats, Asks, S, O
  <2> QED
    BY <1>6, <2>1, <2>2, <2>3, <2>4, <2>5 DEF Answer
<1> QED
  BY <1>3, <1>4, <1>5, <1>6, StopsElsewhere DEF Next, vars, RunThread, ClearContext, Diagnose,
     RunCancelled, RunReturns, RunEnd, RunCall, Watch, Request, Fork

(* What save_chat leaves on disk. *)
LEMMA SavedTyped ==
    ASSUME Typed
    PROVE  /\ Saved \in [Sessions -> [tr : {0} \cup Contexts, thread : Seq(Int)]]
           /\ \A s \in Sessions : Saved[s].tr = files[s].tr
<1>1. /\ chat.sid \in {0} \cup Sessions /\ chat.obj \in {0} \cup Questions
      /\ objs \in [Questions -> Seq(Int)]
      /\ files \in [Sessions -> [tr : {0} \cup Contexts, thread : Seq(Int)]]
  BY DEF Typed, ChatTyped, FilesTyped
<1>2. CASE Saved = files
  BY <1>1, <1>2
<1>3. CASE /\ chat.sid # 0 /\ chat.obj # 0
           /\ Saved = [files EXCEPT ![chat.sid].thread = objs[chat.obj]]
  <2>1. [files[chat.sid] EXCEPT !.thread = objs[chat.obj]]
          \in [tr : {0} \cup Contexts, thread : Seq(Int)]
    BY <1>1, <1>3
  <2> QED
    BY <1>1, <1>3, <2>1
<1> QED
  BY <1>2, <1>3 DEF Saved

(* The sessions on disk: they are well typed and stay there. *)
LEMMA FilesTypedStep ==
    ASSUME Typed, [Next]_vars
    PROVE  FilesTyped' /\ \A s \in Sessions : There(s) => There(s)'
<1> DEFINE File == [tr : {0} \cup Contexts, thread : Seq(Int)]
           Requests == [what : {"none", "open", "connect"}, sid : {0} \cup Sessions,
                        thread : Seq(Int)]
<1>1. /\ files \in [Sessions -> File] /\ request \in Requests /\ forks \in 0 .. MaxForks
      /\ tr \in {0} \cup Contexts /\ chat.sid \in {0} \cup Sessions
      /\ NoRequest \in Requests /\ <<>> \in Seq(Int)
  BY DEF Typed, RunTyped, ChatTyped, FilesTyped, NoRequest
<1>2. ASSUME NEW s \in Sessions, NEW f \in File, f.tr # 0 \/ ~There(s)
      PROVE  LET g == [files EXCEPT ![s] = f] IN
             g \in [Sessions -> File] /\ \A t \in Sessions : There(t) => g[t].tr # 0
  BY <1>1, <1>2 DEF There
<1>3. CASE UNCHANGED <<request, files, forks>>
  BY <1>1, <1>3 DEF FilesTyped, There
<1>4. CASE RunSession
  <2>1. UNCHANGED <<request, forks>>
    BY <1>4 DEF RunSession
  <2>2. CASE tr = 0
    BY <1>3, <1>4, <2>1, <2>2 DEF RunSession
  <2>3. CASE tr # 0
    <3> DEFINE f == [tr |-> tr, thread |-> <<>>]
    <3>1. f \in File /\ f.tr # 0
      BY <1>1, <2>3
    <3>2. files' = [files EXCEPT ![run.n] = f]
      BY <1>4, <2>3 DEF RunSession
    <3> HIDE DEF f
    <3>3. files' \in [Sessions -> File] /\ \A t \in Sessions : There(t) => files'[t].tr # 0
      BY <1>1, <3>1, <3>2 DEF There
    <3> QED
      BY <1>1, <2>1, <3>3 DEF FilesTyped, There
  <2> QED
    BY <2>2, <2>3
<1>5. ASSUME NEW q \in Questions, SaveChat(q)
      PROVE  FilesTyped' /\ \A s \in Sessions : There(s) => There(s)'
  <2>1. files' = Saved /\ UNCHANGED <<request, forks>>
    BY <1>5 DEF SaveChat
  <2> QED
    BY <1>1, <2>1, SavedTyped DEF FilesTyped, There
<1>6. CASE Request
  <2>1. PICK what \in {"open", "connect"}, s \in Sessions :
          request' = [what |-> what, sid |-> s, thread |-> files[s].thread]
    BY <1>1, <1>6 DEF Request, Begin
  <2>2. files[s].thread \in Seq(Int)
    BY <1>1
  <2>3. request' \in Requests /\ UNCHANGED <<files, forks>>
    BY <1>6, <2>1, <2>2 DEF Request
  <2> QED
    BY <1>1, <2>3 DEF FilesTyped, There
<1>7. CASE Switch
  BY <1>1, <1>7 DEF Switch, FilesTyped, There
<1>8. CASE Connect
  <2>1. request' = NoRequest /\ forks' = forks
    BY <1>8 DEF Connect
  <2>2. CASE chat.obj # 0
    BY <1>1, <1>8, <2>1, <2>2, SavedTyped DEF Connect, FilesTyped, There
  <2>3. CASE chat.obj = 0
    <3>1. files' = [files EXCEPT ![request.sid].thread = request.thread]
      BY <1>8, <2>3 DEF Connect
    <3>2. \A s \in Sessions : files'[s] = IF s = request.sid
                                          THEN [files[s] EXCEPT !.thread = request.thread]
                                          ELSE files[s]
      BY <1>1, <3>1
    <3>3. request.thread \in Seq(Int)
      BY <1>1
    <3>4. \A s \in Sessions : files'[s] \in File /\ files'[s].tr = files[s].tr
      <4> DEFINE C == {0} \cup Contexts
                 T == Seq(Int)
      <4>1. File = [tr : C, thread : T] /\ request.thread \in T
        BY <3>3
      <4> HIDE DEF C, T, File
      <4>2. \A s \in Sessions : /\ [files[s] EXCEPT !.thread = request.thread] \in File
                                /\ [files[s] EXCEPT !.thread = request.thread].tr = files[s].tr
        BY <1>1, <4>1
      <4> QED
        BY <1>1, <3>2, <4>2
    <3>5. files' \in [Sessions -> File]
      BY <1>1, <3>1, <3>4
    <3> QED
      BY <1>1, <2>1, <3>4, <3>5 DEF FilesTyped, There
  <2> QED
    BY <2>2, <2>3
<1>9. CASE Fork
  <2> DEFINE new == MaxRuns + forks + 1
  <2>1. /\ forks < MaxForks /\ forks' = forks + 1
        /\ forks' \in 0 .. MaxForks
    <3>1. limit.forks \in 0 .. MaxForks /\ forks < limit.forks /\ forks' = forks + 1
      BY <1>9, Ranges DEF Fork, Typed, RunTyped
    <3> QED
      BY <1>1, <3>1, CountAssumption
  <2>2. new \in Sessions
    BY <1>1, <2>1, CountAssumption DEF Sessions
  <2> HIDE DEF new
  <2>3. PICK s \in Sessions : /\ There(s)
                              /\ files' = [files EXCEPT ![new] = [tr |-> files[s].tr, thread |-> <<>>]]
    BY <1>9 DEF Fork, new
  <2> DEFINE f == [tr |-> files[s].tr, thread |-> <<>>]
  <2>4. f \in File /\ f.tr # 0
    BY <1>1, <2>3 DEF There
  <2> HIDE DEF f
  <2>5. files' \in [Sessions -> File] /\ \A t \in Sessions : There(t) => files'[t].tr # 0
    BY <1>2, <2>2, <2>3, <2>4 DEF f
  <2>6. request' = [what |-> "open", sid |-> new, thread |-> files'[new].thread]
    BY <1>9 DEF Fork, Begin, new
  <2>7. files'[new].thread \in Seq(Int)
    BY <2>2, <2>5
  <2>8. request' \in Requests
    BY <2>2, <2>6, <2>7
  <2> QED
    BY <2>1, <2>5, <2>8 DEF FilesTyped, There
<1> QED
  BY <1>3, <1>4, <1>5, <1>6, <1>7, <1>8, <1>9, StopsElsewhere DEF Next, vars, LiveStart,
     RunThread, ClearContext, Diagnose, RunCancelled, RunReturns, RunEnd, RunCall, Watch,
     AskChecked, Answer, AskAccepted, Build, Ask, AskFails, AskCall

LEMMA StandsStep == ASSUME Typed, [Next]_vars PROVE Stands'
<1>1. /\ \A s \in Sessions : There(s) => There(s)'
      /\ Stands /\ chat.sid \in {0} \cup Sessions /\ files \in [Sessions ->
                   [tr : {0} \cup Contexts, thread : Seq(Int)]]
      /\ request.sid \in {0} \cup Sessions
  BY FilesTypedStep DEF Typed, ChatTyped, FilesTyped
<1>2. CASE chat'.sid \in {0, chat.sid} /\ request' \in {request, NoRequest}
  BY <1>1, <1>2 DEF Stands
<1>3. CASE RunSession
  <2>1. CASE tr = 0
    BY <1>2, <1>3, <2>1 DEF RunSession
  <2>2. CASE tr # 0
    <3>1. /\ files' = [files EXCEPT ![run.n] = [tr |-> tr, thread |-> <<>>]]
          /\ chat' = [chat EXCEPT !.sid = run.n, !.obj = 0] /\ request' = request
      BY <1>3, <2>2 DEF RunSession
    <3>2. chat'.sid = run.n /\ run.n \in {0} \cup Sessions
      BY <3>1, Ranges DEF Typed, RunTyped, ChatTyped
    <3>3. run.n # 0 => files'[run.n].tr # 0
      BY <1>1, <2>2, <3>1, <3>2
    <3> QED
      BY <1>1, <3>1, <3>2, <3>3 DEF Stands, There
  <2> QED
    BY <2>1, <2>2
<1>4. CASE Request
  <2>1. PICK what \in {"open", "connect"}, s \in Sessions :
          There(s) /\ request' = [what |-> what, sid |-> s, thread |-> files'[s].thread]
    BY <1>1, <1>4 DEF Request, Begin
  <2>2. UNCHANGED <<chat, files>>
    BY <1>4 DEF Request
  <2> QED
    BY <1>1, <2>1, <2>2 DEF Stands, There
<1>5. CASE Fork
  <2> DEFINE new == MaxRuns + forks + 1
  <2>1. forks < MaxForks /\ forks \in Nat
    <3>1. limit.forks \in 0 .. MaxForks /\ forks < limit.forks /\ forks \in 0 .. MaxForks
      BY <1>5, Ranges DEF Fork, Typed, RunTyped, FilesTyped
    <3> QED
      BY <3>1, CountAssumption
  <2>2. new \in Sessions
    BY <2>1, CountAssumption DEF Sessions
  <2> HIDE DEF new
  <2>3. PICK s \in Sessions : /\ There(s)
                              /\ files' = [files EXCEPT ![new] = [tr |-> files[s].tr, thread |-> <<>>]]
    BY <1>5 DEF Fork, new
  <2>4. files'[new].tr # 0
    BY <1>1, <2>2, <2>3 DEF There
  <2>5. chat' = chat /\ request'.sid = new
    BY <1>5 DEF Fork, Begin, new
  <2> QED
    BY <1>1, <2>2, <2>4, <2>5 DEF Stands, There
<1>6. CASE Switch
  <2>1. request # NoRequest /\ chat'.sid = request.sid /\ request' = NoRequest
    BY <1>6 DEF Switch, NoRequest, Typed, ChatTyped
  <2> QED
    BY <1>1, <2>1 DEF Stands
<1> QED
  <2>1. CASE LiveStart
    BY <1>2, <2>1 DEF LiveStart
  <2>2. CASE Connect
    BY <1>2, <2>2 DEF Connect, Typed, ChatTyped
  <2>3. ASSUME NEW q \in Questions, AskAccepted(q) \/ Build(q) \/ SaveChat(q) \/ AskFails(q)
        PROVE  Stands'
    <3>1. chat'.sid = chat.sid /\ request' = request
      BY <2>3 DEF AskAccepted, Build, SaveChat, AskFails, Typed, ChatTyped
    <3> QED
      BY <1>2, <3>1
  <2>4. CASE UNCHANGED <<chat, request>>
    BY <1>2, <2>4
  <2> QED
    BY <1>3, <1>4, <1>5, <1>6, <2>1, <2>2, <2>3, <2>4, StopsElsewhere DEF Next, vars, RunThread,
       ClearContext, Diagnose, RunCancelled, RunReturns, RunEnd, RunCall, Watch, AskChecked,
       Answer, Ask, AskCall

(* The steps of a question that is in flight. *)
InFlightStep(q) == AskAccepted(q) \/ Build(q) \/ Ask(q) \/ AskCall(q) \/ SaveChat(q) \/ AskFails(q)

LEMMA NextByQuestion ==
    Next <=> \/ LiveStart \/ LiveStop \/ Select \/ RunThread \/ RunCall
             \/ \E n \in Runs : Watch(n)
             \/ \E q \in Questions : AskChecked(q) \/ InFlightStep(q)
             \/ Request \/ Switch \/ Connect \/ Fork
BY DEF Next, Answer, InFlightStep

(* Only live_start begins a run. *)
LEMMA RunStep ==
    ASSUME Typed, [Next]_vars, ~LiveStart
    PROVE  /\ run'.n = run.n
           /\ Running' => Running
<1>1. run \in [n : 0 .. MaxRuns,
               at : {"none", "start", "cleared", "running", "returned", "ending"}]
  BY DEF Typed, RunTyped
<1>2. run' = run \/ \E at \in {"cleared", "running", "returned", "ending", "none"} :
                      run.at # "none" /\ run' = [run EXCEPT !.at = at]
  BY StopsElsewhere DEF Next, vars, runVars, RunThread, ClearContext, Diagnose, RunCancelled,
     RunReturns, RunSession, RunEnd, RunCall, Watch, AskChecked, Answer, AskAccepted, Build, Ask,
     AskCall, SaveChat, AskFails, Request, Switch, Connect, Fork
<1> QED
  BY <1>1, <1>2 DEF Running

LEMMA TraceTypedStep == ASSUME Typed, [Next]_vars PROVE TraceTyped'
<1>1. /\ TraceTyped /\ run.n \in 0 .. MaxRuns /\ limit \in Limits /\ Traces \subseteq 0 .. NTraces
      /\ forks \in 0 .. MaxForks
  BY CountAssumption DEF Typed, RunTyped, FilesTyped, Traces
<1>0. (Running => run.n \in Runs)'
  <2>1. CASE LiveStart
    <3>1. run'.n = run.n + 1 /\ run.n < limit.runs /\ limit.runs \in 1 .. MaxRuns
      BY <1>1, <2>1, Ranges DEF LiveStart
    <3> QED
      BY <1>1, <3>1, CountAssumption DEF Runs
  <2>2. CASE ~LiveStart
    BY <1>1, <2>2, RunStep DEF TraceTyped
  <2> QED
    BY <2>1, <2>2
<1>2. CASE UNCHANGED others
  BY <1>0, <1>1, <1>2 DEF TraceTyped, others, stopVars, traceVars
<1>3. CASE LiveStart
  <2>1. /\ shared' = shared \cup {n \in {run.n + 1} : InFlight # {}} /\ run.n < limit.runs
        /\ UNCHANGED <<stopVars, traceVars>>
    BY <1>3 DEF LiveStart
  <2>2. run.n + 1 \in Runs
    <3>1. limit.runs \in 1 .. MaxRuns
      BY <1>1, Ranges
    <3> QED
      BY <1>1, <2>1, <3>1, CountAssumption DEF Runs
  <2> QED
    BY <1>0, <1>1, <2>1, <2>2 DEF TraceTyped, stopVars, traceVars
<1>4. CASE ClearContext
  <2>1. /\ given' = [given EXCEPT ![run.n] = RUN_DIR]
        /\ moved' = moved \cup {n \in {run.n} : RUN_DIR # RUN_ID} /\ run.n \in Runs
        /\ UNCHANGED <<stopVars, RUN_ID, RUN_DIR, runId, shared>>
    BY <1>1, <1>4 DEF ClearContext, Running, TraceTyped
  <2> QED
    BY <1>0, <1>1, <2>1 DEF TraceTyped, stopVars
<1>5. CASE RunSession
  <2>1. /\ runId' = runId \/ runId' = [runId EXCEPT ![run.n] = RUN_ID]
        /\ UNCHANGED <<stopVars, RUN_ID, RUN_DIR, given, moved, shared>>
    BY <1>5 DEF RunSession
  <2> QED
    BY <1>0, <1>1, <2>1 DEF TraceTyped, stopVars
<1>6. CASE LiveStop
  <2>1. PICK t \in Stops, how \in {"none", "tested", "set"} :
          /\ stop' = [stop EXCEPT ![t] = how] /\ hit' \in {hit, run.n}
          /\ UNCHANGED <<traceVars, shared>>
    BY <1>6 DEF LiveStop, StopTest, StopSet, StopMark
  <2> QED
    BY <1>0, <1>1, <2>1 DEF TraceTyped, traceVars
<1>7. CASE SelectTrace
  <2>1. /\ RUN_ID' \in 1 .. limit.traces
        /\ moved' = moved \cup {n \in {run.n} : run.at \in {"cleared", "running", "returned"}}
        /\ run.at \in {"cleared", "running", "returned"} => run.n \in Runs
        /\ UNCHANGED <<stopVars, RUN_DIR, runId, given, shared>>
    BY <1>1, <1>7 DEF SelectTrace, Running, TraceTyped
  <2>2. RUN_ID' \in Traces
    <3>1. limit.traces \in 1 .. NTraces
      BY <1>1, Ranges
    <3> QED
      BY <2>1, <3>1, CountAssumption DEF Traces
  <2> QED
    BY <1>0, <1>1, <2>1, <2>2 DEF TraceTyped, stopVars
<1>9. CASE SelectDirectory
  BY <1>0, <1>1, <1>9 DEF SelectDirectory, TraceTyped, stopVars
<1>8. CASE Fork
  <2>1. PICK s \in Sessions : /\ runId' = [runId EXCEPT ![MaxRuns + forks + 1] = runId[s]]
                              /\ UNCHANGED <<stopVars, RUN_ID, RUN_DIR, given, moved, shared>>
    BY <1>8 DEF Fork
  <2> QED
    BY <1>0, <1>1, <2>1 DEF TraceTyped, stopVars
<1> QED
  BY <1>2, <1>3, <1>4, <1>5, <1>6, <1>7, <1>8, <1>9, NextByQuestion DEF vars, histories, Select, RunThread,
     Diagnose, RunCancelled, RunReturns, RunEnd, RunCall, Watch, AskChecked, InFlightStep,
     AskAccepted, Build, Ask, AskCall, SaveChat, AskFails, Request, Switch, Connect

LEMMA TypedStep == ASSUME Typed, [Next]_vars PROVE Typed'
BY RunTypedStep, ChatTypedStep, FilesTypedStep, StandsStep, TraceTypedStep DEF Typed

(* The server's state is well typed, however its requests interleave, and  *)
(* the session it shows is always one on disk.                             *)
THEOREM TypeCorrect == Spec => []TypeOK
BY TypedInit, TypedStep, TypedIsTypeOK, PTL DEF Spec
-----------------------------------------------------------------------------
(* The questions in flight are all crossed or none is, and only crossed    *)
(* ones share the server with a run or with a pending request.             *)
Alone ==
    /\ Running => run.n \in Runs /\ InFlight \subseteq crossed
    /\ request # NoRequest => InFlight \subseteq crossed
    /\ InFlight \subseteq crossed \/ InFlight \cap crossed = {}
    /\ \A q \in crossed : ask[q].at # "new"

Apart == Typed /\ Alone

(* What is left of a question once it has moved on. *)
LEMMA Moved ==
    ASSUME Typed, NEW q \in Questions, NEW a
    PROVE  /\ ask' = [ask EXCEPT ![q].at = a] =>
                /\ ask'[q].at = a /\ ask'[q].sid = ask[q].sid /\ ask'[q].obj = ask[q].obj
                /\ \A p \in Questions \ {q} : ask'[p] = ask[p]
           /\ \A s : ask' = [ask EXCEPT ![q].at = a, ![q].sid = s] =>
                /\ ask'[q].at = a /\ ask'[q].sid = s /\ ask'[q].obj = ask[q].obj
                /\ \A p \in Questions \ {q} : ask'[p] = ask[p]
           /\ \A o : ask' = [ask EXCEPT ![q].at = a, ![q].obj = o] =>
                /\ ask'[q].at = a /\ ask'[q].sid = ask[q].sid /\ ask'[q].obj = o
                /\ \A p \in Questions \ {q} : ask'[p] = ask[p]
<1> DEFINE A == {"new", "checked", "accepted", "built", "asking", "answered",
                 "ending", "over", "failed"}
           S == {0} \cup Sessions
           O == {0} \cup Questions
<1>1. ask \in [Questions -> [at : A, sid : S, obj : O]]
  BY DEF Typed, ChatTyped
<1> HIDE DEF A, S, O
<1> QED
  BY <1>1

(* The steps of a question and its answer, and how each moves it on. *)
MovesOn(q, from, to) ==
    /\ ask[q].at = from /\ ask'[q].at \in to
    /\ \A p \in Questions \ {q} : ask'[p] = ask[p]
Same(q) == ask'[q].sid = ask[q].sid /\ ask'[q].obj = ask[q].obj

LEMMA AskStep ==
    ASSUME Typed, NEW q \in Questions
    PROVE  /\ AskChecked(q) => /\ MovesOn(q, "new", {"checked"}) /\ ask'[q].sid = chat.sid
                               /\ ask'[q].obj = ask[q].obj
           /\ AskAccepted(q) =>
                /\ MovesOn(q, "checked", {IF chat.busy THEN "failed" ELSE "accepted"}) /\ Same(q)
           /\ Build(q) => MovesOn(q, "accepted", {"built"}) /\ Same(q)
           /\ Ask(q) /\ chat.obj = 0 => MovesOn(q, "built", {"ending"}) /\ Same(q)
           /\ Ask(q) /\ chat.obj # 0 => /\ MovesOn(q, "built", {"asking"})
                                        /\ ask'[q].sid = ask[q].sid /\ ask'[q].obj = chat.obj
           /\ AskCall(q) => MovesOn(q, "asking", {"asking", "answered", "ending"}) /\ Same(q)
           /\ SaveChat(q) => MovesOn(q, "answered", {"over"}) /\ Same(q)
           /\ AskFails(q) => MovesOn(q, "ending", {"failed"}) /\ Same(q)
<1>1. ASSUME NEW a, NEW from, ask[q].at = from, ask' = [ask EXCEPT ![q].at = a]
      PROVE  MovesOn(q, from, {a}) /\ Same(q)
  BY <1>1, Moved DEF MovesOn, Same
<1>10. ASSUME NEW a, NEW t, ask' = [ask EXCEPT ![q].at = a, ![q].sid = t]
       PROVE  /\ ask'[q].at = a /\ ask'[q].sid = t /\ ask'[q].obj = ask[q].obj
              /\ \A p \in Questions \ {q} : ask'[p] = ask[p]
  BY <1>10, Moved
<1>11. ASSUME NEW a, NEW o, ask' = [ask EXCEPT ![q].at = a, ![q].obj = o]
       PROVE  /\ ask'[q].at = a /\ ask'[q].sid = ask[q].sid /\ ask'[q].obj = o
              /\ \A p \in Questions \ {q} : ask'[p] = ask[p]
  BY <1>11, Moved
<1>2. ASSUME AskChecked(q)
      PROVE  MovesOn(q, "new", {"checked"}) /\ ask'[q].sid = chat.sid /\ ask'[q].obj = ask[q].obj
  <2>1. ask[q].at = "new" /\ ask' = [ask EXCEPT ![q].at = "checked", ![q].sid = chat.sid]
    BY <1>2 DEF AskChecked
  <2>2. /\ ask'[q].at = "checked" /\ ask'[q].sid = chat.sid /\ ask'[q].obj = ask[q].obj
        /\ \A p \in Questions \ {q} : ask'[p] = ask[p]
    BY <2>1, <1>10
  <2> QED
    BY <2>1, <2>2 DEF MovesOn
<1>3. ASSUME AskAccepted(q)
      PROVE  MovesOn(q, "checked", {IF chat.busy THEN "failed" ELSE "accepted"}) /\ Same(q)
  <2>1. ask[q].at = "checked"
        /\ ask' = [ask EXCEPT ![q].at = IF chat.busy THEN "failed" ELSE "accepted"]
    BY <1>3 DEF AskAccepted
  <2> QED
    BY <2>1, <1>1
<1>4. ASSUME Build(q) PROVE MovesOn(q, "accepted", {"built"}) /\ Same(q)
  BY <1>1, <1>4 DEF Build
<1>5. ASSUME Ask(q), chat.obj = 0 PROVE MovesOn(q, "built", {"ending"}) /\ Same(q)
  BY <1>1, <1>5 DEF Ask
<1>6. ASSUME Ask(q), chat.obj # 0
      PROVE  MovesOn(q, "built", {"asking"}) /\ ask'[q].sid = ask[q].sid /\ ask'[q].obj = chat.obj
  <2>1. ask[q].at = "built" /\ ask' = [ask EXCEPT ![q].at = "asking", ![q].obj = chat.obj]
    BY <1>6 DEF Ask
  <2>2. /\ ask'[q].at = "asking" /\ ask'[q].sid = ask[q].sid /\ ask'[q].obj = chat.obj
        /\ \A p \in Questions \ {q} : ask'[p] = ask[p]
    BY <2>1, <1>11
  <2> QED
    BY <2>1, <2>2 DEF MovesOn
<1>7. ASSUME AskCall(q)
      PROVE  MovesOn(q, "asking", {"asking", "answered", "ending"}) /\ Same(q)
  <2>1. PICK a \in {"asking", "answered", "ending"} : ask' = [ask EXCEPT ![q].at = a]
    BY <1>7 DEF AskCall
  <2>2. ask[q].at = "asking"
    BY <1>7 DEF AskCall
  <2>3. MovesOn(q, "asking", {a}) /\ Same(q)
    BY <1>1, <2>1, <2>2
  <2> QED
    BY <2>3 DEF MovesOn
<1>8. ASSUME SaveChat(q) PROVE MovesOn(q, "answered", {"over"}) /\ Same(q)
  BY <1>1, <1>8 DEF SaveChat
<1>9. ASSUME AskFails(q) PROVE MovesOn(q, "ending", {"failed"}) /\ Same(q)
  BY <1>1, <1>9 DEF AskFails
<1> QED
  BY <1>2, <1>3, <1>4, <1>5, <1>6, <1>7, <1>8, <1>9

(* Nobody but a new question takes off. *)
LEMMA FlightStep ==
    ASSUME Typed, [Next]_vars, \A q \in Questions : ~AskChecked(q)
    PROVE  /\ InFlight' \subseteq InFlight
           /\ \A q \in Questions : ask[q].at # "new" => ask'[q].at # "new"
<1>1. CASE ask' = ask
  BY <1>1 DEF InFlight
<1>2. ASSUME NEW q \in Questions, InFlightStep(q)
      PROVE  /\ InFlight' \subseteq InFlight
             /\ \A p \in Questions : ask[p].at # "new" => ask'[p].at # "new"
  <2>1. /\ ask[q].at \notin {"new", "over", "failed"} /\ ask'[q].at # "new"
        /\ \A p \in Questions \ {q} : ask'[p] = ask[p]
    BY <1>2, AskStep DEF InFlightStep, MovesOn
  <2> QED
    BY <2>1 DEF InFlight
<1> QED
  BY <1>1, <1>2, NextByQuestion, StopsElsewhere DEF vars, LiveStart, RunThread, ClearContext,
     Diagnose, RunCancelled, RunReturns, RunSession, RunEnd, RunCall, Watch, Request, Switch,
     Connect, Fork

LEMMA CrossedStep == ASSUME [Next]_vars PROVE crossed \subseteq crossed'
BY StopsElsewhere DEF Next, vars, histories, LiveStart, RunThread, ClearContext, Diagnose,
   RunCancelled, RunReturns, RunSession, RunEnd, RunCall, Watch, AskChecked, Answer, AskAccepted,
   Build, Ask, AskCall, SaveChat, AskFails, Request, Switch, Connect, Fork, Begin

LEMMA AloneStep == ASSUME Apart, [Next]_vars PROVE Alone'
<1>1. Typed /\ Alone /\ crossed \subseteq crossed'
  BY CrossedStep DEF Apart
<1>2. CASE LiveStart
  <2>1. /\ run' = [n |-> run.n + 1, at |-> "start"] /\ run.n < limit.runs
        /\ crossed' = crossed \cup InFlight /\ ask' = ask
    BY <1>2 DEF LiveStart
  <2>4. \A q \in InFlight : ask[q].at # "new"
    BY DEF InFlight
  <2>2. run.n + 1 \in Runs
    <3>1. run.n \in 0 .. MaxRuns /\ limit.runs \in 1 .. MaxRuns
      BY <1>1, Ranges DEF Typed, RunTyped
    <3> QED
      BY <2>1, <3>1, CountAssumption DEF Runs
  <2>3. InFlight' = InFlight
    BY <2>1 DEF InFlight
  <2> QED
    BY <1>1, <2>1, <2>2, <2>3, <2>4 DEF Alone
<1>3. CASE Request \/ Fork
  <2>1. crossed' = crossed \cup InFlight /\ UNCHANGED <<ask, run>>
    BY <1>3 DEF Request, Fork, Begin, runVars
  <2>3. \A q \in InFlight : ask[q].at # "new"
    BY DEF InFlight
  <2>2. InFlight' = InFlight
    BY <2>1 DEF InFlight
  <2> QED
    BY <1>1, <2>1, <2>2, <2>3 DEF Alone, Running
<1>4. ASSUME NEW q \in Questions, AskChecked(q) PROVE Alone'
  <2>1. /\ ~Running /\ UNCHANGED <<run, request>>
        /\ crossed' = IF InFlight \cap crossed # {} \/ request # NoRequest
                      THEN crossed \cup {q} ELSE crossed
    BY <1>4 DEF AskChecked, runVars
  <2>2. InFlight' = InFlight \cup {q}
    BY <1>1, <1>4, AskStep DEF InFlight, MovesOn
  <2>3. q \notin InFlight /\ q \notin crossed
    BY <1>1, <1>4 DEF AskChecked, InFlight, Alone
  <2>4. \A p \in crossed' : p \in Questions /\ ask'[p].at # "new"
    BY <1>1, <1>4, <2>1, AskStep DEF Alone, MovesOn, Typed, RunTyped
  <2> QED
    BY <1>1, <2>1, <2>2, <2>3, <2>4 DEF Alone, Running
<1>5. CASE ~LiveStart /\ ~Request /\ ~Fork /\ \A q \in Questions : ~AskChecked(q)
  <2>1. /\ InFlight' \subseteq InFlight /\ run'.n = run.n /\ (Running' => Running)
        /\ \A q \in crossed : ask'[q].at # "new"
    BY <1>1, <1>5, FlightStep, RunStep DEF Alone, Typed, RunTyped
  <2>2. crossed' = crossed
    BY <1>5, NextByQuestion, StopsElsewhere DEF vars, histories, RunThread, ClearContext,
       Diagnose, RunCancelled, RunReturns, RunSession, RunEnd, RunCall, Watch, InFlightStep,
       AskAccepted, Build, Ask, AskCall, SaveChat, AskFails, Switch, Connect
  <2>3. request' # NoRequest => request # NoRequest
    BY <1>5, NextByQuestion, StopsElsewhere DEF vars, RunThread, ClearContext, Diagnose,
       RunCancelled, RunReturns, RunSession, RunEnd, RunCall, Watch, InFlightStep, AskAccepted,
       Build, Ask, AskCall, SaveChat, AskFails, Switch, Connect
  <2> QED
    BY <1>1, <2>1, <2>2, <2>3 DEF Alone
<1> QED
  BY <1>2, <1>3, <1>4, <1>5

LEMMA ApartInit == Init => Apart
<1>1. Init => Alone
  BY DEF Init, Alone, Running, InFlight
<1> QED
  BY <1>1, TypedInit DEF Apart

LEMMA ApartStep == ASSUME Apart, [Next]_vars PROVE Apart'
BY TypedStep, AloneStep DEF Apart
-----------------------------------------------------------------------------
(* The questions past CHAT_LOCK, and those that may have made an object. *)
Active == {q \in Questions : ask[q].at \in {"accepted", "built", "asking", "answered", "ending"}}
Made == {q \in Questions : ask[q].at \notin {"new", "checked", "accepted"}}

(* chat.busy keeps uncrossed questions from being answered together. *)
Exclusive == \A q \in Active \ crossed : chat.busy /\ Active \subseteq {q}

(* The number of a session to come is free, that of a question's is not. *)
Existing ==
    /\ \A n \in Runs : n > run.n \/ (n = run.n /\ run.at \in {"start", "cleared", "running",
                                                              "returned"}) => ~There(n)
    /\ \A s \in Sessions : s > MaxRuns + forks => ~There(s)
    /\ \A q \in Questions : ask[q].at # "new" => ask[q].sid \in Sessions /\ There(ask[q].sid)

Served == Apart /\ Exclusive /\ Existing

(* A question's step, as far as it can disturb the others. *)
LEMMA ActiveStep ==
    ASSUME Typed, NEW q \in Questions, InFlightStep(q)
    PROVE  /\ Active' \subseteq Active \/ (AskAccepted(q) /\ ~chat.busy)
           /\ \A p \in Questions \ {q} : ask'[p] = ask[p]
           /\ ask'[q].sid = ask[q].sid /\ ask[q].at # "new"
BY AskStep DEF InFlightStep, MovesOn, Same, Active

LEMMA ExclusiveStep == ASSUME Served, [Next]_vars PROVE Exclusive'
<1>1. Typed /\ Alone /\ Exclusive /\ Active \subseteq InFlight /\ crossed \subseteq crossed'
  BY CrossedStep DEF Served, Apart, Active, InFlight
<1>2. CASE LiveStart
  <2>1. Active' = Active /\ crossed' = crossed \cup InFlight
    BY <1>2 DEF LiveStart, Active
  <2> QED
    BY <1>1, <2>1 DEF Exclusive
<1>3. ASSUME Active' \subseteq Active, chat'.busy = chat.busy PROVE Exclusive'
  BY <1>1, <1>3 DEF Exclusive
<1>4. ASSUME NEW q \in Questions, AskChecked(q) PROVE Exclusive'
  <2>1. Active' \subseteq Active /\ chat' = chat
    BY <1>1, <1>4, AskStep DEF AskChecked, MovesOn, Active
  <2> QED
    BY <1>3, <2>1
<1>5. ASSUME NEW q \in Questions, InFlightStep(q) PROVE Exclusive'
  <2>1. CASE AskAccepted(q) /\ ~chat.busy
    <3>1. /\ q \in InFlight /\ crossed' = crossed /\ Active' \subseteq Active \cup {q}
          /\ chat'.busy = TRUE
      BY <1>1, <2>1, AskStep DEF AskAccepted, MovesOn, Active, InFlight, histories, Typed, ChatTyped
    <3>2. Active \subseteq crossed
      BY <1>1, <2>1 DEF Exclusive
    <3>3. CASE q \in crossed
      BY <3>1, <3>2, <3>3 DEF Exclusive
    <3>4. CASE q \notin crossed
      <4>1. InFlight \cap crossed = {}
        BY <1>1, <3>1, <3>4 DEF Alone
      <4>2. Active' \subseteq {q}
        BY <1>1, <3>1, <3>2, <4>1
      <4> QED
        BY <3>1, <4>2 DEF Exclusive
    <3> QED
      BY <3>3, <3>4
  <2>2. CASE (AskAccepted(q) /\ chat.busy) \/ Build(q) \/ Ask(q) \/ AskCall(q)
    <3>1. Active' \subseteq Active
      BY <1>1, <1>5, <2>2, AskStep DEF MovesOn, Active
    <3>2. chat'.busy = chat.busy
      BY <1>1, <2>2 DEF AskAccepted, Build, Ask, AskCall, Typed, ChatTyped
    <3> QED
      BY <1>3, <3>1, <3>2
  <2>3. CASE SaveChat(q) \/ AskFails(q)
    <3>1. q \in Active /\ Active' \subseteq Active \ {q}
      BY <1>1, <2>3, AskStep DEF MovesOn, Active
    <3> QED
      BY <1>1, <3>1 DEF Exclusive
  <2> QED
    BY <1>5, <2>1, <2>2, <2>3 DEF InFlightStep
<1>6. CASE UNCHANGED vars
  BY <1>3, <1>6 DEF vars, Active
<1>7. CASE RunSession \/ Switch \/ Connect
  <2>1. ask' = ask /\ chat'.busy = chat.busy
    BY <1>1, <1>7 DEF RunSession, Switch, Connect, Typed, ChatTyped
  <2> QED
    BY <1>3, <2>1 DEF Active
<1>8. CASE UNCHANGED <<ask, chat>>
  BY <1>3, <1>8 DEF Active
<1> QED
  BY <1>2, <1>4, <1>5, <1>6, <1>7, <1>8, NextByQuestion, StopsElsewhere DEF RunThread,
     ClearContext, Diagnose, RunCancelled, RunReturns, RunEnd, RunCall, Watch, Request, Fork

(* Where new sessions come from. *)
LEMMA NewFiles ==
    ASSUME Typed, [Next]_vars
    PROVE  \A s \in Sessions : There(s)' => \/ There(s)
                                            \/ RunSession /\ s = run.n
                                            \/ Fork /\ s = MaxRuns + forks + 1
<1>1. files \in [Sessions -> [tr : {0} \cup Contexts, thread : Seq(Int)]]
  BY DEF Typed, FilesTyped
<1>2. ASSUME NEW s \in Sessions, NEW n, NEW f, files' = [files EXCEPT ![n] = f], There(s)'
      PROVE  There(s) \/ s = n
  BY <1>1, <1>2 DEF There
<1>3. CASE RunSession
  BY <1>2, <1>3 DEF RunSession, There
<1>4. CASE Fork
  <2>1. PICK f : files' = [files EXCEPT ![MaxRuns + forks + 1] = f]
    BY <1>4 DEF Fork
  <2> QED
    BY <1>2, <1>4, <2>1
<1>5. CASE Connect
  <2>1. files' = Saved \/ files' = [files EXCEPT ![request.sid].thread = request.thread]
    BY <1>5 DEF Connect
  <2>2. \A s \in Sessions : [files EXCEPT ![request.sid].thread = request.thread][s].tr
                                = files[s].tr
    BY <1>1
  <2> QED
    BY <2>1, <2>2, SavedTyped DEF There
<1>6. ASSUME NEW q \in Questions, SaveChat(q) PROVE \A s \in Sessions : There(s)' => There(s)
  BY <1>6, SavedTyped DEF SaveChat, There
<1>7. CASE UNCHANGED files
  BY <1>7 DEF There
<1> QED
  BY <1>3, <1>4, <1>5, <1>6, <1>7, NextByQuestion, StopsElsewhere DEF vars, LiveStart, RunThread,
     ClearContext, Diagnose, RunCancelled, RunReturns, RunEnd, RunCall, Watch, AskChecked,
     InFlightStep, AskAccepted, Build, Ask, AskCall, AskFails, Request, Switch

LEMMA ExistingStep == ASSUME Served, [Next]_vars PROVE Existing'
<1>1. Typed /\ Alone /\ Existing /\ Stands /\ \A s \in Sessions : There(s) => There(s)'
  BY FilesTypedStep DEF Served, Apart, Typed
<1>2. /\ run \in [n : 0 .. MaxRuns,
                  at : {"none", "start", "cleared", "running", "returned", "ending"}]
      /\ forks \in Nat /\ MaxRuns \in Nat /\ Runs = 1 .. MaxRuns /\ Runs \subseteq Sessions
      /\ Sessions \subseteq Nat /\ chat.sid \in {0} \cup Sessions
  BY <1>1, CountAssumption, Ranges DEF Typed, RunTyped, FilesTyped, ChatTyped, Runs, Sessions
<1>3. ASSUME NEW n \in Runs, n > run'.n \/ (n = run'.n /\ run'.at \in {"start", "cleared", "running",
                                                                      "returned"})
      PROVE  ~There(n)'
  <2>1. ~There(n) /\ ~(RunSession /\ n = run.n)
    <3>1. CASE LiveStart
      <4>1. run'.n = run.n + 1 /\ ~RunSession
        BY <1>2, <3>1 DEF LiveStart, RunSession, Running
      <4>2. n > run.n
        BY <1>2, <1>3, <4>1
      <4> QED
        BY <1>1, <4>1, <4>2 DEF Existing
    <3>2. CASE RunSession
      <4>1. run'.at = "ending" /\ run'.n = run.n
        BY <1>2, <3>2 DEF RunSession
      <4> QED
        BY <1>1, <1>2, <1>3, <4>1 DEF Existing
    <3>3. CASE run' = run /\ ~RunSession
      BY <1>1, <1>3, <3>3 DEF Existing
    <3>4. CASE (ClearContext \/ Diagnose \/ RunReturns) /\ ~RunSession
      <4>1. run'.n = run.n /\ run.at \in {"start", "cleared", "running"}
        BY <1>2, <3>4 DEF ClearContext, Diagnose, RunReturns
      <4> QED
        BY <1>1, <1>3, <3>4, <4>1 DEF Existing
    <3>5. CASE (RunCancelled \/ RunEnd) /\ ~RunSession
      <4>1. run'.n = run.n /\ run'.at \in {"ending", "none"}
        BY <1>2, <3>5 DEF RunCancelled, RunEnd
      <4> QED
        BY <1>1, <1>3, <3>5, <4>1 DEF Existing
    <3> QED
      BY <3>1, <3>2, <3>3, <3>4, <3>5, NextByQuestion, StopsElsewhere DEF vars, runVars,
         RunThread, RunCall, Watch, AskChecked, InFlightStep, AskAccepted, Build, Ask, AskCall,
         SaveChat, AskFails, Request, Switch, Connect, Fork
  <2>2. n \in Sessions /\ n # MaxRuns + forks + 1
    BY <1>2
  <2> QED
    BY <1>1, <2>1, <2>2, NewFiles
<1>4. ASSUME NEW s \in Sessions, s > MaxRuns + forks' PROVE ~There(s)'
  <2>1. forks' = forks + 1 \/ (forks' = forks /\ ~Fork)
    <3>1. Fork => forks' = forks + 1
      BY DEF Fork
    <3>2. ~Fork => forks' = forks
      BY NextByQuestion, StopsElsewhere DEF vars, LiveStart, RunThread, ClearContext, Diagnose,
         RunCancelled, RunReturns, RunSession, RunEnd, RunCall, Watch, AskChecked, InFlightStep,
         AskAccepted, Build, Ask, AskCall, SaveChat, AskFails, Request, Switch, Connect
    <3> QED
      BY <3>1, <3>2
  <2>2. s > MaxRuns + forks /\ ~(Fork /\ s = MaxRuns + forks + 1) /\ s # run.n
    BY <1>2, <1>4, <2>1
  <2> QED
    BY <1>1, <2>2, NewFiles DEF Existing
<1>5. ASSUME NEW q \in Questions, ask'[q].at # "new"
      PROVE  ask'[q].sid \in Sessions /\ files'[ask'[q].sid].tr # 0
  <2>1. ASSUME NEW s \in Sessions, There(s), ask'[q].sid = s
        PROVE  ask'[q].sid \in Sessions /\ files'[ask'[q].sid].tr # 0
    BY <1>1, <2>1 DEF There
  <2>2. CASE AskChecked(q)
    <3>1. chat.sid \in Sessions /\ There(chat.sid) /\ ask'[q].sid = chat.sid
      BY <1>1, <1>2, <2>2, AskStep DEF AskChecked, Stands
    <3> QED
      BY <2>1, <3>1
  <2>3. CASE ask'[q].sid = ask[q].sid /\ ask[q].at # "new"
    BY <1>1, <2>1, <2>3 DEF Existing
  <2>4. ASSUME NEW p \in Questions, AskChecked(p) \/ InFlightStep(p), ~AskChecked(q)
        PROVE  ask'[q].sid = ask[q].sid /\ ask[q].at # "new"
    BY <1>1, <1>5, <2>4, AskStep, ActiveStep DEF MovesOn
  <2>5. CASE ask' = ask
    BY <1>5, <2>3, <2>5
  <2> QED
    BY <2>2, <2>3, <2>4, <2>5, NextByQuestion, StopsElsewhere DEF vars, LiveStart, RunThread,
       ClearContext, Diagnose, RunCancelled, RunReturns, RunSession, RunEnd, RunCall, Watch,
       Request, Switch, Connect, Fork
<1> QED
  BY <1>3, <1>4, <1>5 DEF Existing, There

LEMMA ServedStep == ASSUME Served, [Next]_vars PROVE Served'
BY ApartStep, ExclusiveStep, ExistingStep DEF Served

LEMMA ServedInit == Init => Served
<1>1. Init => Exclusive /\ Existing
  BY Ranges DEF Init, Exclusive, Existing, Active, There, NoFile
<1> QED
  BY <1>1, ApartInit DEF Served
-----------------------------------------------------------------------------
(* A run that started with no question in flight has the server to itself: *)
(* the context it records in is its own, the watcher finds nothing else,   *)
(* and that is what becomes the session's.  Of the others only this much:  *)
(* nobody records in the context of a run that has it to itself.           *)
OwnContext ==
    /\ Running /\ run.n \notin shared => InFlight = {}
    /\ \A q \in Questions : ask[q].at = "asking" => CTX \notin Runs \ shared
    /\ run.at \in {"cleared", "running", "returned"} /\ CTX \in Runs => CTX = run.n
    /\ run.n \notin shared =>
        /\ run.at = "cleared" => CTX = 0 /\ watch[run.n].on
        /\ run.at = "running" => CTX = run.n /\ (watch[run.n].on \/ tr = run.n)
        /\ run.at = "returned" => CTX = run.n /\ tr = run.n
    /\ \A n \in Runs \ shared : ~strays[n] /\ (There(n) => files[n].tr = n)

(* Steps that leave the run and what it has recorded alone. *)
LEMMA OwnElsewhere ==
    ASSUME Apart, OwnContext, UNCHANGED <<run, watch, tr, CTX, strays, shared>>,
           InFlight' \subseteq InFlight \/ ~Running,
           \A q \in Questions : ask'[q].at = "asking" => ask[q].at = "asking",
           \A n \in Runs : files'[n].tr = files[n].tr
    PROVE  OwnContext'
<1>1. Running' = Running /\ (Running /\ run.n \notin shared => InFlight' = {})
  BY DEF OwnContext, Running
<1> QED
  BY <1>1 DEF OwnContext, There

LEMMA OwnByRun ==
    ASSUME Apart, OwnContext,
           LiveStart \/ LiveStop \/ Select \/ RunThread \/ RunCall \/ \E n \in Runs : Watch(n)
    PROVE  OwnContext'
<1>1. /\ Typed /\ Alone /\ Runs \subseteq Contexts /\ 0 \notin Runs /\ ask' = ask
      /\ InFlight' = InFlight
  <2>1. ask' = ask
    BY StopsElsewhere DEF LiveStart, RunThread, ClearContext, Diagnose, RunCancelled, RunReturns,
       RunSession, RunEnd, RunCall, Watch
  <2> QED
    BY <2>1, Ranges DEF Apart, Runs, InFlight
<1>2. /\ run \in [n : 0 .. MaxRuns,
                  at : {"none", "start", "cleared", "running", "returned", "ending"}]
      /\ watch \in [Runs -> [on : BOOLEAN, prev : {0} \cup Contexts]]
      /\ strays \in [Runs -> BOOLEAN]
      /\ files \in [Sessions -> [tr : {0} \cup Contexts, thread : Seq(Int)]]
      /\ Runs \subseteq Sessions
  BY <1>1, Ranges DEF Typed, RunTyped, FilesTyped
<1>3. /\ \A q \in Questions : ask[q].at = "asking" => CTX \notin Runs \ shared
      /\ \A n \in Runs \ shared : ~strays[n] /\ (There(n) => files[n].tr = n)
      /\ Running /\ run.n \notin shared => InFlight = {}
  BY DEF OwnContext
<1>4. /\ Running => run.n \in Runs
      /\ Running /\ run.n \notin shared => \A q \in Questions : ask[q].at # "asking"
  BY <1>1, <1>3 DEF Alone, InFlight
<1>5. CASE LiveStart
  <2>1. /\ run'.at = "start" /\ run'.n = run.n + 1 /\ UNCHANGED <<CTX, strays, files>>
        /\ shared \subseteq shared' /\ (InFlight # {} => run.n + 1 \in shared')
    BY <1>5 DEF LiveStart, globals
  <2> QED
    BY <1>1, <1>3, <2>1 DEF OwnContext, There
<1>6. CASE LiveStop \/ Select
  BY <1>1, <1>6, OwnElsewhere, StopsElsewhere
<1>7. CASE ClearContext
  <2>1. /\ run.at = "start" /\ run' = [run EXCEPT !.at = "cleared"] /\ CTX' = 0
        /\ watch' = [watch EXCEPT ![run.n] = [on |-> TRUE, prev |-> CTX]]
        /\ UNCHANGED <<strays, files, shared>>
    BY <1>7 DEF ClearContext
  <2>2. run'.at = "cleared" /\ run'.n = run.n /\ run.n \in Runs /\ Running
    BY <1>2, <1>4, <2>1 DEF Running
  <2>3. watch'[run'.n].on
    BY <1>2, <2>1, <2>2
  <2> QED
    BY <1>1, <1>3, <1>4, <2>1, <2>2, <2>3 DEF OwnContext, There
<1>8. CASE Diagnose
  <2>1. /\ run.at = "cleared" /\ run' = [run EXCEPT !.at = "running"] /\ CTX' = run.n
        /\ UNCHANGED <<strays, files, watch, tr, shared>>
    BY <1>8 DEF Diagnose, histories, others
  <2>2. run'.at = "running" /\ run'.n = run.n /\ Running
        /\ (run.n \notin shared => watch[run.n].on)
    BY <1>1, <1>2, <2>1 DEF OwnContext, Running
  <2> QED
    BY <1>1, <1>3, <1>4, <2>1, <2>2 DEF OwnContext, There
<1>9. CASE RunCancelled \/ RunEnd
  <2>1. /\ \E at \in {"ending", "none"} : run' = [run EXCEPT !.at = at]
        /\ run.at # "none" /\ UNCHANGED <<CTX, strays, files, shared>>
    BY <1>9 DEF RunCancelled, RunEnd, globals, histories, others
  <2>2. run'.at \in {"ending", "none"} /\ run'.n = run.n
    BY <1>2, <2>1
  <2> QED
    BY <1>1, <1>3, <2>1, <2>2 DEF OwnContext, There, Running
<1>10. CASE RunReturns
  <2>1. run.at = "running" /\ UNCHANGED <<CTX, strays, files, tr, shared>>
    BY <1>10 DEF RunReturns, globals, histories, others
  <2>2. /\ run.n \notin shared => CTX = run.n /\ (watch[run.n].on \/ tr = run.n)
        /\ CTX \in Runs => CTX = run.n
    BY <1>1, <2>1 DEF OwnContext
  <2>3. /\ run'.n = run.n
        /\ run'.at = "ending" \/ (run'.at = "returned" /\ ~watch[run.n].on)
    BY <1>2, <1>10 DEF RunReturns
  <2> QED
    BY <1>1, <1>3, <2>1, <2>2, <2>3 DEF OwnContext, There, Running
<1>11. CASE RunSession
  <2>1. run.at = "returned" /\ UNCHANGED <<CTX, strays, shared>>
        /\ run' = [run EXCEPT !.at = "ending"]
    BY <1>11 DEF RunSession, globals
  <2>2. /\ run.n \in Runs /\ run'.at = "ending" /\ run'.n = run.n
        /\ run.n \notin shared => tr = run.n
    BY <1>1, <1>2, <1>4, <2>1 DEF OwnContext, Running
  <2>3. files' = files \/ files' = [files EXCEPT ![run.n] = [tr |-> tr, thread |-> <<>>]]
    BY <1>11 DEF RunSession
  <2>4. \A n \in Runs \ shared : files'[n].tr # 0 => files'[n].tr = n
    <3> DEFINE f == [tr |-> tr, thread |-> <<>>]
    <3>1. /\ run.n \notin shared => f.tr = run.n
          /\ files' = files \/ files' = [files EXCEPT ![run.n] = f]
      BY <2>2, <2>3
    <3> HIDE DEF f
    <3> QED
      BY <1>2, <1>3, <2>2, <3>1 DEF There
  <2> QED
    BY <1>1, <1>3, <2>1, <2>2, <2>4 DEF OwnContext, There, Running
<1>12. CASE RunCall
  <2>1. /\ run.at = "running" /\ UNCHANGED <<run, watch, tr, CTX, files, shared>>
        /\ Record(run.n)
    BY <1>12 DEF RunCall, runVars, globals, others
  <2>2. CTX \in Runs => CTX = run.n
    BY <1>1, <2>1 DEF OwnContext
  <2>3. strays' = strays
    BY <1>2, <2>1, <2>2 DEF Record
  <2> QED
    BY <1>1, <2>1, <2>3, OwnElsewhere
<1>13. ASSUME NEW n \in Runs, Watch(n) PROVE OwnContext'
  <2>1. /\ CTX # 0 /\ tr' = CTX /\ watch' = [watch EXCEPT ![n].on = FALSE]
        /\ UNCHANGED <<run, CTX, strays, files, shared>>
    BY <1>13 DEF Watch, globals, histories, others
  <2>2. run.n \notin shared =>
          run.at # "cleared" /\ (run.at \in {"running", "returned"} => CTX = run.n)
    BY <1>1, <2>1 DEF OwnContext
  <2> QED
    BY <1>1, <1>3, <2>1, <2>2 DEF OwnContext, There, Running
<1> QED
  BY <1>5, <1>6, <1>7, <1>8, <1>9, <1>10, <1>11, <1>12, <1>13 DEF RunThread

LEMMA OwnByRequests ==
    ASSUME Apart, OwnContext,
           \/ \E q \in Questions : AskChecked(q) \/ InFlightStep(q)
           \/ Request \/ Switch \/ Connect \/ Fork
    PROVE  OwnContext'
<1>1. /\ Typed /\ Alone /\ Runs \subseteq Sessions
      /\ files \in [Sessions -> [tr : {0} \cup Contexts, thread : Seq(Int)]]
  BY Ranges DEF Apart, Typed, FilesTyped
<1>2. CASE Request \/ Switch \/ Connect \/ Fork
  <2>1. UNCHANGED <<run, watch, tr, CTX, strays, shared, ask>>
    BY <1>2 DEF Request, Switch, Connect, Fork, runVars, globals, histories, others
  <2>2. \A n \in Runs : files'[n].tr = files[n].tr
    <3>1. CASE Request \/ Switch
      BY <3>1 DEF Request, Switch
    <3>2. CASE Connect
      <4>1. files' = Saved \/ files' = [files EXCEPT ![request.sid].thread = request.thread]
        BY <3>2 DEF Connect
      <4>2. \A s \in Sessions : [files EXCEPT ![request.sid].thread = request.thread][s].tr
                                = files[s].tr
        BY <1>1
      <4> QED
        BY <1>1, <4>1, <4>2, SavedTyped
    <3>3. CASE Fork
      <4>1. PICK f : files' = [files EXCEPT ![MaxRuns + forks + 1] = f]
        BY <3>3 DEF Fork
      <4>2. MaxRuns + forks + 1 \notin Runs
        BY <1>1, CountAssumption DEF Typed, FilesTyped, Runs
      <4> QED
        BY <1>1, <4>1, <4>2
    <3> QED
      BY <1>2, <3>1, <3>2, <3>3
  <2> QED
    BY <1>1, <2>1, <2>2, OwnElsewhere DEF InFlight
<1>3. ASSUME NEW q \in Questions, AskChecked(q) \/ AskAccepted(q) \/ Build(q) \/ SaveChat(q)
                                  \/ AskFails(q)
      PROVE  OwnContext'
  <2>1. UNCHANGED <<run, watch, tr, CTX, strays, shared>>
    BY <1>3 DEF AskChecked, AskAccepted, Build, SaveChat, AskFails, runVars, globals, histories,
                others
  <2>2. /\ \A p \in Questions : ask'[p].at = "asking" => ask[p].at = "asking"
        /\ InFlight' \subseteq InFlight \/ ~Running
    BY <1>1, <1>3, AskStep DEF MovesOn, InFlight, AskChecked
  <2>3. \A n \in Runs : files'[n].tr = files[n].tr
    BY <1>1, <1>3, SavedTyped DEF AskChecked, AskAccepted, Build, SaveChat, AskFails
  <2> QED
    BY <1>1, <2>1, <2>2, <2>3, OwnElsewhere
<1>4. ASSUME NEW q \in Questions, Ask(q) \/ AskCall(q) PROVE OwnContext'
  <2>1. UNCHANGED <<run, watch, tr, files, shared>>
    BY <1>4 DEF Ask, AskCall, runVars, histories, others
  <2>2. q \in InFlight /\ InFlight' \subseteq InFlight
    BY <1>1, <1>4, AskStep DEF InFlight, MovesOn
  <2>3. Running => run.n \in shared
    BY <2>2 DEF OwnContext
  <2>4. CASE Ask(q) /\ chat.obj = 0
    <3>1. UNCHANGED <<CTX, strays>>
      BY <2>4 DEF Ask, globals, histories
    <3>2. \A p \in Questions : ask'[p].at = "asking" => ask[p].at = "asking"
      BY <1>1, <2>4, AskStep DEF MovesOn
    <3> QED
      BY <2>1, <2>2, <3>1, <3>2, OwnElsewhere
  <2>5. CASE Ask(q) /\ chat.obj # 0
    <3>1. CTX' = Author(chat.obj) /\ strays' = strays /\ chat.obj \in Questions
      BY <1>1, <2>5 DEF Ask, histories, Typed, ChatTyped
    <3>2. CTX' \notin Runs
      BY <3>1, Ranges
    <3> QED
      BY <2>1, <2>2, <2>3, <3>1, <3>2 DEF OwnContext, There, Running
  <2>6. CASE AskCall(q)
    <3>1. ask[q].at = "asking" /\ \A p \in Questions : ask'[p].at = "asking" => ask[p].at = "asking"
      BY <1>1, <2>6, AskStep DEF MovesOn
    <3>2. CTX \notin Runs \ shared /\ CTX' = CTX
      BY <2>6, <3>1 DEF OwnContext, AskCall, globals
    <3>3. \A n \in Runs \ shared : strays'[n] = strays[n]
      BY <1>1, <2>6, <3>2 DEF AskCall, Record, Typed, RunTyped
    <3> QED
      BY <2>1, <2>2, <2>3, <3>1, <3>2, <3>3 DEF OwnContext, There, Running
  <2> QED
    BY <1>4, <2>4, <2>5, <2>6
<1> QED
  BY <1>2, <1>3, <1>4 DEF InFlightStep

(* The trace a run was given is the one selected, as long as no other was  *)
(* while it ran; its session has that one's name.                          *)
Named ==
    /\ run.at \in {"cleared", "running", "returned"} /\ run.n \notin moved =>
           given[run.n] = RUN_ID
    /\ \A n \in Runs \ moved : There(n) => runId[n] = given[n]

LEMMA NamedStep == ASSUME Served, Named, [Next]_vars PROVE Named'
<1>1. Typed /\ Alone /\ Existing
  BY DEF Served, Apart
<1>2. /\ run \in [n : 0 .. MaxRuns,
                  at : {"none", "start", "cleared", "running", "returned", "ending"}]
      /\ given \in [Runs -> 0 .. NTraces] /\ runId \in [Sessions -> 0 .. NTraces]
      /\ Runs \subseteq Sessions /\ (Running => run.n \in Runs)
  BY <1>1, Ranges DEF Typed, RunTyped, TraceTyped, Alone
<1>3. \A n \in Runs : There(n)' => There(n) \/ (RunSession /\ n = run.n)
  <2>1. \A n \in Runs : n \in Sessions /\ n # MaxRuns + forks + 1
    BY <1>1, CountAssumption, Ranges DEF Typed, FilesTyped, Runs
  <2> QED
    BY <1>1, <2>1, NewFiles
<1>4. CASE ClearContext
  <2>1. /\ run.at = "start" /\ run' = [run EXCEPT !.at = "cleared"]
        /\ given' = [given EXCEPT ![run.n] = RUN_DIR] /\ UNCHANGED <<RUN_ID, runId>>
        /\ moved' = moved \cup {n \in {run.n} : RUN_DIR # RUN_ID}
    BY <1>4 DEF ClearContext
  <2>2. run.n \in Runs /\ ~There(run.n) /\ ~RunSession /\ run'.n = run.n
    BY <1>1, <1>2, <2>1 DEF Existing, Running, RunSession
  <2>3. /\ run'.n \notin moved' => given'[run'.n] = RUN_ID'
        /\ \A n \in Runs : n # run.n => given'[n] = given[n]
    BY <1>2, <2>1, <2>2
  <2> QED
    BY <1>3, <2>1, <2>2, <2>3 DEF Named
<1>5. CASE RunSession
  <2>1. /\ run.at = "returned" /\ run' = [run EXCEPT !.at = "ending"]
        /\ UNCHANGED <<given, moved>>
        /\ \/ UNCHANGED <<files, runId>>
           \/ runId' = [runId EXCEPT ![run.n] = RUN_ID]
    BY <1>5 DEF RunSession
  <2>2. run'.at = "ending" /\ run.n \in Runs /\ (run.n \notin moved => given[run.n] = RUN_ID)
    BY <1>2, <2>1 DEF Named, Running
  <2>3. CASE UNCHANGED <<files, runId>>
    BY <2>1, <2>2, <2>3 DEF Named, There
  <2>4. CASE runId' = [runId EXCEPT ![run.n] = RUN_ID]
    <3>1. runId'[run.n] = RUN_ID /\ \A n \in Runs : n # run.n => runId'[n] = runId[n]
      BY <1>2, <2>2, <2>4
    <3> QED
      BY <1>3, <2>1, <2>2, <3>1 DEF Named
  <2> QED
    BY <2>1, <2>3, <2>4
<1>6. CASE SelectTrace
  <2>1. /\ moved' = moved \cup {n \in {run.n} : run.at \in {"cleared", "running", "returned"}}
        /\ UNCHANGED <<run, runId, given>> /\ ~RunSession
    BY <1>2, <1>6 DEF SelectTrace, RunSession, runVars
  <2> QED
    BY <1>3, <2>1 DEF Named
<1>13. CASE SelectDirectory
  <2>1. UNCHANGED <<run, runId, given, moved, RUN_ID>> /\ ~RunSession
    BY <1>2, <1>13 DEF SelectDirectory, RunSession, runVars
  <2> QED
    BY <1>3, <2>1 DEF Named
<1>7. CASE Fork
  <2>1. PICK s \in Sessions : runId' = [runId EXCEPT ![MaxRuns + forks + 1] = runId[s]]
    BY <1>7 DEF Fork
  <2>2. UNCHANGED <<run, given, moved, RUN_ID>> /\ ~RunSession
    BY <1>2, <1>7 DEF Fork, RunSession, runVars
  <2>3. \A n \in Runs : n # MaxRuns + forks + 1 /\ n \in Sessions
    BY <1>1, CountAssumption, Ranges DEF Typed, FilesTyped, Runs
  <2>4. \A n \in Runs : runId'[n] = runId[n]
    BY <1>2, <2>1, <2>3
  <2> QED
    BY <1>3, <2>2, <2>4 DEF Named
<1>8. ASSUME UNCHANGED <<given, moved, runId, RUN_ID>>, ~RunSession,
             run'.n = run.n \/ run'.at = "start",
             run'.at \in {"cleared", "running", "returned"} =>
                 run.at \in {"cleared", "running", "returned"} /\ run'.n = run.n
      PROVE  Named'
  BY <1>3, <1>8 DEF Named
<1>9. CASE Diagnose \/ RunCancelled \/ RunReturns \/ RunEnd
  <2>1. /\ run'.n = run.n /\ ~RunSession
        /\ run'.at \in {"cleared", "running", "returned"} =>
               run.at \in {"cleared", "running", "returned"}
    BY <1>2, <1>9 DEF Diagnose, RunCancelled, RunReturns, RunEnd, RunSession
  <2>2. UNCHANGED <<given, moved, runId, RUN_ID>>
    BY <1>9 DEF Diagnose, RunCancelled, RunReturns, RunEnd, histories, others, traceVars
  <2> QED
    BY <1>8, <2>1, <2>2
<1>10. CASE LiveStart
  <2>1. run' = [n |-> run.n + 1, at |-> "start"] /\ UNCHANGED <<given, moved, runId, RUN_ID>>
    BY <1>10 DEF LiveStart, traceVars
  <2>2. run'.at = "start" /\ ~RunSession
    BY <1>2, <1>10, <2>1 DEF LiveStart, RunSession, Running
  <2> QED
    BY <1>8, <2>1, <2>2
<1>11. CASE run' = run /\ UNCHANGED traceVars
  <2>1. ~RunSession
    BY <1>2, <1>11 DEF RunSession
  <2> QED
    BY <1>8, <1>11, <2>1 DEF traceVars
<1>12. CASE LiveStop
  BY <1>11, <1>12 DEF LiveStop, StopTest, StopSet, StopMark, runVars
<1> QED
  BY <1>4, <1>5, <1>6, <1>7, <1>9, <1>10, <1>11, <1>12, <1>13, NextByQuestion
  DEF vars, runVars, histories, others, Select, RunThread, RunCall, Watch, AskChecked, InFlightStep, AskAccepted, Build,
     Ask, AskCall, SaveChat, AskFails, Request, Switch, Connect

(* The transcript a session shows is the one its run recorded, and nobody  *)
(* else recorded in it, if no question was in flight when the run started, *)
(* whatever questions, requests and stops do then and later; and the trace *)
(* it names is the one its run was given, if no other was selected while   *)
(* the run went on (app.py _live_worker, load_state, agent_v2's CTX).      *)
THEOREM SessionsShowTheirRuns == Spec => []SessionShowsItsRun
<1>1. Init => Served /\ OwnContext /\ Named
  <2>1. Init => OwnContext /\ Named
    BY Ranges DEF Init, OwnContext, Named, There, NoFile, Running
  <2> QED
    BY <2>1, ServedInit
<1>2. Served /\ OwnContext /\ Named /\ [Next]_vars => (Served /\ OwnContext /\ Named)'
  <2> SUFFICES ASSUME Served, OwnContext, Named, [Next]_vars
               PROVE  (Served /\ OwnContext /\ Named)'
    OBVIOUS
  <2>0. Apart
    BY DEF Served
  <2>1. CASE UNCHANGED vars
    <3>1. OwnContext'
      BY <2>0, <2>1, OwnElsewhere DEF vars, runVars, globals, histories, others, InFlight
    <3> QED
      BY <3>1, ServedStep, NamedStep
  <2> QED
    BY <2>0, <2>1, OwnByRun, OwnByRequests, ServedStep, NamedStep, NextByQuestion
<1>3. Served /\ OwnContext /\ Named => SessionShowsItsRun
  BY DEF OwnContext, Named, SessionShowsItsRun
<1> QED
  BY <1>1, <1>2, <1>3, PTL DEF Spec
-----------------------------------------------------------------------------
(* A thread t as session s keeps it, seen with the questions a of which    *)
(* those in c are crossed: every question in it was asked; unless it has a *)
(* crossed one all of them were asked in s, each answer right behind its   *)
(* question; and no answer to an uncrossed question of s is missing.       *)
In(e, t) == \E i \in DOMAIN t : t[i] = e
Known(t, a) == \A q \in Questions : In(q, t) => a[q].at # "new"
Clean(t, c) == \A q \in Questions : In(q, t) => q \notin c
Proper(t, s, a) ==
    /\ \A q \in Questions : In(q, t) => a[q].sid = s
    /\ \A i \in DOMAIN t : t[i] < 0 => i > 1 /\ t[i - 1] = -t[i]
Complete(t, s, a, c) ==
    \A q \in Questions \ c : a[q].at = "over" /\ a[q].sid = s => In(-q, t)
Faithful(t, s, a, c) ==
    Known(t, a) /\ (Clean(t, c) => Proper(t, s, a)) /\ Complete(t, s, a, c)

LEMMA InAppended ==
    ASSUME NEW t \in Seq(Int), NEW x \in Int
    PROVE  \A e : In(e, Append(t, x)) <=> In(e, t) \/ e = x
<1>1. /\ DOMAIN t = 1 .. Len(t) /\ Len(t) \in Nat
      /\ DOMAIN Append(t, x) = 1 .. Len(t) + 1
      /\ Append(t, x)[Len(t) + 1] = x
      /\ \A i \in 1 .. Len(t) : Append(t, x)[i] = t[i]
  OBVIOUS
<1> QED
  BY <1>1 DEF In

(* As the questions move on, a thread stays faithful if what was answered  *)
(* by now stands in it.                                                    *)
LEMMA FaithfulKeeps ==
    ASSUME NEW t, NEW s, NEW a, NEW b, NEW c, NEW d, c \subseteq d,
           \A q \in Questions : a[q].at # "new" => b[q].at # "new" /\ b[q].sid = a[q].sid,
           \A q \in Questions \ d : b[q].at = "over" /\ b[q].sid = s =>
               a[q].at = "over" \/ In(-q, t),
           Faithful(t, s, a, c)
    PROVE  Faithful(t, s, b, d)
<1>1. Known(t, b)
  BY DEF Faithful, Known
<1>2. Clean(t, d) => Proper(t, s, b)
  BY DEF Faithful, Known, Clean, Proper
<1>3. Complete(t, s, b, d)
  BY DEF Faithful, Complete
<1> QED
  BY <1>1, <1>2, <1>3 DEF Faithful

(* A question that was asked in s, or is crossed, is put to the thread. *)
LEMMA FaithfulAsks ==
    ASSUME NEW t \in Seq(Int), NEW s, NEW a, NEW c, NEW q \in Questions,
           a[q].at # "new", q \in c \/ a[q].sid = s, Faithful(t, s, a, c)
    PROVE  Faithful(Append(t, q), s, a, c)
<1>1. q \in Int /\ q > 0 /\ \A p \in Questions : p \in Int
  BY DEF Questions
<1>2. \A e : In(e, Append(t, q)) <=> In(e, t) \/ e = q
  BY <1>1, InAppended
<1>3. Known(Append(t, q), a) /\ Complete(Append(t, q), s, a, c)
  BY <1>2 DEF Faithful, Known, Complete
<1>4. ASSUME Clean(Append(t, q), c) PROVE Proper(Append(t, q), s, a)
  <2>1. Clean(t, c) /\ q \notin c /\ Proper(t, s, a)
    BY <1>2, <1>4 DEF Clean, Faithful
  <2>2. \A p \in Questions : In(p, Append(t, q)) => a[p].sid = s
    BY <1>2, <2>1 DEF Proper
  <2>3. ASSUME NEW i \in DOMAIN Append(t, q), Append(t, q)[i] < 0
        PROVE  i > 1 /\ Append(t, q)[i - 1] = -(Append(t, q)[i])
    <3>1. i \in DOMAIN t /\ Append(t, q)[i] = t[i]
      BY <1>1, <2>3
    <3>2. i > 1 /\ t[i - 1] = -t[i]
      BY <2>1, <2>3, <3>1 DEF Proper
    <3> QED
      BY <1>1, <3>1, <3>2
  <2> QED
    BY <2>2, <2>3 DEF Proper
<1> QED
  BY <1>3, <1>4 DEF Faithful

(* The answer to the question asked last, or to a crossed one. *)
LEMMA FaithfulAnswers ==
    ASSUME NEW t \in Seq(Int), NEW s, NEW a, NEW c, NEW q \in Questions, In(q, t),
           q \in c \/ (t # << >> /\ t[Len(t)] = q), Faithful(t, s, a, c)
    PROVE  Faithful(Append(t, -q), s, a, c)
<1>1. q \in Int /\ q > 0 /\ -q \in Int /\ -q \notin Questions
  BY DEF Questions
<1>2. \A e : In(e, Append(t, -q)) <=> In(e, t) \/ e = -q
  BY <1>1, InAppended
<1>3. Known(Append(t, -q), a) /\ Complete(Append(t, -q), s, a, c)
  BY <1>1, <1>2 DEF Faithful, Known, Complete
<1>4. ASSUME Clean(Append(t, -q), c) PROVE Proper(Append(t, -q), s, a)
  <2>1. Clean(t, c) /\ q \notin c /\ Proper(t, s, a) /\ t # << >> /\ t[Len(t)] = q
    BY <1>2, <1>4 DEF Clean, Faithful
  <2>2. \A p \in Questions : In(p, Append(t, -q)) => a[p].sid = s
    BY <1>1, <1>2, <2>1 DEF Proper
  <2>3. ASSUME NEW i \in DOMAIN Append(t, -q), Append(t, -q)[i] < 0
        PROVE  i > 1 /\ Append(t, -q)[i - 1] = -(Append(t, -q)[i])
    <3>1. /\ DOMAIN t = 1 .. Len(t) /\ Len(t) \in Nat /\ Len(t) > 0
          /\ DOMAIN Append(t, -q) = 1 .. Len(t) + 1
          /\ Append(t, -q)[Len(t) + 1] = -q
          /\ \A j \in 1 .. Len(t) : Append(t, -q)[j] = t[j]
      BY <1>1, <2>1
    <3>2. CASE i = Len(t) + 1
      <4> DEFINE u == Append(t, -q)
      <4>3. u[Len(t) + 1] = -q /\ \A j \in 1 .. Len(t) : u[j] = t[j]
        BY <3>1
      <4> HIDE DEF u
      <4>4. i > 1 /\ i - 1 = Len(t) /\ i - 1 \in 1 .. Len(t)
        BY <3>1, <3>2
      <4>1. u[i - 1] = q /\ i > 1 /\ u[i] = -q
        BY <2>1, <3>2, <4>3, <4>4
      <4>2. -(-q) = q
        BY <1>1
      <4> QED
        BY <4>1, <4>2 DEF u
    <3>3. CASE i \in 1 .. Len(t)
      <4>1. i > 1 /\ t[i - 1] = -t[i]
        BY <2>1, <2>3, <3>1, <3>3 DEF Proper
      <4> QED
        BY <3>1, <3>3, <4>1
    <3> QED
      BY <2>3, <3>1, <3>2, <3>3
  <2> QED
    BY <2>2, <2>3 DEF Proper
<1> QED
  BY <1>3, <1>4 DEF Faithful
-----------------------------------------------------------------------------
(* What the current session has of a question in flight that nothing       *)
(* crossed.                                                                *)
Current(q) ==
    /\ ask[q].sid = chat.sid
    /\ ask[q].at = "asking" => /\ ask[q].obj = chat.obj /\ objs[chat.obj] # << >>
                               /\ objs[chat.obj][Len(objs[chat.obj])] = q
    /\ ask[q].at = "answered" => chat.obj # 0 /\ In(-q, objs[chat.obj])

(* An object belongs to a question that has made it, and the one a         *)
(* question is put to has got it.                                          *)
Objects ==
    /\ chat.obj # 0 => chat.obj \in Made
    /\ \A q \in Questions : ask[q].obj # 0 => ask[q].obj \in Made
    /\ \A q \in Questions : ask[q].at = "asking" => ask[q].obj # 0 /\ In(q, objs[ask[q].obj])
    /\ \A q \in InFlight \ crossed : Current(q)

(* Every thread there is: on disk, in memory, and read by a request.       *)
Threads ==
    /\ \A s \in Sessions : Faithful(files[s].thread, s, ask, crossed)
    /\ chat.obj # 0 => Faithful(objs[chat.obj], chat.sid, ask, crossed)
    /\ request # NoRequest => Faithful(request.thread, request.sid, ask, crossed)

Conversing == Served /\ Objects /\ Threads

LEMMA ChatFacts ==
    ASSUME Typed
    PROVE  /\ chat.sid \in {0} \cup Sessions /\ chat.obj \in {0} \cup Questions
           /\ objs \in [Questions -> Seq(Int)] /\ DOMAIN ask = Questions
           /\ \A q \in Questions : ask[q].obj \in {0} \cup Questions /\ ask[q].at \in
                 {"new", "checked", "accepted", "built", "asking", "answered", "ending", "over",
                  "failed"}
BY DEF Typed, ChatTyped

(* Steps that leave the chat and the questions alone, or end both. *)
LEMMA ObjectsStay ==
    ASSUME Conversing, UNCHANGED <<ask, objs>>, crossed \subseteq crossed',
           \/ chat'.sid = chat.sid /\ chat'.obj = chat.obj
           \/ chat'.obj = 0 /\ InFlight \subseteq crossed'
    PROVE  Objects'
<1>1. InFlight' = InFlight /\ Made' = Made
  BY DEF InFlight, Made
<1>2. /\ chat'.obj # 0 => chat'.obj \in Made'
      /\ \A q \in Questions : ask'[q].obj # 0 => ask'[q].obj \in Made'
      /\ \A q \in Questions : ask'[q].at = "asking" => ask'[q].obj # 0 /\ In(q, objs'[ask'[q].obj])
  BY <1>1 DEF Conversing, Objects
<1>3. \A q \in InFlight' \ crossed' : Current(q)'
  BY <1>1 DEF Conversing, Objects, Current
<1> QED
  BY <1>2, <1>3 DEF Objects

(* While question q is past CHAT_LOCK, no other uncrossed one is. *)
LEMMA Excluded ==
    ASSUME Served, NEW q \in Active, NEW p \in Active \ crossed PROVE p = q
BY DEF Served, Exclusive

(* The steps that take a question up or give it up. *)
LEMMA ObjectsByTurns ==
    ASSUME Conversing, NEW q \in Questions,
           AskChecked(q) \/ AskAccepted(q) \/ SaveChat(q) \/ AskFails(q)
    PROVE  Objects'
<1>1. /\ Typed /\ Served /\ Objects /\ crossed \subseteq crossed' /\ objs' = objs
      /\ chat'.sid = chat.sid /\ chat'.obj = chat.obj
  <2>1. Typed /\ Served /\ Objects
    BY DEF Conversing, Served, Apart
  <2>2. crossed \subseteq crossed'
    BY CrossedStep, NextByQuestion DEF InFlightStep
  <2>3. chat' = chat \/ \E b \in BOOLEAN : chat' = [chat EXCEPT !.busy = b]
    BY DEF AskChecked, AskAccepted, SaveChat, AskFails
  <2> QED
    BY <2>1, <2>2, <2>3 DEF Typed, ChatTyped, AskChecked, AskAccepted, SaveChat, AskFails
<1>2. /\ \A p \in Questions \ {q} : ask'[p] = ask[p]
      /\ ask'[q].obj = ask[q].obj /\ ask'[q].at \notin {"new", "asking", "answered"}
      /\ ask[q].at \in {"new", "checked"} \/ ask'[q].at \in {"over", "failed"}
      /\ ask'[q].at \notin {"over", "failed"} => ask'[q].sid = chat.sid \/ q \in InFlight
      /\ ask'[q].sid = ask[q].sid \/ ask'[q].sid = chat.sid
  BY <1>1, AskStep DEF MovesOn, Same, InFlight
<1>3. Made \subseteq Made'
  <2>1. q \in Made => ask'[q].at \in {"over", "failed"}
    BY <1>2 DEF Made
  <2> QED
    BY <1>2, <2>1 DEF Made
<1>4. \A p \in InFlight' \ crossed' : Current(p)'
  <2> SUFFICES ASSUME NEW p \in InFlight' \ crossed' PROVE Current(p)'
    OBVIOUS
  <2>1. CASE p = q
    BY <1>1, <1>2, <2>1 DEF Current, Objects, InFlight
  <2>2. CASE p # q
    BY <1>1, <1>2, <2>2 DEF Current, Objects, InFlight
  <2> QED
    BY <2>1, <2>2
<1>5. /\ chat'.obj # 0 => chat'.obj \in Made'
      /\ \A p \in Questions : ask'[p].obj # 0 => ask'[p].obj \in Made'
      /\ \A p \in Questions : ask'[p].at = "asking" => ask'[p].obj # 0 /\ In(p, objs'[ask'[p].obj])
  BY <1>1, <1>2, <1>3 DEF Objects
<1> QED
  BY <1>4, <1>5 DEF Objects

(* What was appended last is the last element. *)
LEMMA LastAppended ==
    ASSUME NEW s \in Seq(Int), NEW x \in Int
    PROVE  Append(s, x) # << >> /\ Append(s, x)[Len(Append(s, x))] = x
<1>1. /\ Len(Append(s, x)) = Len(s) + 1 /\ Len(s) \in Nat
      /\ Append(s, x)[Len(s) + 1] = x
  OBVIOUS
<1>2. Append(s, x) # << >>
  BY <1>1
<1> QED
  BY <1>1, <1>2

(* A thread in memory only grows at its end. *)
LEMMA Grown ==
    ASSUME Typed, NEW o \in Questions, NEW x \in Int, objs' = [objs EXCEPT ![o] = Append(@, x)]
    PROVE  /\ objs'[o] = Append(objs[o], x) /\ \A p \in Questions \ {o} : objs'[p] = objs[p]
           /\ \A p \in Questions : \A e : In(e, objs[p]) => In(e, objs'[p])
           /\ In(x, objs'[o])
           /\ objs'[o] # << >> /\ objs'[o][Len(objs'[o])] = x
<1>1. objs'[o] = Append(objs[o], x) /\ \A p \in Questions \ {o} : objs'[p] = objs[p]
  BY ChatFacts
<1>2. objs[o] \in Seq(Int)
  BY ChatFacts
<1>3. /\ Append(objs[o], x) # << >>
      /\ Append(objs[o], x)[Len(Append(objs[o], x))] = x
  BY <1>2, LastAppended
<1>4. \A e : In(e, Append(objs[o], x)) <=> In(e, objs[o]) \/ e = x
  BY <1>2, InAppended
<1> QED
  BY <1>1, <1>3, <1>4

LEMMA ObjectsByBuild == ASSUME Conversing, NEW q \in Questions, Build(q) PROVE Objects'
<1>1. /\ Typed /\ Served /\ Objects /\ crossed' = crossed
      /\ MovesOn(q, "accepted", {"built"}) /\ Same(q)
      /\ chat.sid = chat'.sid /\ chat'.obj \in {chat.obj, q}
      /\ \A p \in Questions \ {q} : objs'[p] = objs[p]
  <2>1. Typed /\ Served /\ Objects
    BY DEF Conversing, Served, Apart
  <2>2. /\ chat.sid = chat'.sid /\ chat'.obj \in {chat.obj, q}
        /\ \A p \in Questions \ {q} : objs'[p] = objs[p]
    BY <2>1, ChatFacts DEF Typed, ChatTyped, Build
  <2> QED
    BY <2>1, <2>2, AskStep DEF Build, histories
<1>2. q \in Active /\ q \notin Made /\ Made' = Made \cup {q}
  BY <1>1 DEF MovesOn, Active, Made
<1>3. /\ chat'.obj # 0 => chat'.obj \in Made'
      /\ \A p \in Questions : ask'[p].obj # 0 => ask'[p].obj \in Made'
  BY <1>1, <1>2 DEF Objects, MovesOn, Same
<1>4. ASSUME NEW p \in Questions, ask'[p].at = "asking"
      PROVE  ask'[p].obj # 0 /\ In(p, objs'[ask'[p].obj])
  <2>1. p # q /\ ask'[p] = ask[p]
    BY <1>1, <1>4 DEF MovesOn
  <2>2. ask[p].obj # 0 /\ In(p, objs[ask[p].obj]) /\ ask[p].obj \in Made
    BY <1>1, <1>4, <2>1 DEF Objects
  <2> QED
    BY <1>1, <1>2, <2>1, <2>2 DEF Made
<1>5. ASSUME NEW p \in InFlight' \ crossed' PROVE Current(p)'
  <2>1. p \in InFlight \ crossed /\ ask'[p].sid = ask[p].sid /\ Current(p)
    BY <1>1, <1>5 DEF Objects, MovesOn, Same, InFlight
  <2>2. ask'[p].at \notin {"asking", "answered"}
    <3>1. CASE p = q
      BY <1>1, <3>1 DEF MovesOn
    <3>2. CASE p # q
      BY <1>1, <1>2, <2>1, <3>2, Excluded DEF MovesOn, Active, InFlight
    <3> QED
      BY <3>1, <3>2
  <2> QED
    BY <1>1, <2>1, <2>2 DEF Current
<1> QED
  BY <1>3, <1>4, <1>5 DEF Objects

(* A question, or its answer, is put at the end of a thread. *)
LEMMA ObjectsByAppend ==
    ASSUME Conversing, NEW q \in Questions, NEW o \in Questions, NEW x \in Int,
           objs' = [objs EXCEPT ![o] = Append(@, x)], Made' = Made,
           UNCHANGED <<chat, crossed>>, q \in Active, ask'[q].sid = ask[q].sid,
           \A p \in Questions \ {q} : ask'[p] = ask[p],
           \/ ask'[q].at = "asking" /\ ask'[q].obj = o /\ chat.obj = o /\ x = q
           \/ ask'[q].at = "answered" /\ ask'[q].obj = ask[q].obj /\ ask[q].obj = o /\ x = -q
              /\ ask[q].at = "asking"
    PROVE  Objects'
<1>1. Typed /\ Served /\ Objects
  BY DEF Conversing, Served, Apart
<1>2. /\ \A p \in Questions : \A e : In(e, objs[p]) => In(e, objs'[p])
      /\ In(x, objs'[o]) /\ objs'[o] # << >> /\ objs'[o][Len(objs'[o])] = x
  BY <1>1, Grown
<1>3. /\ chat'.obj # 0 => chat'.obj \in Made'
      /\ \A p \in Questions : ask'[p].obj # 0 => ask'[p].obj \in Made'
  BY <1>1 DEF Objects
<1>4. 0 \notin Questions
  BY DEF Questions
<1>5. ASSUME NEW p \in Questions, ask'[p].at = "asking"
      PROVE  ask'[p].obj # 0 /\ In(p, objs'[ask'[p].obj])
  <2>1. CASE p = q
    BY <1>2, <1>4, <1>5, <2>1
  <2>2. CASE p # q
    <3>1. ask[p].obj # 0 /\ In(p, objs[ask[p].obj]) /\ ask[p].obj \in Questions
      BY <1>1, <1>5, <2>2, ChatFacts DEF Objects
    <3> QED
      BY <1>2, <2>2, <3>1
  <2> QED
    BY <2>1, <2>2
<1>6. ASSUME NEW p \in InFlight' \ crossed' PROVE Current(p)'
  <2>1. p \in InFlight \ crossed /\ ask'[p].sid = ask[p].sid /\ Current(p)
    BY <1>1, <1>6 DEF Objects, InFlight, Active
  <2>2. CASE p # q
    <3>1. ask'[p].at \notin {"asking", "answered"}
      BY <1>1, <2>1, <2>2, Excluded DEF Active, InFlight
    <3> QED
      BY <2>1, <3>1 DEF Current
  <2>3. CASE p = q
    BY <1>2, <1>4, <2>1, <2>3 DEF Current
  <2> QED
    BY <2>2, <2>3
<1> QED
  BY <1>3, <1>5, <1>6 DEF Objects

(* A question that is past its object, or given up, leaves the threads. *)
LEMMA ObjectsByLeaving ==
    ASSUME Conversing, NEW q \in Questions, Made' = Made, UNCHANGED <<objs, chat, crossed>>,
           Same(q), \A p \in Questions \ {q} : ask'[p] = ask[p],
           ask'[q].at \notin {"new", "over", "failed", "answered"}, q \in InFlight,
           ask'[q].at = "asking" => ask[q].at = "asking"
    PROVE  Objects'
BY DEF Conversing, Objects, Current, Same, InFlight

LEMMA ObjectsStep == ASSUME Conversing, [Next]_vars PROVE Objects'
<1>1. Typed /\ Alone /\ Served /\ Objects /\ crossed \subseteq crossed'
  BY CrossedStep DEF Conversing, Served, Apart
<1>2. \A q \in Questions : q \in Int /\ -q \in Int
  BY DEF Questions
<1>3. ASSUME NEW q \in Questions, Ask(q) PROVE Objects'
  <2>1. UNCHANGED <<chat, crossed>>
    BY <1>3 DEF Ask, histories
  <2>2. CASE chat.obj = 0
    <3>1. MovesOn(q, "built", {"ending"}) /\ Same(q) /\ objs' = objs
      BY <1>1, <1>3, <2>2, AskStep DEF Ask
    <3>2. Made' = Made /\ q \in InFlight
      BY <3>1 DEF MovesOn, Made, InFlight
    <3> QED
      BY <2>1, <3>1, <3>2, ObjectsByLeaving DEF MovesOn
  <2>3. CASE chat.obj # 0
    <3>1. /\ MovesOn(q, "built", {"asking"}) /\ ask'[q].sid = ask[q].sid /\ ask'[q].obj = chat.obj
          /\ objs' = [objs EXCEPT ![chat.obj] = Append(@, q)] /\ chat.obj \in Questions
      BY <1>1, <1>3, <2>3, AskStep, ChatFacts DEF Ask
    <3>2. Made' = Made /\ q \in Active
      BY <3>1 DEF MovesOn, Made, Active
    <3> QED
      BY <1>2, <2>1, <3>1, <3>2, ObjectsByAppend DEF MovesOn
  <2> QED
    BY <2>2, <2>3
<1>4. ASSUME NEW q \in Questions, AskCall(q) PROVE Objects'
  <2>1. UNCHANGED <<chat, crossed>>
    BY <1>4 DEF AskCall
  <2>2. MovesOn(q, "asking", {"asking", "answered", "ending"}) /\ Same(q)
    BY <1>1, <1>4, AskStep
  <2>3. Made' = Made /\ q \in Active /\ q \in InFlight
    BY <2>2 DEF MovesOn, Made, Active, InFlight
  <2>4. objs' = IF ask'[q].at = "answered" THEN [objs EXCEPT ![ask[q].obj] = Append(@, -q)]
                                           ELSE objs
    <3>1. CASE CANCEL \/ CTX = 0
      <4>1. ask' = [ask EXCEPT ![q].at = "ending"] /\ objs' = objs
        BY <1>4, <3>1 DEF AskCall
      <4>2. ask'[q].at = "ending"
        BY <1>1, <4>1, Moved
      <4> QED
        BY <4>1, <4>2
    <3>2. CASE ~(CANCEL \/ CTX = 0)
      BY <1>4, <3>2 DEF AskCall
    <3> QED
      BY <3>1, <3>2
  <2>5. ask[q].obj \in Questions
    BY <1>1, <2>2, ChatFacts DEF MovesOn, Objects
  <2>6. CASE ask'[q].at = "answered"
    BY <1>2, <2>1, <2>2, <2>3, <2>4, <2>5, <2>6, ObjectsByAppend DEF MovesOn, Same
  <2>7. CASE ask'[q].at # "answered"
    BY <2>1, <2>2, <2>3, <2>4, <2>7, ObjectsByLeaving DEF MovesOn
  <2> QED
    BY <2>6, <2>7
<1>5. CASE LiveStart
  BY <1>1, <1>5, ObjectsStay DEF LiveStart
<1>6. CASE RunSession
  <2>1. InFlight \subseteq crossed /\ crossed' = crossed /\ UNCHANGED <<ask, objs>>
    BY <1>1, <1>6 DEF Alone, RunSession, Running, histories
  <2>2. chat' = chat \/ chat'.obj = 0
    BY <1>1, <1>6 DEF RunSession, Typed, ChatTyped
  <2> QED
    BY <2>1, <2>2, <1>1, ObjectsStay
<1>7. CASE Switch \/ Connect
  <2>1. InFlight \subseteq crossed /\ crossed' = crossed /\ UNCHANGED <<ask, objs>>
    BY <1>1, <1>7 DEF Alone, Switch, Connect, NoRequest, histories
  <2>2. chat'.obj = 0
    BY <1>1, <1>7 DEF Switch, Connect, Typed, ChatTyped
  <2> QED
    BY <2>1, <2>2, <1>1, ObjectsStay
<1>8. CASE UNCHANGED <<ask, objs, chat>>
  BY <1>1, <1>8, ObjectsStay
<1> QED
  BY <1>3, <1>4, <1>5, <1>6, <1>7, <1>8, ObjectsByTurns, ObjectsByBuild, NextByQuestion,
     StopsElsewhere DEF vars, RunThread, ClearContext, Diagnose, RunCancelled, RunReturns, RunEnd,
     RunCall, Watch, InFlightStep, Request, Fork

(* What a step does to the questions, as far as a thread can tell. *)
LEMMA Asking ==
    ASSUME Typed, [Next]_vars, NEW q \in Questions, ask[q].at # "new"
    PROVE  /\ ask'[q].at # "new" /\ ask'[q].sid = ask[q].sid
           /\ ask'[q].at = "over" => ask[q].at = "over" \/ SaveChat(q)
<1>1. CASE ask' = ask
  BY <1>1
<1>2. ASSUME NEW p \in Questions, AskChecked(p)
      PROVE  ask'[q] = ask[q]
  BY <1>2, AskStep DEF MovesOn
<1>3. ASSUME NEW p \in Questions, InFlightStep(p), p # q
      PROVE  ask'[q] = ask[q]
  BY <1>3, ActiveStep
<1>4. CASE InFlightStep(q)
  BY <1>4, AskStep DEF InFlightStep, MovesOn, Same
<1> QED
  BY <1>1, <1>2, <1>3, <1>4, NextByQuestion, StopsElsewhere DEF vars, LiveStart, RunThread,
     ClearContext, Diagnose, RunCancelled, RunReturns, RunSession, RunEnd, RunCall, Watch,
     Request, Switch, Connect, Fork

(* A thread stays faithful in a step that ends no uncrossed question of    *)
(* its session without its answer.                                         *)
LEMMA ThreadKept ==
    ASSUME Typed, [Next]_vars, NEW t, NEW s, Faithful(t, s, ask, crossed),
           \A q \in Questions \ crossed : SaveChat(q) /\ ask[q].sid = s => In(-q, t)
    PROVE  Faithful(t, s, ask', crossed')
<1>1. crossed \subseteq crossed'
  BY CrossedStep
<1>2. \A q \in Questions : ask[q].at # "new" => ask'[q].at # "new" /\ ask'[q].sid = ask[q].sid
  BY Asking
<1>3. ASSUME NEW q \in Questions \ crossed', ask'[q].at = "over", ask'[q].sid = s
      PROVE  ask[q].at = "over" \/ In(-q, t)
  <2>1. ask[q].at # "new"
    <3>1. \A p \in Questions : AskChecked(p) => ask'[p].at = "checked"
      BY AskStep DEF MovesOn
    <3>2. (\A p \in Questions : ~AskChecked(p)) \/ \E p \in Questions : AskChecked(p)
      OBVIOUS
    <3>3. ASSUME ask[q].at = "new" PROVE ask'[q].at # "over"
      <4>1. ASSUME NEW p \in Questions, AskChecked(p) PROVE ask'[q].at # "over"
        BY <3>1, <3>3, <4>1, AskStep DEF MovesOn
      <4>2. ASSUME NEW p \in Questions, InFlightStep(p) PROVE ask'[q].at # "over"
        BY <3>3, <4>2, ActiveStep
      <4>3. CASE ask' = ask
        BY <3>3, <4>3
      <4> QED
        BY <4>1, <4>2, <4>3, NextByQuestion, StopsElsewhere DEF vars, LiveStart, RunThread,
           ClearContext, Diagnose, RunCancelled, RunReturns, RunSession, RunEnd, RunCall, Watch,
           Request, Switch, Connect, Fork
    <3> QED
      BY <1>3, <3>3
  <2>2. ask[q].at = "over" \/ SaveChat(q)
    BY <1>3, <2>1, Asking
  <2> QED
    BY <1>1, <1>2, <1>3, <2>1, <2>2
<1> QED
  BY <1>1, <1>2, <1>3, FaithfulKeeps

(* The thread of a session nothing was asked in. *)
LEMMA FaithfulEmpty ==
    ASSUME NEW s, NEW a, NEW c, \A q \in Questions : a[q].at # "new" => a[q].sid # s
    PROVE  Faithful(<<>>, s, a, c)
BY DEF Faithful, Known, Clean, Proper, Complete, In

(* The answer that is being saved stands in the current object's thread.   *)
LEMMA AnswerAtHand ==
    ASSUME Conversing, NEW q \in Questions \ crossed, SaveChat(q)
    PROVE  /\ ask[q].sid = chat.sid /\ chat.obj # 0 /\ In(-q, objs[chat.obj])
           /\ request = NoRequest
<1>1. q \in InFlight \ crossed /\ ask[q].at = "answered"
  BY DEF SaveChat, InFlight
<1> QED
  BY <1>1 DEF Conversing, Served, Apart, Alone, Objects, Current

(* The threads on disk. *)
LEMMA FilesStayFaithful ==
    ASSUME Conversing, [Next]_vars, NEW s \in Sessions
    PROVE  Faithful(files'[s].thread, s, ask', crossed')
<1>1. /\ Typed /\ Existing /\ Objects /\ Threads /\ Stands
      /\ files \in [Sessions -> [tr : {0} \cup Contexts, thread : Seq(Int)]]
      /\ chat.sid \in {0} \cup Sessions
  BY DEF Conversing, Served, Apart, Typed, FilesTyped, ChatTyped
<1>2. CASE files'[s].thread = files[s].thread /\ \A q \in Questions : ~SaveChat(q)
  BY <1>1, <1>2, ThreadKept DEF Threads
<1>3. Saved[s].thread = IF s = chat.sid /\ chat.obj # 0 THEN objs[chat.obj] ELSE files[s].thread
  <2>1. chat.sid # 0 => files[chat.sid].tr # 0
    BY <1>1 DEF Stands, There
  <2> QED
    BY <1>1, <2>1, Ranges DEF Saved
<1>4. Faithful(Saved[s].thread, s, ask, crossed)
  BY <1>1, <1>3 DEF Threads
<1>5. ASSUME NEW q \in Questions, SaveChat(q)
      PROVE  Faithful(files'[s].thread, s, ask', crossed')
  <2>1. files' = Saved
    BY <1>5 DEF SaveChat
  <2>2. \A p \in Questions \ crossed : SaveChat(p) /\ ask[p].sid = s => In(-p, Saved[s].thread)
    BY <1>3, AnswerAtHand
  <2> QED
    BY <1>1, <1>4, <2>1, <2>2, ThreadKept
<1>6. CASE Connect
  <2>1. ask' = ask /\ crossed' = crossed /\ request # NoRequest
    BY <1>6 DEF Connect, histories, NoRequest
  <2>2. CASE files' = Saved
    BY <1>4, <2>1, <2>2
  <2>3. CASE files' = [files EXCEPT ![request.sid].thread = request.thread]
    <3>1. files'[s].thread = IF s = request.sid THEN request.thread ELSE files[s].thread
      BY <1>1, <2>3
    <3> QED
      BY <1>1, <2>1, <3>1 DEF Threads
  <2> QED
    BY <1>6, <2>2, <2>3 DEF Connect
<1>7. ASSUME NEW n \in Sessions, NEW u, ~There(n),
             files' = [files EXCEPT ![n] = [tr |-> u, thread |-> <<>>]], ask' = ask, crossed \subseteq crossed'
      PROVE  Faithful(files'[s].thread, s, ask', crossed')
  <2>1. CASE s = n
    <3>1. files'[s].thread = <<>>
      BY <1>1, <1>7, <2>1
    <3>2. \A q \in Questions : ask'[q].at # "new" => ask'[q].sid # s
      BY <1>1, <1>7, <2>1 DEF Existing
    <3> QED
      BY <3>1, <3>2, FaithfulEmpty
  <2>2. CASE s # n
    <3>1. files'[s].thread = files[s].thread
      BY <1>1, <1>7, <2>2
    <3>2. \A q \in Questions : ~SaveChat(q)
      BY <1>1, <1>7, AskStep DEF MovesOn
    <3> QED
      BY <1>2, <3>1, <3>2
  <2> QED
    BY <2>1, <2>2
<1>8. CASE RunSession
  <2>1. ask' = ask /\ crossed' = crossed /\ run.at = "returned" /\ run.n \in 0 .. MaxRuns
    BY <1>1, <1>8 DEF RunSession, histories, Typed, RunTyped
  <2>2. CASE tr = 0
    <3>1. files' = files /\ \A q \in Questions : ~SaveChat(q)
      BY <1>1, <1>8, <2>1, <2>2, AskStep DEF RunSession, MovesOn
    <3> QED
      BY <1>2, <3>1
  <2>3. CASE tr # 0
    <3>1. run.n \in Runs /\ run.n \in Sessions
      BY <2>1, Ranges DEF Conversing, Served, Apart, Alone, Running
    <3>2. ~There(run.n)
      BY <1>1, <2>1, <3>1 DEF Existing
    <3>3. files' = [files EXCEPT ![run.n] = [tr |-> tr, thread |-> <<>>]]
      BY <1>8, <2>3 DEF RunSession
    <3> QED
      BY <1>7, <2>1, <3>1, <3>2, <3>3
  <2> QED
    BY <2>2, <2>3
<1>9. CASE Fork
  <2>1. ask' = ask /\ crossed \subseteq crossed'
    BY <1>9, CrossedStep DEF Fork
  <2>2. MaxRuns + forks + 1 \in Sessions /\ ~There(MaxRuns + forks + 1)
    <3>1. /\ forks \in 0 .. MaxForks /\ forks < limit.forks /\ limit.forks \in 0 .. MaxForks
          /\ MaxRuns \in Nat /\ MaxForks \in Nat
      BY <1>1, <1>9, Ranges, CountAssumption DEF Fork, Typed, RunTyped, FilesTyped
    <3>2. MaxRuns + forks + 1 \in Sessions /\ MaxRuns + forks + 1 > MaxRuns + forks
      BY <3>1 DEF Sessions
    <3> QED
      BY <1>1, <3>2 DEF Existing
  <2>3. PICK u : files' = [files EXCEPT ![MaxRuns + forks + 1] = [tr |-> u, thread |-> <<>>]]
    BY <1>9 DEF Fork
  <2> QED
    BY <1>7, <2>1, <2>2, <2>3
<1>10. CASE files' = files /\ \A q \in Questions : ~SaveChat(q)
  BY <1>2, <1>10
<1>11. CASE files' = files /\ ~\E q \in Questions : SaveChat(q)
  BY <1>10, <1>11
<1> QED
  BY <1>5, <1>6, <1>8, <1>9, <1>11, NextByQuestion, StopsElsewhere DEF vars, LiveStart, RunThread,
     ClearContext, Diagnose, RunCancelled, RunReturns, RunEnd, RunCall, Watch, AskChecked,
     InFlightStep, AskAccepted, Build, Ask, AskCall, AskFails, Request, Switch

(* The thread of the current object. *)
LEMMA ObjectStaysFaithful ==
    ASSUME Conversing, [Next]_vars, chat'.obj # 0
    PROVE  Faithful(objs'[chat'.obj], chat'.sid, ask', crossed')
<1>1. /\ Typed /\ Served /\ Objects /\ Threads /\ Stands
      /\ chat.sid \in {0} \cup Sessions /\ chat.obj \in {0} \cup Questions
      /\ objs \in [Questions -> Seq(Int)]
  BY ChatFacts DEF Conversing, Served, Apart, Typed
<1>2. ASSUME UNCHANGED objs, chat'.obj = chat.obj, chat'.sid = chat.sid
      PROVE  Faithful(objs'[chat'.obj], chat'.sid, ask', crossed')
  <2>1. Faithful(objs[chat.obj], chat.sid, ask, crossed)
    BY <1>1, <1>2 DEF Threads
  <2>2. \A q \in Questions \ crossed : SaveChat(q) => In(-q, objs[chat.obj])
    BY AnswerAtHand
  <2> QED
    BY <1>1, <1>2, <2>1, <2>2, ThreadKept
<1>3. ASSUME NEW q \in Questions, AskChecked(q) \/ AskAccepted(q) \/ SaveChat(q) \/ AskFails(q)
      PROVE  Faithful(objs'[chat'.obj], chat'.sid, ask', crossed')
  <2>1. chat' = chat \/ \E b \in BOOLEAN : chat' = [chat EXCEPT !.busy = b]
    BY <1>3 DEF AskChecked, AskAccepted, SaveChat, AskFails
  <2>2. chat'.obj = chat.obj /\ chat'.sid = chat.sid
    BY <1>1, <2>1 DEF Typed, ChatTyped
  <2>3. objs' = objs
    BY <1>3 DEF AskChecked, AskAccepted, SaveChat, AskFails
  <2> QED
    BY <1>2, <2>2, <2>3
<1>4. ASSUME NEW q \in Questions, Build(q)
      PROVE  Faithful(objs'[chat'.obj], chat'.sid, ask', crossed')
  <2>1. CASE chat.obj # 0
    BY <1>2, <1>4, <2>1 DEF Build
  <2>2. CASE chat.obj = 0
    <3>1. chat'.obj = q /\ chat'.sid = chat.sid /\ objs'[q] = Stored(chat.sid)
      BY <1>1, <1>4, <2>2 DEF Build, Typed, ChatTyped
    <3>2. Faithful(Stored(chat.sid), chat.sid, ask, crossed)
      <4>1. CASE chat.sid = 0
        <5>1. \A p \in Questions : ask[p].at # "new" => ask[p].sid # 0
          BY <1>1, Ranges DEF Served, Existing
        <5> QED
          BY <4>1, <5>1, FaithfulEmpty DEF Stored
      <4>2. CASE chat.sid # 0
        BY <1>1, <4>2 DEF Stored, Threads
      <4> QED
        BY <4>1, <4>2
    <3>3. \A p \in Questions : ~SaveChat(p)
      BY <1>1, <1>4, AskStep DEF MovesOn
    <3> QED
      BY <1>1, <3>1, <3>2, <3>3, ThreadKept
  <2> QED
    BY <2>1, <2>2
<1>5. ASSUME NEW q \in Questions, Ask(q)
      PROVE  Faithful(objs'[chat'.obj], chat'.sid, ask', crossed')
  <2>1. chat.obj \in Questions /\ chat' = chat /\ objs' = [objs EXCEPT ![chat.obj] = Append(@, q)]
    BY <1>1, <1>5, Ranges DEF Ask
  <2>2. objs'[chat.obj] = Append(objs[chat.obj], q)
    BY <1>1, <2>1
  <2>3. ask[q].at # "new" /\ (q \in crossed \/ ask[q].sid = chat.sid)
    <3>1. ask[q].at = "built" /\ q \in InFlight
      BY <1>5 DEF Ask, InFlight
    <3> QED
      BY <1>1, <3>1 DEF Objects, Current
  <2>4. Faithful(objs[chat.obj], chat.sid, ask, crossed) /\ objs[chat.obj] \in Seq(Int)
    BY <1>1, <2>1, Ranges DEF Threads
  <2>5. Faithful(Append(objs[chat.obj], q), chat.sid, ask, crossed)
    BY <2>3, <2>4, FaithfulAsks
  <2>6. \A p \in Questions : ~SaveChat(p)
    BY <1>1, <1>5, <2>1, AskStep DEF MovesOn
  <2> QED
    BY <1>1, <2>1, <2>2, <2>5, <2>6, ThreadKept
<1>6. ASSUME NEW q \in Questions, AskCall(q)
      PROVE  Faithful(objs'[chat'.obj], chat'.sid, ask', crossed')
  <2>1. chat' = chat /\ ask[q].at = "asking" /\ q \in InFlight
    BY <1>6 DEF AskCall, InFlight
  <2>2. CASE objs' = objs
    BY <1>2, <2>1, <2>2
  <2>3. CASE objs' = [objs EXCEPT ![ask[q].obj] = Append(@, -q)]
    <3>1. chat.obj \in Questions /\ ask[q].obj \in Questions
      BY <1>1, <2>1, ChatFacts DEF Objects
    <3>2. CASE ask[q].obj # chat.obj
      <4>1. objs'[chat.obj] = objs[chat.obj]
        BY <1>1, <2>3, <3>1, <3>2
      <4>2. Faithful(objs[chat.obj], chat.sid, ask, crossed)
        BY <1>1, <3>1, Ranges DEF Threads
      <4>3. \A p \in Questions : ~SaveChat(p)
        BY <1>1, <1>6, AskStep DEF MovesOn
      <4> QED
        BY <1>1, <2>1, <4>1, <4>2, <4>3, ThreadKept
    <3>3. CASE ask[q].obj = chat.obj
      <4>1. objs'[chat.obj] = Append(objs[chat.obj], -q) /\ objs[chat.obj] \in Seq(Int)
        BY <1>1, <2>3, <3>1, <3>3
      <4>2. Faithful(objs[chat.obj], chat.sid, ask, crossed)
        BY <1>1, <3>1, Ranges DEF Threads
      <4>3. In(q, objs[chat.obj])
        BY <1>1, <2>1, <3>3 DEF Objects
      <4>4. q \in crossed \/ (objs[chat.obj] # << >> /\ objs[chat.obj][Len(objs[chat.obj])] = q)
        BY <1>1, <2>1 DEF Objects, Current
      <4>5. Faithful(Append(objs[chat.obj], -q), chat.sid, ask, crossed)
        BY <4>1, <4>2, <4>3, <4>4, FaithfulAnswers
      <4>6. \A p \in Questions : ~SaveChat(p)
        BY <1>1, <1>6, AskStep DEF MovesOn
      <4> QED
        BY <1>1, <2>1, <4>1, <4>5, <4>6, ThreadKept
    <3> QED
      BY <3>2, <3>3
  <2> QED
    BY <1>6, <2>2, <2>3 DEF AskCall
<1>7. CASE LiveStart
  BY <1>7 DEF LiveStart
<1>8. CASE RunSession \/ Switch \/ Connect
  <2>1. objs' = objs /\ (chat' = chat \/ chat'.obj = 0)
    BY <1>1, <1>8 DEF RunSession, Switch, Connect, Typed, ChatTyped
  <2> QED
    BY <1>2, <2>1
<1>9. CASE UNCHANGED <<objs, chat>>
  BY <1>2, <1>9
<1> QED
  BY <1>3, <1>4, <1>5, <1>6, <1>7, <1>8, <1>9, NextByQuestion, StopsElsewhere DEF vars, RunThread,
     ClearContext, Diagnose, RunCancelled, RunReturns, RunEnd, RunCall, Watch, InFlightStep,
     Request, Fork

LEMMA ThreadsStep == ASSUME Conversing, [Next]_vars PROVE Threads'
<1>1. /\ Typed /\ Alone /\ Threads /\ Stands /\ chat.sid \in {0} \cup Sessions
      /\ \A s \in Sessions : Faithful(files'[s].thread, s, ask', crossed')
  BY FilesStayFaithful, ChatFacts DEF Conversing, Served, Apart, Typed
<1>2. ASSUME NEW s \in Sessions, NEW what, Begin(what, s)
      PROVE  Faithful(request'.thread, request'.sid, ask', crossed')
  BY <1>1, <1>2 DEF Begin
<1>3. ASSUME request' # NoRequest
      PROVE  Faithful(request'.thread, request'.sid, ask', crossed')
  <2>1. CASE request' = request
    <3>1. Faithful(request.thread, request.sid, ask, crossed)
      BY <1>1, <1>3, <2>1 DEF Threads
    <3>2. \A q \in Questions \ crossed : ~SaveChat(q)
      BY <1>3, <2>1, AnswerAtHand
    <3> QED
      BY <1>1, <2>1, <3>1, <3>2, ThreadKept
  <2>2. CASE Request
    BY <1>1, <1>2, <2>2 DEF Request
  <2>3. CASE Fork
    <3>1. /\ forks \in 0 .. MaxForks /\ forks < limit.forks /\ limit.forks \in 0 .. MaxForks
          /\ MaxRuns \in Nat /\ MaxForks \in Nat
      BY <1>1, <2>3, Ranges, CountAssumption DEF Fork, Typed, RunTyped, FilesTyped
    <3>2. MaxRuns + forks + 1 \in Sessions
      BY <3>1 DEF Sessions
    <3> QED
      BY <1>2, <2>3, <3>2 DEF Fork
  <2>4. CASE Switch \/ Connect
    BY <1>3, <2>4 DEF Switch, Connect
  <2> QED
    BY <2>1, <2>2, <2>3, <2>4, NextByQuestion, StopsElsewhere DEF vars, LiveStart, RunThread,
       ClearContext, Diagnose, RunCancelled, RunReturns, RunSession, RunEnd, RunCall, Watch,
       AskChecked, InFlightStep, AskAccepted, Build, Ask, AskCall, SaveChat, AskFails
<1> QED
  BY <1>1, <1>3, ObjectStaysFaithful DEF Threads

LEMMA ConversingInit == Init => Conversing
<1>1. Init => Objects
  BY DEF Init, Objects, InFlight
<1>2. Init => Threads
  BY FaithfulEmpty DEF Init, Threads, NoFile
<1> QED
  BY <1>1, <1>2, ServedInit DEF Conversing

LEMMA ConversingStep == ASSUME Conversing, [Next]_vars PROVE Conversing'
BY ServedStep, ObjectsStep, ThreadsStep DEF Conversing

LEMMA ConversingKeeps == ASSUME Conversing PROVE ConversationsAreKept
<1>1. /\ Existing /\ \A s \in Sessions : Faithful(files[s].thread, s, ask, crossed)
  BY DEF Conversing, Served, Threads
<1>2. ASSUME NEW s \in Sessions, NEW q \in Questions
      PROVE  q \in Asked(s) <=> In(q, files[s].thread)
  BY DEF Asked, In
<1>3. ASSUME NEW s \in Sessions, Asked(s) \cap crossed = {}
      PROVE  /\ \A q \in Asked(s) : ask[q].sid = s
             /\ LET t == files[s].thread IN
                \A i \in DOMAIN t : t[i] < 0 => i > 1 /\ t[i - 1] = -t[i]
  <2>1. Proper(files[s].thread, s, ask)
    BY <1>1, <1>2, <1>3 DEF Faithful, Clean
  <2>2. \A q \in Asked(s) : ask[q].sid = s
    BY <1>2, <2>1 DEF Proper, Asked
  <2> QED
    BY <2>1, <2>2 DEF Proper
<1>4. ASSUME NEW q \in Questions \ crossed, ask[q].at = "over"
      PROVE  \E i \in DOMAIN files[ask[q].sid].thread : files[ask[q].sid].thread[i] = -q
  BY <1>1, <1>4 DEF Existing, Faithful, Complete, In
<1> QED
  BY <1>3, <1>4 DEF ConversationsAreKept

(* No session shows another's conversation and none loses its own: a       *)
(* question nothing overlapped stands, with its answer, in the file of the *)
(* session it was asked in and in no other, whatever is opened, forked or  *)
(* connected later.                                                        *)
THEOREM ConversationsStay == Spec => []ConversationsAreKept
BY ConversingInit, ConversingStep, ConversingKeeps, PTL DEF Spec
=============================================================================
