----------------------------- MODULE LiveServer -----------------------------
(***************************************************************************)
(* The demo server (demo/app.py): a live run of the agent on one thread,   *)
(* the watcher that finds its transcript, questions about a session on     *)
(* threads of their own, and sessions on disk that are opened, forked and  *)
(* connected to code.  Requests are served in parallel; a test and what    *)
(* depends on it are separate steps where no lock holds them together.     *)
(* All threads share the dictionaries LIVE and CHAT, two globals of the    *)
(* agent, CTX and CANCEL, and the trace that is selected, RUN_ID.          *)
(*                                                                         *)
(* A run, and a question's answer, are a series of model calls (AgentRun); *)
(* each is recorded in the context CTX names at that moment.               *)
(***************************************************************************)
EXTENDS Integers, Sequences, FiniteSets

CONSTANTS MaxRuns, MaxQuestions, MaxForks, \* bounds: how often each is asked for
          NTraces,                         \* traces to select from
          Stops,                           \* threads in live_stop, at most
          Limits                           \* bounds of single behaviours within these

ASSUME CountAssumption == /\ MaxRuns \in Nat \ {0} /\ MaxQuestions \in Nat
                          /\ MaxForks \in Nat /\ NTraces \in Nat \ {0}
ASSUME LimitsAssumption ==
    Limits \subseteq [runs : 1 .. MaxRuns, questions : 0 .. MaxQuestions, forks : 0 .. MaxForks,
                     traces : 1 .. NTraces]

Runs == 1 .. MaxRuns
Questions == 1 .. MaxQuestions
Traces == 1 .. NTraces

(* The session of run n is n, the j-th fork MaxRuns + j.  The context of   *)
(* run n is n, that of the Chat object question q made is MaxRuns + q; so  *)
(* are the two as authors of what a context records.                       *)
Sessions == 1 .. MaxRuns + MaxForks
Contexts == 1 .. MaxRuns + MaxQuestions
Author(q) == MaxRuns + q

VARIABLES run,      \* _live_worker: [n, at]
          watch,    \* per run its watcher: whether it looks, and `prev`
          tr,       \* LIVE["tr"], a context or 0
          stopped,  \* LIVE["stopped"]
          CTX, CANCEL, \* agent_v2's globals
          chat,     \* CHAT: [sid, obj, busy]
          objs,     \* per Chat object its thread: q asks, -q answers it
          ask,      \* per question: [at, sid, obj]
          request,  \* a session_open or code_connect past its tests, with the
                    \* thread of the file it has read
          files,    \* the sessions on disk: [tr, thread]; tr 0 if not there
          forks,    \* forks so far
          stop,     \* per thread in live_stop, how far it is
          RUN_ID, RUN_DIR, \* the trace that is selected, and the one whose
                    \* directory is set
          runId,    \* of the sessions on disk the field run_id, 0 if not there
          limit,    \* bound: how often what is asked for in this behaviour
          given,    \* history: per run the trace diagnose was given, 0 before
          moved,    \* history: runs during which another trace was being selected
          hit,      \* history: the run that was the last when CANCEL was set
          shared,   \* history: runs that started while a question was in flight
          strays,   \* history: per run's context, whether others recorded in it
          crossed   \* history: questions that overlap the start of a run, an
                    \* open, fork or connect, or a crossed question

runVars == <<run, watch, tr, stopped>>
globals == <<CTX, CANCEL>>
stopVars == <<stop, hit>>
traceVars == <<RUN_ID, RUN_DIR, runId, given, moved>>
others == <<stopVars, traceVars, shared>>
histories == <<limit, strays, crossed, others>>
vars == <<runVars, globals, chat, objs, ask, request, files, forks, histories>>

NoFile == [tr |-> 0, thread |-> <<>>]
NoRequest == [what |-> "none", sid |-> 0, thread |-> <<>>]

TypeOK ==
    /\ run \in [n : 0 .. MaxRuns,
                at : {"none", "start", "cleared", "running", "returned", "ending"}]
    /\ watch \in [Runs -> [on : BOOLEAN, prev : {0} \cup Contexts]]
    /\ tr \in {0} \cup Contexts /\ CTX \in {0} \cup Contexts /\ CANCEL \in BOOLEAN
    /\ chat.sid # 0 => files[chat.sid].tr # 0
    /\ chat \in [sid : {0} \cup Sessions, obj : {0} \cup Questions, busy : BOOLEAN]
    /\ objs \in [Questions -> Seq(Int)]
    /\ ask \in [Questions -> [at : {"new", "checked", "accepted", "built", "asking", "answered",
                                    "ending", "over", "failed"},
                              sid : {0} \cup Sessions, obj : {0} \cup Questions]]
    /\ request \in [what : {"none", "open", "connect"}, sid : {0} \cup Sessions,
                    thread : Seq(Int)]
    /\ files \in [Sessions -> [tr : {0} \cup Contexts, thread : Seq(Int)]]
    /\ forks \in 0 .. MaxForks
    /\ stopped \in BOOLEAN /\ limit \in Limits
    /\ strays \in [Runs -> BOOLEAN] /\ crossed \subseteq Questions
    /\ stop \in [Stops -> {"none", "tested", "set"}] /\ hit \in 0 .. MaxRuns
    /\ RUN_ID \in Traces /\ RUN_DIR \in Traces /\ runId \in [Sessions -> 0 .. NTraces]
    /\ given \in [Runs -> 0 .. NTraces]
    /\ moved \subseteq Runs /\ shared \subseteq Runs

Init ==
    /\ run = [n |-> 0, at |-> "none"]
    /\ watch = [n \in Runs |-> [on |-> FALSE, prev |-> 0]]
    /\ tr = 0 /\ CTX = 0 /\ CANCEL = FALSE
    /\ chat = [sid |-> 0, obj |-> 0, busy |-> FALSE]
    /\ objs = [q \in Questions |-> <<>>]
    /\ ask = [q \in Questions |-> [at |-> "new", sid |-> 0, obj |-> 0]]
    /\ request = NoRequest
    /\ files = [s \in Sessions |-> NoFile] /\ forks = 0
    /\ stopped = FALSE /\ limit \in Limits
    /\ strays = [n \in Runs |-> FALSE] /\ crossed = {}
    /\ stop = [s \in Stops |-> "none"] /\ hit = 0
    /\ RUN_ID = 1 /\ RUN_DIR = 1 /\ runId = [s \in Sessions |-> 0] /\ given = [n \in Runs |-> 0]
    /\ moved = {} /\ shared = {}

Running == run.at # "none"
InFlight == {q \in Questions : ask[q].at \notin {"new", "over", "failed"}}

-----------------------------------------------------------------------------
(* live_start, under LIVE_LOCK: the chat is reset whether or not a         *)
(* question is being answered.                                             *)
LiveStart ==
    /\ ~Running /\ run.n < limit.runs
    /\ run' = [n |-> run.n + 1, at |-> "start"]
    /\ tr' = 0 /\ stopped' = FALSE
    /\ chat' = [sid |-> 0, obj |-> 0, busy |-> FALSE]
    /\ crossed' = crossed \cup InFlight
    /\ shared' = shared \cup {n \in {run.n + 1} : InFlight # {}}
    /\ UNCHANGED <<watch, globals, objs, ask, request, files, forks, limit, strays, stopVars,
                   traceVars>>

(* Variant: the context of the run before is left where it is. *)
KeepContext ==
    /\ run.at = "start" /\ run' = [run EXCEPT !.at = "cleared"]
    /\ watch' = [watch EXCEPT ![run.n] = [on |-> TRUE, prev |-> 0]]
    /\ given' = [given EXCEPT ![run.n] = RUN_DIR]
    /\ moved' = moved \cup {n \in {run.n} : RUN_DIR # RUN_ID}
    /\ UNCHANGED <<tr, stopped, globals, chat, objs, ask, request, files, forks, limit, strays,
                   crossed, stopVars, RUN_ID, RUN_DIR, runId, shared>>

(* _live_worker up to diagnose: CTX is cleared, the watcher started, the   *)
(* selected trace taken for the run's.                                     *)
ClearContext ==
    /\ run.at = "start" /\ run' = [run EXCEPT !.at = "cleared"]
    /\ watch' = [watch EXCEPT ![run.n] = [on |-> TRUE, prev |-> CTX]]
    /\ CTX' = 0
    /\ given' = [given EXCEPT ![run.n] = RUN_DIR]
    /\ moved' = moved \cup {n \in {run.n} : RUN_DIR # RUN_ID}
    /\ UNCHANGED <<tr, stopped, CANCEL, chat, objs, ask, request, files, forks, limit, strays,
                   crossed, stopVars, RUN_ID, RUN_DIR, runId, shared>>

(* Variant: an earlier stop request stays set. *)
DiagnoseStopped ==
    /\ run.at = "cleared" /\ run' = [run EXCEPT !.at = "running"]
    /\ CTX' = run.n
    /\ UNCHANGED <<watch, tr, stopped, CANCEL, chat, objs, ask, request, files, forks, histories>>

(* diagnose: CANCEL is cleared, CTX is this run's. *)
Diagnose ==
    /\ run.at = "cleared" /\ run' = [run EXCEPT !.at = "running"]
    /\ CTX' = run.n /\ CANCEL' = FALSE
    /\ UNCHANGED <<watch, tr, stopped, chat, objs, ask, request, files, forks, histories>>

(* The watcher sees a context that is not the one before the run's. *)
Watch(n) ==
    /\ watch[n].on /\ CTX \notin {0, watch[n].prev}
    /\ watch' = [watch EXCEPT ![n].on = FALSE]
    /\ tr' = CTX
    /\ UNCHANGED <<run, stopped, globals, chat, objs, ask, request, files, forks, histories>>

(* The author records something in the context CTX names. *)
Record(author) ==
    strays' = [n \in Runs |-> strays[n] \/ (n = CTX /\ author # CTX)]

(* A model call of the run, recorded where CTX points. *)
RunCall ==
    /\ run.at = "running" /\ ~CANCEL /\ CTX # 0
    /\ Record(run.n)
    /\ UNCHANGED <<runVars, globals, chat, objs, ask, request, files, forks, limit, crossed,
                   others>>

RunCancelled ==
    /\ run.at = "running" /\ CANCEL
    /\ run' = [run EXCEPT !.at = "ending"]
    /\ UNCHANGED <<watch, tr, stopped, globals, chat, objs, ask, request, files, forks, histories>>

(* diagnose raises, or returns: a run of several model calls outlasts the  *)
(* watcher's quarter of a second.                                          *)
RunReturns ==
    /\ run.at = "running"
    /\ \/ run' = [run EXCEPT !.at = "ending"]
       \/ /\ ~watch[run.n].on
          /\ run' = [run EXCEPT !.at = "returned"]
    /\ UNCHANGED <<watch, tr, stopped, globals, chat, objs, ask, request, files, forks, histories>>

(* A finished run whose transcript was found becomes a session, named      *)
(* after the trace that is selected by now.                                *)
RunSession ==
    /\ run.at = "returned" /\ run' = [run EXCEPT !.at = "ending"]
    /\ IF tr # 0 THEN /\ files' = [files EXCEPT ![run.n] = [tr |-> tr, thread |-> <<>>]]
                      /\ runId' = [runId EXCEPT ![run.n] = RUN_ID]
                      /\ chat' = [chat EXCEPT !.sid = run.n, !.obj = 0]
                 ELSE UNCHANGED <<files, runId, chat>>
    /\ UNCHANGED <<watch, tr, stopped, globals, objs, ask, request, forks, limit, strays, crossed,
                   stopVars, RUN_ID, RUN_DIR, given, moved, shared>>

RunEnd ==
    /\ run.at = "ending" /\ run' = [run EXCEPT !.at = "none"]
    /\ UNCHANGED <<watch, tr, stopped, globals, chat, objs, ask, request, files, forks, histories>>

(* live_stop tests for a run, sets CANCEL and then LIVE["stopped"], with   *)
(* no lock: other runs may end and start in between.                       *)
StopTest(t) ==
    /\ stop[t] = "none" /\ Running /\ stop' = [stop EXCEPT ![t] = "tested"]
    /\ UNCHANGED <<runVars, globals, chat, objs, ask, request, files, forks, limit, strays, crossed,
                   hit, traceVars, shared>>

StopSet(t) ==
    /\ stop[t] = "tested" /\ stop' = [stop EXCEPT ![t] = "set"]
    /\ CANCEL' = TRUE /\ hit' = run.n
    /\ UNCHANGED <<runVars, CTX, chat, objs, ask, request, files, forks, limit, strays, crossed,
                   traceVars, shared>>

StopMark(t) ==
    /\ stop[t] = "set" /\ stop' = [stop EXCEPT ![t] = "none"]
    /\ stopped' = TRUE
    /\ UNCHANGED <<run, watch, tr, globals, chat, objs, ask, request, files, forks, limit, strays,
                   crossed, hit, traceVars, shared>>

LiveStop == \E t \in Stops : StopTest(t) \/ StopSet(t) \/ StopMark(t)

(* load_state, for /api/select or a trace that was loaded, one at a time:  *)
(* nobody asks whether a run is going on.                                  *)
SelectTrace ==
    /\ RUN_DIR = RUN_ID
    /\ RUN_ID' \in (1 .. limit.traces) \ {RUN_ID}
    /\ moved' = moved \cup {n \in {run.n} : run.at \in {"cleared", "running", "returned"}}
    /\ UNCHANGED <<runVars, globals, chat, objs, ask, request, files, forks, limit, strays, crossed,
                   stopVars, RUN_DIR, runId, given, shared>>

SelectDirectory ==
    /\ RUN_DIR # RUN_ID /\ RUN_DIR' = RUN_ID
    /\ UNCHANGED <<runVars, globals, chat, objs, ask, request, files, forks, limit, strays, crossed,
                   stopVars, RUN_ID, runId, given, moved, shared>>

Select == SelectTrace \/ SelectDirectory

-----------------------------------------------------------------------------
(* chat_ask tests for a run and a session ... *)
AskChecked(q) ==
    /\ ask[q].at = "new" /\ q <= limit.questions /\ ~Running /\ chat.sid # 0
    /\ \A p \in Questions : p < q => ask[p].at # "new"
    /\ ask' = [ask EXCEPT ![q].at = "checked", ![q].sid = chat.sid]
    /\ crossed' = IF InFlight \cap crossed # {} \/ request # NoRequest
                  THEN crossed \cup {q} ELSE crossed
    /\ UNCHANGED <<runVars, globals, chat, objs, request, files, forks, limit, strays, others>>

(* ... and under CHAT_LOCK that no question is being answered. *)
AskAccepted(q) ==
    /\ ask[q].at = "checked"
    /\ IF chat.busy THEN chat' = chat /\ ask' = [ask EXCEPT ![q].at = "failed"]
       ELSE chat' = [chat EXCEPT !.busy = TRUE] /\ ask' = [ask EXCEPT ![q].at = "accepted"]
    /\ UNCHANGED <<runVars, globals, objs, request, files, forks, histories>>

Stored(s) == IF s = 0 THEN <<>> ELSE files[s].thread

(* work(): without a Chat object, one is made from the session's file. *)
Build(q) ==
    /\ ask[q].at = "accepted" /\ ask' = [ask EXCEPT ![q].at = "built"]
    /\ IF chat.obj = 0 THEN /\ chat' = [chat EXCEPT !.obj = q]
                            /\ objs' = [objs EXCEPT ![q] = Stored(chat.sid)]
                       ELSE UNCHANGED <<chat, objs>>
    /\ UNCHANGED <<runVars, globals, request, files, forks, histories>>

(* Chat.ask: the globals are taken over; without an object it raises. *)
Ask(q) ==
    /\ ask[q].at = "built"
    /\ IF chat.obj = 0
       THEN ask' = [ask EXCEPT ![q].at = "ending"] /\ UNCHANGED <<globals, objs>>
       ELSE /\ ask' = [ask EXCEPT ![q].at = "asking", ![q].obj = chat.obj]
            /\ CTX' = Author(chat.obj) /\ CANCEL' = FALSE
            /\ objs' = [objs EXCEPT ![chat.obj] = Append(@, q)]
    /\ UNCHANGED <<runVars, chat, request, files, forks, histories>>

(* A call for the answer, recorded where CTX points; CTX may be cleared.   *)
AskCall(q) ==
    /\ ask[q].at = "asking"
    /\ IF CANCEL \/ CTX = 0
       THEN ask' = [ask EXCEPT ![q].at = "ending"] /\ UNCHANGED <<strays, objs>>
       ELSE /\ Record(Author(q))
            /\ ask' \in {[ask EXCEPT ![q].at = to] : to \in {"asking", "answered", "ending"}}
            /\ objs' = IF ask'[q].at = "answered"
                       THEN [objs EXCEPT ![ask[q].obj] = Append(@, -q)] ELSE objs
    /\ UNCHANGED <<runVars, globals, chat, request, files, forks, limit, crossed, others>>

(* save_chat: the current object's thread into the current session's file. *)
Saved == IF chat.sid = 0 \/ chat.obj = 0 THEN files
         ELSE IF files[chat.sid].tr = 0 THEN files
         ELSE [files EXCEPT ![chat.sid].thread = objs[chat.obj]]

SaveChat(q) ==
    /\ ask[q].at = "answered" /\ ask' = [ask EXCEPT ![q].at = "over"]
    /\ files' = Saved
    /\ chat' = [chat EXCEPT !.busy = FALSE]
    /\ UNCHANGED <<runVars, globals, objs, request, forks, histories>>

(* Variant: no `finally`. *)
AskFailsBusy(q) ==
    /\ ask[q].at = "ending" /\ ask' = [ask EXCEPT ![q].at = "failed"]
    /\ UNCHANGED <<runVars, globals, chat, objs, request, files, forks, histories>>

(* An exception: nothing is saved. *)
AskFails(q) ==
    /\ ask[q].at = "ending" /\ ask' = [ask EXCEPT ![q].at = "failed"]
    /\ chat' = [chat EXCEPT !.busy = FALSE]
    /\ UNCHANGED <<runVars, globals, objs, request, files, forks, histories>>

-----------------------------------------------------------------------------
There(s) == files[s].tr # 0

Begin(what, s) ==
    /\ request' = [what |-> what, sid |-> s, thread |-> files'[s].thread]
    /\ crossed' = crossed \cup InFlight

(* session_open and code_connect, up to their tests and what they load. *)
Request ==
    /\ request = NoRequest /\ ~chat.busy
    /\ UNCHANGED <<runVars, globals, chat, objs, ask, files, forks, limit, strays, others>>
    /\ \/ \E s \in Sessions : ~Running /\ There(s) /\ Begin("open", s)
       \/ chat.sid # 0 /\ There(chat.sid) /\ Begin("connect", chat.sid)

(* Variant: the chat keeps the object of the session before. *)
SwitchKeepsChat ==
    /\ request.what = "open" /\ request' = NoRequest
    /\ chat' = [chat EXCEPT !.sid = request.sid]
    /\ UNCHANGED <<runVars, globals, objs, ask, files, forks, histories>>

Switch ==
    /\ request.what = "open" /\ request' = NoRequest
    /\ chat' = [chat EXCEPT !.sid = request.sid, !.obj = 0]
    /\ UNCHANGED <<runVars, globals, objs, ask, files, forks, histories>>

(* code_connect: the thread is saved and the object dropped; without an    *)
(* object the session is written as it was loaded.                         *)
Connect ==
    /\ request.what = "connect" /\ request' = NoRequest
    /\ files' = IF chat.obj # 0 THEN Saved
                ELSE [files EXCEPT ![request.sid].thread = request.thread]
    /\ chat' = [chat EXCEPT !.obj = 0]
    /\ UNCHANGED <<runVars, globals, objs, ask, forks, histories>>

(* Variant: the new session is opened without having been written. *)
ForkUnwritten ==
    /\ request = NoRequest /\ ~Running /\ ~chat.busy /\ forks < limit.forks
    /\ forks' = forks + 1
    /\ \E s \in Sessions : There(s)
    /\ UNCHANGED <<runVars, globals, chat, objs, ask, files, limit, strays, others>>
    /\ Begin("open", MaxRuns + forks + 1)

(* session_fork: a copy without its conversation, which is then opened. *)
Fork ==
    /\ request = NoRequest /\ ~Running /\ ~chat.busy /\ forks < limit.forks
    /\ forks' = forks + 1
    /\ \E s \in Sessions :
         /\ There(s)
         /\ files' = [files EXCEPT ![MaxRuns + forks + 1] =
                                       [tr |-> files[s].tr, thread |-> <<>>]]
         /\ runId' = [runId EXCEPT ![MaxRuns + forks + 1] = runId[s]]
    /\ Begin("open", MaxRuns + forks + 1)
    /\ UNCHANGED <<runVars, globals, chat, objs, ask, limit, strays, stopVars, RUN_ID, RUN_DIR,
                   given, moved, shared>>

-----------------------------------------------------------------------------
RunThread == ClearContext \/ Diagnose \/ RunCancelled \/ RunReturns \/ RunSession \/ RunEnd
Answer(q) == AskAccepted(q) \/ Build(q) \/ Ask(q) \/ SaveChat(q) \/ AskFails(q)

Next ==
    \/ LiveStart \/ LiveStop \/ Select \/ RunThread \/ RunCall
    \/ \E n \in Runs : Watch(n)
    \/ \E q \in Questions : AskChecked(q) \/ Answer(q) \/ AskCall(q)
    \/ Request \/ Switch \/ Connect \/ Fork

Spec == Init /\ [][Next]_vars

(* The server's threads are scheduled, and a run or an answer is over      *)
(* after finitely many calls.                                              *)
FairSpec ==
    /\ Spec /\ WF_vars(RunThread)
    /\ \A q \in Questions :
         WF_vars(Answer(q)) /\ SF_vars(AskCall(q) /\ ask'[q].at # "asking")

-----------------------------------------------------------------------------
(* The questions in the file of session s. *)
Asked(s) == {q \in Questions : q \in {files[s].thread[i] : i \in DOMAIN files[s].thread}}

(* "No session ever sees another's", and none loses its own: a question    *)
(* stands in the file of the session it was asked in and in no other, its  *)
(* answer right behind it, and once answered it stays there whatever is    *)
(* opened, forked or connected later.  It holds for questions that neither *)
(* a start of a run nor a request on sessions overlapped: live_start does  *)
(* not ask whether one is being answered, the others ask too early.        *)
ConversationsAreKept ==
    /\ \A s \in Sessions : LET t == files[s].thread IN
           Asked(s) \cap crossed = {} =>
               /\ \A q \in Asked(s) : ask[q].sid = s
               /\ \A i \in DOMAIN t : t[i] < 0 => i > 1 /\ t[i - 1] = -t[i]
    /\ \A q \in Questions \ crossed : ask[q].at = "over" =>
           \E i \in DOMAIN files[ask[q].sid].thread : files[ask[q].sid].thread[i] = -q

(* A session shows its run: the transcript stored with it is the run's,    *)
(* with nothing in it that others recorded, unless a question was in       *)
(* flight when the run started; and the trace it names, the one its chat   *)
(* will be asked about, is the one the run was given, unless another was   *)
(* being selected while the run was going on (live_start does not look at  *)
(* CHAT["busy"], load_state not at LIVE["running"]).                       *)
SessionShowsItsRun ==
    \A n \in Runs : There(n) =>
        /\ n \notin shared => files[n].tr = n /\ ~strays[n]
        /\ n \notin moved => runId[n] = given[n]

(* A stop that was carried out before a run began never ends it, and a run *)
(* that is being cancelled is shown as stopped, or is about to be.  It may *)
(* be cancelled by a stop that was meant for the run before, one that came *)
(* to set CANCEL late.                                                     *)
OldStopEndsNoRun ==
    run.at = "running" /\ CANCEL =>
        hit = run.n /\ (stopped \/ \E t \in Stops : stop[t] = "set")

(* Every run and every question comes to its end and gives its flag back:  *)
(* the server never stays busy.                                            *)
RequestsEnd ==
    /\ []<>~Running /\ []<>~chat.busy
    /\ \A q \in Questions : q \in InFlight ~> q \notin InFlight
=============================================================================
