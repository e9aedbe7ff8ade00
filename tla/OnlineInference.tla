-------------------------- MODULE OnlineInference --------------------------
(***************************************************************************)
(* online_inference.py: a kernel trace is read again and again while LTTng *)
(* still writes it (stream_events_from_bt2), its events are cut into       *)
(* windows per thread (WindowSegmenter), and the windows are scored, by    *)
(* the reading thread itself (run_sync) or by a worker behind a bounded    *)
(* queue that drops its oldest window (run_async).                         *)
(*                                                                         *)
(* An event is its position in the trace; a window is numbered by the      *)
(* order in which windows were completed.  What a window scores, and the   *)
(* encoding it is scored from, are left out.                               *)
(***************************************************************************)
EXTENDS Integers, Sequences, FiniteSets

CONSTANTS Traces,     \* traces to read: sequences of [tid, cpu, at] by time
          Tids,
          Day, Slack, \* a day; how far the clock may step back (3600 s)
          Window, MinEvents, QueueSize,
          Upsets      \* what may go wrong

(* worker: the inference thread dies of an exception.                      *)
(* interrupt: Ctrl-C reaches the reading thread.                           *)
AllUpsets == {"worker", "interrupt"}

ASSUME SizeAssumption == /\ Window \in Nat \ {0} /\ MinEvents \in Nat \ {0}
                         /\ QueueSize \in Nat \ {0}
                         /\ Day \in Nat \ {0} /\ Slack \in Nat
ASSUME UpsetsAssumption == Upsets \subseteq AllUpsets
ASSUME TracesAssumption ==
    \A t \in Traces : t \in Seq([tid : Tids, cpu : Nat, at : Nat])

VARIABLES trace,     \* the trace of this session
          replay,    \* --replay: the trace is finished; one pass
          async,     \* --mode async
          disk,      \* the events LTTng has flushed
          pass,      \* where the pass is: [pos, prev, offset, fresh]
          last,      \* _last_ns
          buf,       \* _buffers: per thread, [event, ns] since its start
          emitted,   \* history: the windows completed so far
          queue,     \* win_queue
          main,      \* the reading thread
          worker,    \* the inference thread
          stop,      \* stop_evt
          hand,      \* the window being scored by the worker, 0 if none
          scored,    \* the windows in Stats.scores, in that order
          gone,      \* history: the windows taken out of the queue unscored
          nDropped   \* Stats.n_dropped

stream == <<disk, pass, last>>
score == <<worker, hand, scored>>
config == <<trace, replay, async>>
vars == <<config, stream, buf, emitted, queue, main, stop, score, gone, nDropped>>

Entries == [event : Nat, ns : Nat]
NewPass == [pos |-> 0, prev |-> -1, offset |-> 0, fresh |-> FALSE]

Mains == {"reading", "put", "drop", "reput", "sleeping", "stopping", "joining",
          "done", "interrupted"}
Workers == {"test", "get", "scoring", "exited", "dead"}

TypeOK ==
    /\ trace \in Traces /\ replay \in BOOLEAN /\ async \in BOOLEAN
    /\ disk \subseteq DOMAIN trace
    /\ pass \in [pos : Nat, prev : Int, offset : Nat, fresh : BOOLEAN]
    /\ last \in Nat
    /\ buf \in [Tids -> Seq(Entries)]
    /\ emitted \in Seq(Seq(Entries))
    /\ queue \in Seq(Nat) /\ Len(queue) <= QueueSize
    /\ main \in Mains /\ worker \in Workers /\ stop \in BOOLEAN
    /\ hand \in Nat /\ scored \in Seq(Nat)
    /\ gone \subseteq Nat /\ nDropped \in Nat

Init ==
    /\ trace \in Traces /\ replay \in BOOLEAN /\ async \in BOOLEAN
    /\ disk = IF replay THEN DOMAIN trace ELSE {}
    /\ pass = NewPass /\ last = 0
    /\ buf = [t \in Tids |-> <<>>] /\ emitted = <<>>
    /\ queue = <<>> /\ stop = FALSE
    /\ main = "reading"
    /\ worker = IF async THEN "test" ELSE "exited"
    /\ hand = 0 /\ scored = <<>> /\ gone = {} /\ nDropped = 0

GoTo(from, to) == main = from /\ main' = to

-----------------------------------------------------------------------------
(* LTTng flushes per CPU: an event reaches the disk after the earlier ones *)
(* of its CPU, and maybe after later ones of another.                      *)
Flush ==
    \E e \in DOMAIN trace \ disk :
        /\ \A d \in 1 .. e - 1 : trace[d].cpu = trace[e].cpu => d \in disk
        /\ disk' = disk \cup {e}
        /\ UNCHANGED <<config, pass, last, buf, emitted, queue, main, stop, score,
                       gone, nDropped>>

Clock(e) == trace[e].at % Day

(* Variant: midnight goes unnoticed. *)
UnwrapNever(e) == pass.offset

(* _day_offset after the line of event e. *)
Unwrap(e) ==
    IF pass.prev >= 0 /\ Clock(e) < pass.prev - Slack THEN pass.offset + Day
                                                      ELSE pass.offset

(* Variant: the last event yielded does not count as seen. *)
SeenBefore(ns) == ns < last

(* Skipped as already yielded. *)
Seen(ns) == ns <= last

(* WindowSegmenter.feed: the event opens the thread's next window. *)
Completes(b, ns) == b # <<>> /\ ns - b[1].ns >= Window

(* The segmenter takes the event; a window with too few events is thrown   *)
(* away.                                                                   *)
Feed(e, ns) ==
    LET t  == trace[e].tid
        ev == [event |-> e, ns |-> ns]
        full == Completes(buf[t], ns)
        window == full /\ Len(buf[t]) >= MinEvents
    IN /\ buf' = [buf EXCEPT ![t] = IF full THEN <<ev>> ELSE Append(@, ev)]
       /\ emitted' = IF window THEN Append(emitted, buf[t]) ELSE emitted
       /\ main' = IF window THEN "put" ELSE "reading"

Unread == {e \in disk : e > pass.pos}

(* The next line babeltrace2 prints. *)
ReadLine ==
    /\ main = "reading"
    /\ \E e \in Unread :
         /\ \A d \in Unread : e <= d
         /\ LET offset == Unwrap(e)
                ns == Clock(e) + offset
                new == ~Seen(ns)
            IN /\ pass' = [pos |-> e, prev |-> Clock(e), offset |-> offset,
                           fresh |-> pass.fresh \/ new]
               /\ last' = IF new THEN ns ELSE last
               /\ IF new THEN Feed(e, ns) ELSE UNCHANGED <<buf, emitted, main>>
    /\ UNCHANGED <<config, disk, queue, stop, score, gone, nDropped>>

(* Variant: a live session is never taken for over. *)
NeverOver == replay

(* One pass of a replay; a live pass without news after earlier ones. *)
SessionOver == replay \/ (~pass.fresh /\ last > 0)

EndPass ==
    /\ main = "reading" /\ Unread = {}
    /\ main' = IF SessionOver THEN "stopping" ELSE "sleeping"
    /\ UNCHANGED <<config, stream, buf, emitted, queue, stop, score, gone, nDropped>>

(* The retry wait is over: the whole trace is read from its start again. *)
NextPass ==
    /\ GoTo("sleeping", "reading")
    /\ pass' = NewPass
    /\ UNCHANGED <<config, disk, last, buf, emitted, queue, stop, score, gone, nDropped>>

-----------------------------------------------------------------------------
(* run_sync: encode, infer, record, on the reading thread. *)
ScoreInline ==
    /\ ~async /\ GoTo("put", "reading")
    /\ scored' = Append(scored, Len(emitted))
    /\ UNCHANGED <<config, stream, buf, emitted, queue, stop, worker, hand, gone, nDropped>>

(* Variant: a full queue takes one more window. *)
PutOneMore ==
    /\ async /\ main = "put"
    /\ IF Len(queue) <= QueueSize
       THEN queue' = Append(queue, Len(emitted)) /\ main' = "reading"
       ELSE queue' = queue /\ main' = "drop"
    /\ UNCHANGED <<config, stream, buf, emitted, stop, score, gone, nDropped>>

(* run_async: put_nowait. *)
Put ==
    /\ async /\ main = "put"
    /\ IF Len(queue) < QueueSize
       THEN queue' = Append(queue, Len(emitted)) /\ main' = "reading"
       ELSE queue' = queue /\ main' = "drop"
    /\ UNCHANGED <<config, stream, buf, emitted, stop, score, gone, nDropped>>

(* Variant: the newest window of the queue makes room. *)
DropNewest ==
    /\ GoTo("drop", "reput")
    /\ IF queue # <<>>
       THEN /\ queue' = SubSeq(queue, 1, Len(queue) - 1)
            /\ gone' = gone \cup {queue[Len(queue)]}
       ELSE UNCHANGED <<queue, gone>>
    /\ nDropped' = nDropped + 1
    /\ UNCHANGED <<config, stream, buf, emitted, stop, score>>

(* On Full: get_nowait, which finds the queue empty when the worker was    *)
(* faster; n_dropped goes up in either case.                               *)
DropOldest ==
    /\ GoTo("drop", "reput")
    /\ IF queue # <<>>
       THEN queue' = Tail(queue) /\ gone' = gone \cup {Head(queue)}
       ELSE UNCHANGED <<queue, gone>>
    /\ nDropped' = nDropped + 1
    /\ UNCHANGED <<config, stream, buf, emitted, stop, score>>

(* Variant: the window that found the queue full is dropped as well. *)
PutNothing ==
    /\ GoTo("reput", "reading")
    /\ UNCHANGED <<config, stream, buf, emitted, queue, stop, score, gone, nDropped>>

(* The second put_nowait; a second Full is passed over in silence. *)
PutAgain ==
    /\ GoTo("reput", "reading")
    /\ queue' = IF Len(queue) < QueueSize THEN Append(queue, Len(emitted)) ELSE queue
    /\ UNCHANGED <<config, stream, buf, emitted, stop, score, gone, nDropped>>

StopWorker ==
    /\ GoTo("stopping", "joining")
    /\ stop' = TRUE
    /\ UNCHANGED <<config, stream, buf, emitted, queue, score, gone, nDropped>>

(* worker.join(), then the final summary. *)
Join ==
    /\ GoTo("joining", "done")
    /\ worker \in {"exited", "dead"}
    /\ UNCHANGED <<config, stream, buf, emitted, queue, stop, score, gone, nDropped>>

Interrupt ==
    /\ "interrupt" \in Upsets /\ main \notin {"done", "interrupted"}
    /\ main' = "interrupted"
    /\ UNCHANGED <<config, stream, buf, emitted, queue, stop, score, gone, nDropped>>

-----------------------------------------------------------------------------
(* `while not stop_evt.is_set() or not win_queue.empty()` ends. *)
WorkerStops == stop /\ queue = <<>>

LoopTest ==
    /\ worker = "test"
    /\ worker' = IF WorkerStops THEN "exited" ELSE "get"
    /\ UNCHANGED <<config, stream, buf, emitted, queue, main, stop, hand, scored, gone,
                   nDropped>>

(* Variant: a stack of windows. *)
GetNewest ==
    /\ worker = "get"
    /\ IF queue # <<>>
       THEN /\ hand' = queue[Len(queue)] /\ worker' = "scoring"
            /\ queue' = SubSeq(queue, 1, Len(queue) - 1)
       ELSE worker' = "test" /\ UNCHANGED <<hand, queue>>
    /\ UNCHANGED <<config, stream, buf, emitted, main, stop, scored, gone, nDropped>>

(* win_queue.get(timeout=0.5): a window, or Empty. *)
Get ==
    /\ worker = "get"
    /\ IF queue # <<>>
       THEN hand' = Head(queue) /\ queue' = Tail(queue) /\ worker' = "scoring"
       ELSE worker' = "test" /\ UNCHANGED <<hand, queue>>
    /\ UNCHANGED <<config, stream, buf, emitted, main, stop, scored, gone, nDropped>>

Score ==
    /\ worker = "scoring" /\ worker' = "test"
    /\ scored' = Append(scored, hand) /\ hand' = 0
    /\ UNCHANGED <<config, stream, buf, emitted, queue, main, stop, gone, nDropped>>

(* An exception in encode_window or run_inference ends the thread. *)
Die ==
    /\ "worker" \in Upsets /\ worker = "scoring" /\ worker' = "dead"
    /\ UNCHANGED <<config, stream, buf, emitted, queue, main, stop, hand, scored, gone,
                   nDropped>>

-----------------------------------------------------------------------------
Reader == ReadLine \/ EndPass \/ NextPass \/ ScoreInline \/ Put \/ DropOldest
          \/ PutAgain \/ StopWorker \/ Join
Inference == LoopTest \/ Get \/ Score

(* The process is over; the worker is a daemon thread. *)
Over == main \in {"done", "interrupted"}
Terminated == Over /\ UNCHANGED vars

Next == Flush \/ Reader \/ Interrupt \/ Inference \/ Die \/ Terminated

Spec == Init /\ [][Next]_vars

(* Both threads are scheduled; LTTng owes nothing. *)
FairSpec == Spec /\ WF_vars(Reader) /\ WF_vars(Inference)

-----------------------------------------------------------------------------
Ranged(s) == {s[i] : i \in DOMAIN s}

(* The window the reading thread still has to hand over. *)
Pending == IF main \in {"put", "drop", "reput"} THEN 1 ELSE 0

(* Windows that left the queue, whatever became of them. *)
Left == Len(emitted) - Pending - Len(queue)

(* However the reader's drop and the worker's get fall, the queue holds    *)
(* the newest windows, in order and without a gap: the drop never takes a  *)
(* window while an older one waits.                                        *)
QueueIsNewest ==
    async /\ main # "interrupted" => \A i \in DOMAIN queue : queue[i] = Left + i

(* What left the queue was scored, is being scored, or was dropped and     *)
(* counted.                                                                *)
Accounted ==
    main # "interrupted" =>
        /\ 1 .. Left = Ranged(scored) \cup gone \cup ({hand} \ {0})
        /\ Cardinality(gone) <= nDropped

(* Nothing is left when the program ends normally, unless the worker died. *)
Drained == main = "done" /\ worker # "dead" => queue = <<>> /\ hand = 0

(* No window is lost in silence: one that left the queue was scored, is    *)
(* being scored, or was dropped and counted in n_dropped; and the program  *)
(* ends normally only when none is left in the queue.                      *)
WindowsConserved == Accounted /\ Drained

(* Scores are recorded once per window and in the windows' order, also     *)
(* across drops.                                                           *)
ScoredInOrder ==
    /\ \A i, j \in DOMAIN scored : i < j => scored[i] < scored[j]
    /\ Ranged(scored) \cap gone = {}

(* A trace the clock of the trace text can be followed through: in the     *)
(* order of time, and after the first day every CPU's events follow one    *)
(* another within a day less the slack.                                    *)
Steady(t) ==
    /\ \A d, e \in DOMAIN t : d <= e => t[d].at <= t[e].at
    /\ \A e \in DOMAIN t :
         \/ t[e].at \div Day = t[1].at \div Day
         \/ \E d \in 1 .. e - 1 : t[d].cpu = t[e].cpu /\ t[e].at - t[d].at < Day - Slack

AllEntries == Ranged(emitted) \cup Ranged(buf)

(* The clock of the trace text carries no date: the times the windows are  *)
(* cut by still are the true ones, also past midnight and in a pass that   *)
(* starts over on the day before, and a pass that has yielded is never     *)
(* ahead of what it has read nor behind it.                                *)
TimesAreTrue ==
    LET True(e) == trace[e].at - (trace[1].at \div Day) * Day
    IN /\ \A w \in AllEntries : \A x \in Ranged(w) : x.ns = True(x.event)
       /\ pass.pos # 0 /\ (replay \/ pass.fresh) => last = True(pass.pos)

(* A window is one thread's, spans less than the window length and has the *)
(* events a score needs; and although every live pass reads the trace from *)
(* its start, no event is in two windows or twice in one.                  *)
WindowsAreWindows ==
    LET Events(w) == {x.event : x \in Ranged(w)}
    IN /\ \A w \in Ranged(emitted) :
             /\ \A x, y \in Ranged(w) : /\ trace[x.event].tid = trace[y.event].tid
                                        /\ trace[x.event].at - trace[y.event].at < Window
             /\ Len(w) >= MinEvents
       /\ \A w \in AllEntries : \A i, j \in DOMAIN w : i < j => w[i].event < w[j].event
       /\ \A k \in DOMAIN emitted :
             /\ \A t \in Tids : Events(buf[t]) \cap Events(emitted[k]) = {}
             /\ \A l \in DOMAIN emitted \ {k} : Events(emitted[l]) \cap Events(emitted[k]) = {}

(* A session with any event on disk ends, whether or not the worker lives: *)
(* a live one by the first pass without news.                              *)
SessionEnds == disk # {} ~> Over
=============================================================================
