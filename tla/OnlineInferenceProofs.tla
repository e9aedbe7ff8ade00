----------------------- MODULE OnlineInferenceProofs -----------------------
(***************************************************************************)
(* Proofs about OnlineInference, for any traces, window and queue sizes:   *)
(* the state is well typed, the queue holds the newest windows, every      *)
(* window is scored, dropped or waiting, and scores are in order; and for  *)
(* steady traces that the times are the true ones and the windows proper.  *)
(***************************************************************************)
EXTENDS OnlineInference, SequenceTheorems, FiniteSetTheorems, TLAPS

LEMMA Appended ==
    ASSUME NEW S, NEW q \in Seq(S), NEW v \in S
    PROVE  /\ Append(q, v) \in Seq(S) /\ Len(Append(q, v)) = Len(q) + 1 /\ Len(q) \in Nat
           /\ \A i \in 1 .. Len(q) : Append(q, v)[i] = q[i]
           /\ Append(q, v)[Len(q) + 1] = v
           /\ DOMAIN Append(q, v) = 1 .. Len(q) + 1 /\ DOMAIN q = 1 .. Len(q)
BY AppendProperties

LEMMA Taken ==
    ASSUME NEW S, NEW q \in Seq(S), q # <<>>
    PROVE  /\ Tail(q) \in Seq(S) /\ Len(Tail(q)) = Len(q) - 1 /\ Len(q) \in Nat \ {0}
           /\ \A i \in 1 .. Len(q) - 1 : Tail(q)[i] = q[i + 1]
           /\ Head(q) = q[1] /\ Head(q) \in S
           /\ DOMAIN Tail(q) = 1 .. Len(q) - 1 /\ DOMAIN q = 1 .. Len(q)
BY HeadTailProperties

LEMMA TypeInit == Init => TypeOK
<1> SUFFICES ASSUME Init PROVE TypeOK
  OBVIOUS
<1>1. disk \subseteq DOMAIN trace
  BY DEF Init
<1>2. pass \in [pos : Nat, prev : Int, offset : Nat, fresh : BOOLEAN]
  BY DEF Init, NewPass
<1>3. emitted \in Seq(Seq(Entries)) /\ buf \in [Tids -> Seq(Entries)]
  BY EmptySeq DEF Init
<1>4. queue \in Seq(Nat) /\ Len(queue) <= QueueSize /\ scored \in Seq(Nat)
  BY SizeAssumption DEF Init
<1>5. main \in Mains /\ worker \in Workers
  BY DEF Init, Mains, Workers
<1> QED
  BY <1>1, <1>2, <1>3, <1>4, <1>5 DEF Init, TypeOK

(* What is read of the trace. *)
LEMMA TraceFacts ==
    ASSUME TypeOK, NEW e \in DOMAIN trace
    PROVE  /\ e \in Nat /\ trace[e].tid \in Tids /\ trace[e].at \in Nat
           /\ Clock(e) \in Nat /\ Unwrap(e) \in Nat
<1>1. trace \in Seq([tid : Tids, cpu : Nat, at : Nat])
  BY TracesAssumption DEF TypeOK
<1>2. e \in Nat /\ trace[e] \in [tid : Tids, cpu : Nat, at : Nat]
  <2> DEFINE S == [tid : Tids, cpu : Nat, at : Nat]
  <2>1. trace \in Seq(S)
    BY <1>1
  <2> HIDE DEF S
  <2>2. DOMAIN trace = 1 .. Len(trace) /\ Len(trace) \in Nat
    BY <2>1, LenProperties
  <2>3. trace[e] \in S
    BY <2>1, <2>2, ElementOfSeq
  <2> QED
    BY <2>2, <2>3 DEF S
<1>3. Clock(e) \in Nat
  BY <1>2, SizeAssumption DEF Clock
<1>4. Unwrap(e) \in Nat
  BY <1>3, SizeAssumption DEF TypeOK, Unwrap
<1> QED
  BY <1>2, <1>3, <1>4

LEMMA TypeReadLine == ASSUME TypeOK, ReadLine PROVE TypeOK'
<1>1. PICK e \in Unread :
        LET offset == Unwrap(e)
            ns == Clock(e) + offset
            new == ~Seen(ns)
        IN /\ pass' = [pos |-> e, prev |-> Clock(e), offset |-> offset,
                       fresh |-> pass.fresh \/ new]
           /\ last' = IF new THEN ns ELSE last
           /\ IF new THEN Feed(e, ns) ELSE UNCHANGED <<buf, emitted, main>>
  BY DEF ReadLine
<1> DEFINE offset == Unwrap(e)
           ns == Clock(e) + offset
           new == ~Seen(ns)
<1>2. e \in DOMAIN trace
  BY DEF Unread, TypeOK
<1>3. e \in Nat /\ trace[e].tid \in Tids /\ Clock(e) \in Nat /\ offset \in Nat /\ ns \in Nat
  BY <1>2, TraceFacts
<1>4. pass' \in [pos : Nat, prev : Int, offset : Nat, fresh : BOOLEAN]
  <2>1. pass' = [pos |-> e, prev |-> Clock(e), offset |-> offset, fresh |-> pass.fresh \/ new]
    BY <1>1
  <2>2. (pass.fresh \/ new) \in BOOLEAN
    OBVIOUS
  <2> HIDE DEF offset, ns, new
  <2> QED
    BY <1>3, <2>1, <2>2
<1>5. last' \in Nat
  BY <1>1, <1>3 DEF TypeOK
<1>6. buf' \in [Tids -> Seq(Entries)] /\ emitted' \in Seq(Seq(Entries)) /\ main' \in Mains
  <2>1. CASE new
    <3> DEFINE t == trace[e].tid
               ev == [event |-> e, ns |-> ns]
               full == Completes(buf[t], ns)
               window == full /\ Len(buf[t]) >= MinEvents
    <3>1. /\ buf' = [buf EXCEPT ![t] = IF full THEN <<ev>> ELSE Append(@, ev)]
          /\ emitted' = IF window THEN Append(emitted, buf[t]) ELSE emitted
          /\ main' = IF window THEN "put" ELSE "reading"
      BY <1>1, <2>1 DEF Feed
    <3>2. ev \in Entries /\ t \in Tids
      BY <1>3 DEF Entries
    <3>3. buf[t] \in Seq(Entries) /\ emitted \in Seq(Seq(Entries)) /\ buf \in [Tids -> Seq(Entries)]
      BY <3>2 DEF TypeOK
    <3> HIDE DEF ev, t, full, window
    <3>4. <<ev>> \in Seq(Entries) /\ Append(buf[t], ev) \in Seq(Entries)
      BY <3>2, <3>3
    <3>5. Append(emitted, buf[t]) \in Seq(Seq(Entries))
      BY <3>3
    <3> QED
      BY <3>1, <3>2, <3>3, <3>4, <3>5 DEF Mains
  <2>2. CASE ~new
    BY <1>1, <2>2 DEF TypeOK
  <2> QED
    BY <2>1, <2>2
<1> QED
  BY <1>4, <1>5, <1>6 DEF ReadLine, TypeOK, config, score

LEMMA TypeQueue ==
    ASSUME TypeOK, ScoreInline \/ Put \/ DropOldest \/ PutAgain
    PROVE  TypeOK'
<1>1. Len(emitted) \in Nat /\ queue \in Seq(Nat) /\ scored \in Seq(Nat) /\ Len(queue) <= QueueSize
      /\ Len(queue) \in Nat
  BY DEF TypeOK
<1>2. CASE ScoreInline
  <2>1. scored' \in Seq(Nat)
    BY <1>1, <1>2 DEF ScoreInline
  <2> QED
    BY <1>2, <2>1 DEF TypeOK, ScoreInline, GoTo, Mains, config, stream
<1>3. CASE Put
  <2>1. queue' \in Seq(Nat) /\ Len(queue') <= QueueSize
    <3>1. CASE Len(queue) < QueueSize
      <4>1. queue' = Append(queue, Len(emitted))
        BY <1>3, <3>1 DEF Put
      <4>2. queue' \in Seq(Nat) /\ Len(queue') = Len(queue) + 1
        BY <1>1, <4>1, Appended
      <4> QED
        BY <1>1, <3>1, <4>2, SizeAssumption
    <3>2. CASE ~(Len(queue) < QueueSize)
      BY <1>1, <1>3, <3>2 DEF Put
    <3> QED
      BY <3>1, <3>2
  <2>2. main' \in Mains
    BY <1>3 DEF Put, Mains
  <2> QED
    BY <1>3, <2>1, <2>2 DEF TypeOK, Put, config, stream, score
<1>4. CASE DropOldest
  <2>1. queue' \in Seq(Nat) /\ Len(queue') <= QueueSize /\ gone' \subseteq Nat
    <3>1. CASE queue # <<>>
      <4>1. queue' = Tail(queue) /\ gone' = gone \cup {Head(queue)}
        BY <1>4, <3>1 DEF DropOldest
      <4>2. queue' \in Seq(Nat) /\ Len(queue') = Len(queue) - 1 /\ Head(queue) \in Nat
        BY <1>1, <3>1, <4>1, Taken
      <4> QED
        <5>1. gone' \subseteq Nat
          BY <4>1, <4>2 DEF TypeOK
        <5>2. Len(queue') <= QueueSize
          BY <1>1, <4>2, SizeAssumption
        <5> QED
          BY <4>2, <5>1, <5>2
    <3>2. CASE queue = <<>>
      BY <1>1, <1>4, <3>2 DEF DropOldest, TypeOK
    <3> QED
      BY <3>1, <3>2
  <2>2. main' \in Mains /\ nDropped' \in Nat
    BY <1>4 DEF DropOldest, GoTo, Mains, TypeOK
  <2> QED
    BY <1>4, <2>1, <2>2 DEF TypeOK, DropOldest, config, stream, score
<1>5. CASE PutAgain
  <2>1. queue' \in Seq(Nat) /\ Len(queue') <= QueueSize
    <3>1. CASE Len(queue) < QueueSize
      <4>1. queue' = Append(queue, Len(emitted))
        BY <1>5, <3>1 DEF PutAgain
      <4>2. queue' \in Seq(Nat) /\ Len(queue') = Len(queue) + 1
        BY <1>1, <4>1, Appended
      <4> QED
        BY <1>1, <3>1, <4>2, SizeAssumption
    <3>2. CASE ~(Len(queue) < QueueSize)
      BY <1>1, <1>5, <3>2 DEF PutAgain
    <3> QED
      BY <3>1, <3>2
  <2>2. main' \in Mains
    BY <1>5 DEF PutAgain, GoTo, Mains
  <2> QED
    BY <1>5, <2>1, <2>2 DEF TypeOK, PutAgain, config, stream, score
<1> QED
  BY <1>2, <1>3, <1>4, <1>5

LEMMA TypeReader ==
    ASSUME TypeOK, Flush \/ EndPass \/ NextPass \/ StopWorker \/ Join \/ Interrupt
    PROVE  TypeOK'
<1>1. CASE Flush
  BY <1>1 DEF TypeOK, Flush, config, score
<1>2. CASE EndPass
  BY <1>2 DEF TypeOK, EndPass, Mains, config, stream, score
<1>3. CASE NextPass
  BY <1>3 DEF TypeOK, NextPass, NewPass, GoTo, Mains, config, score
<1>4. CASE StopWorker
  BY <1>4 DEF TypeOK, StopWorker, GoTo, Mains, config, stream, score
<1>5. CASE Join
  BY <1>5 DEF TypeOK, Join, GoTo, Mains, config, stream, score
<1>6. CASE Interrupt
  BY <1>6 DEF TypeOK, Interrupt, Mains, config, stream, score
<1> QED
  BY <1>1, <1>2, <1>3, <1>4, <1>5, <1>6

LEMMA TypeWorker ==
    ASSUME TypeOK, LoopTest \/ Get \/ Score \/ Die
    PROVE  TypeOK'
<1>1. CASE LoopTest
  BY <1>1 DEF TypeOK, LoopTest, Workers, config, stream
<1>2. CASE Get
  <2>1. queue' \in Seq(Nat) /\ Len(queue') <= QueueSize /\ hand' \in Nat
    <3>1. CASE queue # <<>>
      <4>1. queue' = Tail(queue) /\ hand' = Head(queue)
        BY <1>2, <3>1 DEF Get
      <4>2. queue' \in Seq(Nat) /\ Len(queue') = Len(queue) - 1 /\ Head(queue) \in Nat
            /\ Len(queue) \in Nat /\ Len(queue) <= QueueSize
        BY <3>1, <4>1, Taken DEF TypeOK
      <4> QED
        BY <4>1, <4>2, SizeAssumption
    <3>2. CASE queue = <<>>
      BY <1>2, <3>2 DEF Get, TypeOK
    <3> QED
      BY <3>1, <3>2
  <2> QED
    BY <1>2, <2>1 DEF TypeOK, Get, Workers, config, stream
<1>3. CASE Score
  BY <1>3, Appended DEF TypeOK, Score, Workers, config, stream
<1>4. CASE Die
  BY <1>4 DEF TypeOK, Die, Workers, config, stream
<1> QED
  BY <1>1, <1>2, <1>3, <1>4

LEMMA TypeStep == ASSUME TypeOK, [Next]_vars PROVE TypeOK'
<1>1. CASE UNCHANGED vars
  BY <1>1 DEF TypeOK, vars, config, stream, score
<1> QED
  BY <1>1, TypeReadLine, TypeQueue, TypeReader, TypeWorker
  DEF Next, Reader, Inference, Terminated

(* The state is well typed; the queue never exceeds its size. *)
THEOREM TypeCorrect == Spec => []TypeOK
BY TypeInit, TypeStep, PTL DEF Spec

-----------------------------------------------------------------------------
(* Windows the reading thread has handed over, to the queue or to nobody.  *)
Handed == Len(emitted) - Pending

(* What the threads' program counters say about the queue.                 *)
Counters ==
    /\ main = "reput" => Len(queue) < QueueSize
    /\ ~async => /\ queue = <<>> /\ hand = 0 /\ worker = "exited"
                 /\ main \notin {"drop", "reput"}
    /\ worker \in {"test", "get", "exited"} => hand = 0
    /\ worker \in {"scoring", "dead"} => hand # 0

Room ==
    /\ Counters
    /\ Len(queue) <= Handed
    /\ \A i \in DOMAIN queue : queue[i] # 0

(* All that a step can do to the windows.                                  *)
Quiet ==
    /\ UNCHANGED <<queue, hand, scored, gone>> /\ nDropped' >= nDropped
    /\ Handed' = Handed \/ (main' = "interrupted" /\ Handed' >= Handed)

Offers ==
    /\ queue' = Append(queue, Handed + 1) /\ Handed' = Handed + 1
    /\ UNCHANGED <<hand, scored, gone, nDropped>>

Drops ==
    /\ queue # <<>> /\ queue' = Tail(queue) /\ gone' = gone \cup {Head(queue)}
    /\ nDropped' = nDropped + 1 /\ Handed' = Handed
    /\ UNCHANGED <<hand, scored>>

Takes ==
    /\ queue # <<>> /\ queue' = Tail(queue) /\ hand = 0 /\ hand' = Head(queue)
    /\ Handed' = Handed
    /\ UNCHANGED <<scored, gone, nDropped>>

Records ==
    /\ hand # 0 /\ hand' = 0 /\ scored' = Append(scored, hand)
    /\ Handed' = Handed
    /\ UNCHANGED <<queue, gone, nDropped>>

Inlines ==
    /\ queue = <<>> /\ hand = 0 /\ scored' = Append(scored, Handed + 1)
    /\ Handed' = Handed + 1
    /\ UNCHANGED <<queue, hand, gone, nDropped>>

Effect ==
    /\ Quiet \/ Offers \/ Drops \/ Takes \/ Records \/ Inlines
    /\ main = "interrupted" => main' = "interrupted"

LEMMA HandedType == TypeOK => Handed \in Int /\ Len(emitted) \in Nat /\ Len(queue) \in Nat
BY DEF TypeOK, Handed, Pending

LEMMA EffectReadLine == ASSUME TypeOK, ReadLine PROVE Quiet /\ main # "interrupted"
<1>1. UNCHANGED <<queue, hand, scored, gone, nDropped>> /\ main = "reading" /\ nDropped \in Nat
  BY DEF ReadLine, score, TypeOK
<1>2. PICK e \in DOMAIN trace :
        \/ UNCHANGED <<buf, emitted, main>>
        \/ Feed(e, Clock(e) + Unwrap(e))
  BY DEF ReadLine, Unread, TypeOK
<1>3. \/ emitted' = emitted /\ main' = "reading"
      \/ \E b \in Seq(Entries) : emitted' = Append(emitted, b) /\ main' = "put"
  <2>1. trace[e].tid \in Tids
    BY TraceFacts
  <2>2. buf[trace[e].tid] \in Seq(Entries)
    BY <2>1 DEF TypeOK
  <2> QED
    BY <1>1, <1>2, <2>2 DEF Feed
<1>4. emitted \in Seq(Seq(Entries))
  BY DEF TypeOK
<1>5. Handed' = Handed
  <2>1. CASE emitted' = emitted /\ main' = "reading"
    BY <1>1, <2>1 DEF Handed, Pending
  <2>2. ASSUME NEW b \in Seq(Entries), emitted' = Append(emitted, b), main' = "put"
        PROVE  Handed' = Handed
    <3>1. Len(emitted') = Len(emitted) + 1 /\ Len(emitted) \in Nat
      BY <1>4, <2>2, Appended
    <3> QED
      BY <1>1, <2>2, <3>1 DEF Handed, Pending
  <2> QED
    BY <1>3, <2>1, <2>2
<1> QED
  BY <1>1, <1>5 DEF Quiet

LEMMA EffectQueue ==
    ASSUME TypeOK, Room, ScoreInline \/ Put \/ DropOldest \/ PutAgain
    PROVE  Effect /\ main # "interrupted"
<1>1. Len(emitted) \in Nat /\ nDropped \in Nat
  BY DEF TypeOK
<1>2. CASE ScoreInline
  <2>1. /\ ~async /\ main = "put" /\ main' = "reading" /\ emitted' = emitted
        /\ scored' = Append(scored, Len(emitted))
        /\ UNCHANGED <<queue, hand, gone, nDropped>>
    BY <1>2 DEF ScoreInline, GoTo
  <2>2. Len(emitted) = Handed + 1 /\ Handed' = Handed + 1
    BY <1>1, <2>1 DEF Handed, Pending
  <2>3. Inlines
    BY <2>1, <2>2 DEF Inlines, Room, Counters
  <2> QED
    BY <2>1, <2>3 DEF Effect
<1>3. CASE Put
  <2>1. main = "put" /\ emitted' = emitted /\ UNCHANGED <<hand, scored, gone, nDropped>>
    BY <1>3 DEF Put, score
  <2>2. CASE Len(queue) < QueueSize
    <3>1. queue' = Append(queue, Len(emitted)) /\ main' = "reading"
      BY <1>3, <2>2 DEF Put
    <3>2. Len(emitted) = Handed + 1 /\ Handed' = Handed + 1
      BY <1>1, <2>1, <3>1 DEF Handed, Pending
    <3> QED
      BY <2>1, <3>1, <3>2 DEF Effect, Offers
  <2>3. CASE ~(Len(queue) < QueueSize)
    <3>1. queue' = queue /\ main' = "drop"
      BY <1>3, <2>3 DEF Put
    <3> QED
      BY <1>1, <2>1, <3>1 DEF Effect, Quiet, Handed, Pending
  <2> QED
    BY <2>2, <2>3
<1>4. CASE DropOldest
  <2>1. /\ main = "drop" /\ main' = "reput" /\ emitted' = emitted
        /\ UNCHANGED <<hand, scored>> /\ nDropped' = nDropped + 1
    BY <1>4 DEF DropOldest, GoTo, score
  <2>2. Handed' = Handed
    BY <2>1 DEF Handed, Pending
  <2>3. CASE queue # <<>>
    BY <1>4, <2>1, <2>2, <2>3 DEF DropOldest, Effect, Drops
  <2>4. CASE queue = <<>>
    BY <1>1, <1>4, <2>1, <2>2, <2>4 DEF DropOldest, Effect, Quiet
  <2> QED
    BY <2>3, <2>4
<1>5. CASE PutAgain
  <2>1. /\ main = "reput" /\ main' = "reading" /\ emitted' = emitted
        /\ UNCHANGED <<hand, scored, gone, nDropped>>
        /\ queue' = Append(queue, Len(emitted))
    BY <1>5 DEF PutAgain, GoTo, score, Room, Counters
  <2>2. Len(emitted) = Handed + 1 /\ Handed' = Handed + 1
    BY <1>1, <2>1 DEF Handed, Pending
  <2> QED
    BY <2>1, <2>2 DEF Effect, Offers
<1> QED
  BY <1>2, <1>3, <1>4, <1>5

LEMMA EffectReader ==
    ASSUME TypeOK, Flush \/ EndPass \/ NextPass \/ StopWorker \/ Join \/ Interrupt
    PROVE  Effect
<1>1. /\ UNCHANGED <<emitted, queue, hand, scored, gone, nDropped>>
      /\ nDropped \in Nat /\ Len(emitted) \in Nat
  BY DEF Flush, EndPass, NextPass, StopWorker, Join, Interrupt, score, TypeOK
<1>2. \/ main' = main
      \/ main \notin {"put", "drop", "reput", "interrupted"} /\ main' \notin {"put", "drop", "reput"}
      \/ main' = "interrupted"
  BY DEF Flush, EndPass, NextPass, StopWorker, Join, Interrupt, GoTo
<1>3. Handed' = Handed \/ (main' = "interrupted" /\ Handed' >= Handed)
  BY <1>1, <1>2 DEF Handed, Pending
<1> QED
  BY <1>1, <1>2, <1>3 DEF Effect, Quiet

LEMMA EffectWorker ==
    ASSUME TypeOK, Room, LoopTest \/ Get \/ Score \/ Die
    PROVE  Effect
<1>1. UNCHANGED <<emitted, main, gone, nDropped>> /\ nDropped \in Nat
  BY DEF LoopTest, Get, Score, Die, TypeOK
<1>2. Handed' = Handed
  BY <1>1 DEF Handed, Pending
<1>3. CASE LoopTest \/ Die
  BY <1>1, <1>2, <1>3 DEF LoopTest, Die, Effect, Quiet
<1>4. CASE Get
  <2>1. hand = 0 /\ scored' = scored
    BY <1>4 DEF Get, Room, Counters
  <2>2. CASE queue # <<>>
    BY <1>1, <1>2, <1>4, <2>1, <2>2 DEF Get, Effect, Takes
  <2>3. CASE queue = <<>>
    BY <1>1, <1>2, <1>4, <2>1, <2>3 DEF Get, Effect, Quiet
  <2> QED
    BY <2>2, <2>3
<1>5. CASE Score
  BY <1>1, <1>2, <1>5 DEF Score, Room, Counters, Effect, Records
<1> QED
  BY <1>3, <1>4, <1>5

LEMMA EveryEffect == ASSUME TypeOK, Room, [Next]_vars PROVE Effect
<1>1. CASE UNCHANGED vars
  <2>1. UNCHANGED <<emitted, main, queue, hand, scored, gone, nDropped>> /\ nDropped \in Nat
    BY <1>1 DEF vars, score, TypeOK
  <2> QED
    BY <2>1 DEF Effect, Quiet, Handed, Pending
<1>2. CASE ReadLine
  BY <1>2, EffectReadLine DEF Effect
<1> QED
  BY <1>1, <1>2, EffectQueue, EffectReader, EffectWorker
  DEF Next, Reader, Inference, Terminated

-----------------------------------------------------------------------------
(* The strengthenings of the three properties, by what a step may do.      *)
Newest ==
    main # "interrupted" => \A i \in DOMAIN queue : queue[i] = Handed - Len(queue) + i

(* Every window that left the queue.                                       *)
Older == Ranged(scored) \cup gone \cup {hand}

Ordered ==
    /\ \A i, j \in DOMAIN queue : i < j => queue[i] < queue[j]
    /\ \A j \in DOMAIN queue : queue[j] <= Handed /\ \A x \in Older : x < queue[j]
    /\ \A x \in Older : x <= Handed
    /\ hand # 0 => hand \notin gone /\ \A x \in Ranged(scored) : x < hand
    /\ ScoredInOrder

Conserved ==
    /\ Accounted
    /\ IsFiniteSet(gone) /\ Cardinality(gone) <= nDropped

LEMMA RangedAppended ==
    ASSUME NEW S, NEW s \in Seq(S), NEW v \in S
    PROVE  Ranged(Append(s, v)) = Ranged(s) \cup {v}
<1>1. DOMAIN Append(s, v) = 1 .. Len(s) + 1 /\ DOMAIN s = 1 .. Len(s) /\ Len(s) \in Nat
  BY Appended
<1>2. \A i \in 1 .. Len(s) : Append(s, v)[i] = s[i]
  BY Appended
<1>3. Append(s, v)[Len(s) + 1] = v
  BY Appended
<1>4. 1 .. Len(s) + 1 = (1 .. Len(s)) \cup {Len(s) + 1}
  BY <1>1
<1> QED
  BY <1>1, <1>2, <1>3, <1>4 DEF Ranged

(* A queue that loses its head, or gets a new end. *)
LEMMA QueueTail ==
    ASSUME TypeOK, queue # <<>>, queue' = Tail(queue)
    PROVE  /\ Len(queue') = Len(queue) - 1 /\ Len(queue) \in Nat \ {0}
           /\ DOMAIN queue' = 1 .. Len(queue) - 1 /\ DOMAIN queue = 1 .. Len(queue)
           /\ \A i \in DOMAIN queue' : queue'[i] = queue[i + 1] /\ i + 1 \in DOMAIN queue
           /\ Head(queue) = queue[1] /\ 1 \in DOMAIN queue
<1>1. queue \in Seq(Nat)
  BY DEF TypeOK
<1>2. /\ Len(queue') = Len(queue) - 1 /\ Len(queue) \in Nat \ {0}
      /\ DOMAIN queue' = 1 .. Len(queue) - 1 /\ DOMAIN queue = 1 .. Len(queue)
      /\ \A i \in 1 .. Len(queue) - 1 : queue'[i] = queue[i + 1]
      /\ Head(queue) = queue[1]
  BY <1>1, Taken
<1> QED
  BY <1>2

LEMMA QueueEnd ==
    ASSUME TypeOK, NEW v \in Nat, queue' = Append(queue, v)
    PROVE  /\ Len(queue') = Len(queue) + 1 /\ Len(queue) \in Nat
           /\ DOMAIN queue' = 1 .. Len(queue) + 1 /\ DOMAIN queue = 1 .. Len(queue)
           /\ \A i \in DOMAIN queue : queue'[i] = queue[i]
           /\ queue'[Len(queue) + 1] = v
<1>1. queue \in Seq(Nat)
  BY DEF TypeOK
<1> QED
  BY <1>1, Appended

LEMMA RoomQueue ==
    ASSUME TypeOK, TypeOK', Room, Effect
    PROVE  Len(queue') <= Handed' /\ \A i \in DOMAIN queue' : queue'[i] # 0
<1>1. Len(queue) <= Handed /\ Handed \in Nat /\ Len(queue) \in Nat
      /\ \A i \in DOMAIN queue : queue[i] # 0
  BY HandedType DEF Room
<1>2. CASE Quiet
  <2>1. Handed' \in Int
    BY DEF TypeOK, Handed, Pending
  <2>2. queue' = queue /\ Handed' >= Handed
    BY <1>1, <1>2 DEF Quiet
  <2> HIDE DEF Handed
  <2> QED
    BY <1>1, <2>1, <2>2
<1>3. CASE Offers
  <2>1. Handed + 1 \in Nat /\ Handed + 1 # 0
    BY <1>1
  <2>2. /\ Len(queue') = Len(queue) + 1 /\ DOMAIN queue' = 1 .. Len(queue) + 1
        /\ DOMAIN queue = 1 .. Len(queue)
        /\ \A i \in DOMAIN queue : queue'[i] = queue[i]
        /\ queue'[Len(queue) + 1] = Handed + 1
    BY <1>3, <2>1, QueueEnd DEF Offers
  <2>3. \A i \in DOMAIN queue' : i \in DOMAIN queue \/ i = Len(queue) + 1
    BY <1>1, <2>2
  <2> QED
    BY <1>1, <1>3, <2>1, <2>2, <2>3 DEF Offers
<1>4. CASE Drops \/ Takes
  <2>1. queue # <<>> /\ queue' = Tail(queue) /\ Handed' = Handed
    BY <1>4 DEF Drops, Takes
  <2> QED
    BY <1>1, <2>1, QueueTail
<1>5. CASE Records
  BY <1>1, <1>5 DEF Records
<1>6. CASE Inlines
  BY <1>1, <1>6 DEF Inlines
<1> QED
  BY <1>2, <1>3, <1>4, <1>5, <1>6 DEF Effect

LEMMA CountersStep == ASSUME TypeOK, TypeOK', Room, [Next]_vars PROVE Counters'
<1>2. Counters
  BY DEF Room
<1>3. CASE UNCHANGED vars
  BY <1>2, <1>3 DEF Counters, vars, config, score
<1>4. CASE ReadLine
  <2>1. main' \in {"reading", "put"} /\ UNCHANGED <<queue, async, hand, worker>>
    BY <1>4 DEF ReadLine, Feed, config, score
  <2> QED
    BY <1>2, <2>1 DEF Counters
<1>5. CASE Flush \/ EndPass \/ NextPass \/ StopWorker \/ Join \/ Interrupt
  <2>1. UNCHANGED <<queue, async, hand, worker>>
    BY <1>5 DEF Flush, EndPass, NextPass, StopWorker, Join, Interrupt, config, score
  <2>2. main' = main \/ main' \notin {"drop", "reput"}
    BY <1>5 DEF Flush, EndPass, NextPass, StopWorker, Join, Interrupt, GoTo
  <2> QED
    BY <1>2, <2>1, <2>2 DEF Counters
<1>6. CASE ScoreInline \/ Put \/ PutAgain
  <2>1. UNCHANGED <<async, hand, worker>> /\ (async \/ ScoreInline)
    BY <1>2, <1>6 DEF Counters, ScoreInline, Put, PutAgain, GoTo, config, score
  <2>2. main' \in {"reading", "drop"} /\ (ScoreInline => main' = "reading" /\ queue' = queue)
    BY <1>6 DEF ScoreInline, Put, PutAgain, GoTo
  <2> QED
    BY <1>2, <2>1, <2>2 DEF Counters
<1>7. CASE DropOldest
  <2>1. async /\ UNCHANGED <<async, hand, worker>>
    BY <1>2, <1>7 DEF Counters, DropOldest, GoTo, config, score
  <2>2. Len(queue') < QueueSize
    <3>1. CASE queue # <<>>
      <4>1. queue' = Tail(queue)
        BY <1>7, <3>1 DEF DropOldest
      <4>2. Len(queue') = Len(queue) - 1 /\ Len(queue) \in Nat /\ Len(queue) <= QueueSize
        BY <3>1, <4>1, QueueTail DEF TypeOK
      <4> QED
        BY <4>2, SizeAssumption
    <3>2. CASE queue = <<>>
      <4>1. queue' = <<>> /\ Len(<<>>) = 0
        BY <1>7, <3>2 DEF DropOldest
      <4> QED
        BY <4>1, SizeAssumption
    <3> QED
      BY <3>1, <3>2
  <2> QED
    BY <1>2, <2>1, <2>2 DEF Counters
<1>8. CASE LoopTest \/ Score \/ Die
  <2>1. UNCHANGED <<async, queue, main>> /\ worker \in {"test", "scoring"}
    BY <1>8 DEF LoopTest, Score, Die, config
  <2>2. \/ worker' \in {"test", "get", "exited"} /\ hand' = 0
        \/ worker' = "dead" /\ hand' = hand /\ hand # 0
    BY <1>2, <1>8 DEF Counters, LoopTest, Score, Die
  <2> QED
    BY <1>2, <2>1, <2>2 DEF Counters
<1>9. CASE Get
  <2>1. async /\ UNCHANGED <<async, main>>
    BY <1>2, <1>9 DEF Counters, Get, config
  <2>2. CASE queue # <<>>
    <3>1. queue' = Tail(queue) /\ hand' = Head(queue) /\ worker' = "scoring"
      BY <1>9, <2>2 DEF Get
    <3>2. Len(queue') = Len(queue) - 1 /\ Len(queue) \in Nat /\ Head(queue) # 0
      BY <2>2, <3>1, QueueTail DEF Room
    <3> QED
      BY <1>2, <2>1, <3>1, <3>2, SizeAssumption DEF Counters
  <2>3. CASE queue = <<>>
    BY <1>2, <1>9, <2>1, <2>3 DEF Counters, Get
  <2> QED
    BY <2>2, <2>3
<1> QED
  BY <1>3, <1>4, <1>5, <1>6, <1>7, <1>8, <1>9 DEF Next, Reader, Inference, Terminated

LEMMA RoomStep == ASSUME TypeOK, TypeOK', Room, [Next]_vars PROVE Room'
BY CountersStep, EveryEffect, RoomQueue DEF Room

LEMMA NewestStep == ASSUME TypeOK, Room, Effect, Newest PROVE Newest'
<1> SUFFICES ASSUME main' # "interrupted", NEW i \in DOMAIN queue'
             PROVE  queue'[i] = Handed' - Len(queue') + i
  BY DEF Newest
<1>1. Handed \in Nat /\ Len(queue) \in Nat /\ DOMAIN queue = 1 .. Len(queue)
  BY HandedType DEF Room, TypeOK
<1>2. \A k \in DOMAIN queue : queue[k] = Handed - Len(queue) + k
  BY DEF Newest, Effect
<1>3. CASE Quiet \/ Records \/ Inlines
  <2>1. queue' = queue /\ (Handed' = Handed \/ queue = <<>>)
    BY <1>3 DEF Quiet, Records, Inlines
  <2> QED
    BY <1>1, <1>2, <2>1
<1>4. CASE Offers
  <2>1. /\ Len(queue') = Len(queue) + 1 /\ DOMAIN queue' = 1 .. Len(queue) + 1
        /\ \A k \in DOMAIN queue : queue'[k] = queue[k]
        /\ queue'[Len(queue) + 1] = Handed + 1 /\ Handed' = Handed + 1
    BY <1>1, <1>4, QueueEnd DEF Offers
  <2>2. i \in DOMAIN queue \/ i = Len(queue) + 1
    BY <1>1, <2>1
  <2>3. i \in Nat
    BY <1>1, <2>1
  <2> QED
    BY <1>1, <1>2, <2>1, <2>2, <2>3
<1>5. CASE Drops \/ Takes
  <2>1. queue # <<>> /\ queue' = Tail(queue) /\ Handed' = Handed
    BY <1>5 DEF Drops, Takes
  <2>2. Len(queue') = Len(queue) - 1 /\ queue'[i] = queue[i + 1] /\ i + 1 \in DOMAIN queue
        /\ i \in Nat
    BY <1>1, <2>1, QueueTail
  <2> QED
    BY <1>1, <1>2, <2>1, <2>2
<1> QED
  BY <1>3, <1>4, <1>5 DEF Effect

(* What the windows are numbered with. *)
LEMMA WindowTypes ==
    ASSUME TypeOK, Room
    PROVE  /\ Handed \in Nat /\ hand \in Nat /\ gone \subseteq Nat /\ scored \in Seq(Nat)
           /\ Ranged(scored) \subseteq Nat /\ Older \subseteq Nat
           /\ \A i \in DOMAIN queue : queue[i] \in Nat /\ queue[i] # 0
           /\ DOMAIN queue \subseteq Nat
<1>1. Handed \in Nat
  BY HandedType DEF Room
<1>2. hand \in Nat /\ gone \subseteq Nat /\ scored \in Seq(Nat) /\ queue \in Seq(Nat)
  BY DEF TypeOK
<1>3. \A i \in DOMAIN scored : scored[i] \in Nat
  BY <1>2
<1>4. Ranged(scored) \subseteq Nat
  BY <1>3 DEF Ranged
<1>5. \A i \in DOMAIN queue : queue[i] \in Nat /\ queue[i] # 0
  BY <1>2 DEF Room
<1>6. DOMAIN queue \subseteq Nat
  BY <1>2
<1> QED
  BY <1>1, <1>2, <1>4, <1>5, <1>6 DEF Older

(* A score recorded for a window that is newer than all the others. *)
LEMMA ScoreAppended ==
    ASSUME scored \in Seq(Nat), gone \subseteq Nat, ScoredInOrder,
           NEW w \in Nat, w \notin gone,
           \A x \in Ranged(scored) : x < w,
           scored' = Append(scored, w), gone' = gone
    PROVE  ScoredInOrder' /\ Ranged(scored') = Ranged(scored) \cup {w}
<1>1. /\ Len(scored) \in Nat /\ DOMAIN scored = 1 .. Len(scored)
      /\ DOMAIN scored' = 1 .. Len(scored) + 1
      /\ \A i \in 1 .. Len(scored) : scored'[i] = scored[i]
      /\ scored'[Len(scored) + 1] = w
  BY Appended
<1>2. Ranged(scored') = Ranged(scored) \cup {w}
  BY RangedAppended
<1>3. ASSUME NEW i \in DOMAIN scored', NEW j \in DOMAIN scored', i < j
      PROVE  scored'[i] < scored'[j]
  <2>1. i \in DOMAIN scored /\ (j \in DOMAIN scored \/ j = Len(scored) + 1)
    BY <1>1, <1>3
  <2>2. scored'[i] = scored[i] /\ scored[i] \in Ranged(scored)
    BY <1>1, <2>1 DEF Ranged
  <2>3. CASE j \in DOMAIN scored
    BY <1>1, <1>3, <2>1, <2>2, <2>3 DEF ScoredInOrder
  <2>4. CASE j = Len(scored) + 1
    BY <1>1, <2>2, <2>4
  <2> QED
    BY <2>1, <2>3, <2>4
<1>4. Ranged(scored') \cap gone' = {}
  BY <1>2 DEF ScoredInOrder
<1> QED
  BY <1>2, <1>3, <1>4 DEF ScoredInOrder

LEMMA OrderedStep == ASSUME TypeOK, TypeOK', Room, Effect, Ordered PROVE Ordered'
<1>1. /\ Handed \in Nat /\ hand \in Nat /\ gone \subseteq Nat /\ scored \in Seq(Nat)
      /\ Ranged(scored) \subseteq Nat /\ Older \subseteq Nat
      /\ \A i \in DOMAIN queue : queue[i] \in Nat /\ queue[i] # 0
      /\ DOMAIN queue \subseteq Nat
  BY WindowTypes
<1>2. ScoredInOrder
  BY DEF Ordered
<1>3. CASE Quiet
  <2>1. UNCHANGED <<queue, hand, scored, gone>> /\ Handed' >= Handed /\ Handed' \in Int
    BY <1>1, <1>3 DEF Quiet, TypeOK, Handed, Pending
  <2>2. Older' = Older /\ ScoredInOrder'
    BY <1>2, <2>1 DEF Older, Ranged, ScoredInOrder
  <2>3. \A i, j \in DOMAIN queue' : i < j => queue'[i] < queue'[j]
    BY <2>1 DEF Ordered
  <2>4. \A j \in DOMAIN queue' : queue'[j] <= Handed' /\ \A x \in Older' : x < queue'[j]
    <3> HIDE DEF Handed, Older
    <3> QED
      BY <1>1, <2>1, <2>2 DEF Ordered
  <2>5. \A x \in Older' : x <= Handed'
    <3> HIDE DEF Handed, Older
    <3> QED
      BY <1>1, <2>1, <2>2 DEF Ordered
  <2>6. hand' # 0 => hand' \notin gone' /\ \A x \in Ranged(scored') : x < hand'
    BY <2>1 DEF Ordered, Ranged
  <2> QED
    BY <2>2, <2>3, <2>4, <2>5, <2>6 DEF Ordered
<1>4. CASE Offers
  <2>1. /\ Len(queue) \in Nat /\ DOMAIN queue' = 1 .. Len(queue) + 1
        /\ DOMAIN queue = 1 .. Len(queue)
        /\ \A k \in DOMAIN queue : queue'[k] = queue[k]
        /\ queue'[Len(queue) + 1] = Handed + 1 /\ Handed' = Handed + 1
    BY <1>1, <1>4, QueueEnd DEF Offers
  <2>2. UNCHANGED <<hand, scored, gone>>
    BY <1>4 DEF Offers
  <2>3. Older' = Older /\ ScoredInOrder'
    BY <1>2, <2>2 DEF Older, Ranged, ScoredInOrder
  <2>4. ASSUME NEW i \in DOMAIN queue', NEW j \in DOMAIN queue', i < j
        PROVE  queue'[i] < queue'[j]
    <3>1. i \in DOMAIN queue /\ (j \in DOMAIN queue \/ j = Len(queue) + 1)
      BY <2>1, <2>4
    <3>2. queue'[i] = queue[i] /\ queue[i] <= Handed
      BY <2>1, <3>1 DEF Ordered
    <3>3. CASE j \in DOMAIN queue
      BY <2>1, <2>4, <3>1, <3>2, <3>3 DEF Ordered
    <3>4. CASE j = Len(queue) + 1
      BY <1>1, <2>1, <3>1, <3>2, <3>4
    <3> QED
      BY <3>1, <3>3, <3>4
  <2>5. ASSUME NEW j \in DOMAIN queue'
        PROVE  queue'[j] <= Handed' /\ \A x \in Older' : x < queue'[j]
    <3>1. j \in DOMAIN queue \/ j = Len(queue) + 1
      BY <2>1, <2>5
    <3>2. CASE j \in DOMAIN queue
      <4>1. queue'[j] = queue[j] /\ queue[j] \in Nat /\ queue[j] <= Handed
            /\ \A x \in Older : x < queue[j]
        BY <1>1, <2>1, <3>2 DEF Ordered
      <4> HIDE DEF Handed, Older
      <4> QED
        BY <1>1, <2>1, <2>3, <4>1
    <3>3. CASE j = Len(queue) + 1
      <4>1. \A x \in Older : x <= Handed
        BY DEF Ordered
      <4>2. queue'[j] = Handed + 1
        BY <2>1, <3>3
      <4> HIDE DEF Handed, Older
      <4> QED
        BY <1>1, <2>1, <2>3, <4>1, <4>2
    <3> QED
      BY <3>1, <3>2, <3>3
  <2>6. \A x \in Older' : x <= Handed'
    <3>1. \A x \in Older : x <= Handed
      BY DEF Ordered
    <3> HIDE DEF Handed, Older
    <3> QED
      BY <1>1, <2>1, <2>3, <3>1
  <2>7. hand' # 0 => hand' \notin gone' /\ \A x \in Ranged(scored') : x < hand'
    BY <2>2 DEF Ordered, Ranged
  <2> QED
    BY <2>3, <2>4, <2>5, <2>6, <2>7 DEF Ordered
<1>5. CASE Drops \/ Takes
  <2>1. queue # <<>> /\ queue' = Tail(queue) /\ Handed' = Handed /\ scored' = scored
    BY <1>5 DEF Drops, Takes
  <2>2. /\ DOMAIN queue' \subseteq Nat /\ 1 \in DOMAIN queue /\ Head(queue) = queue[1]
        /\ \A i \in DOMAIN queue' : queue'[i] = queue[i + 1] /\ i + 1 \in DOMAIN queue
        /\ \A i \in DOMAIN queue' : i \in Nat /\ i >= 1
    BY <2>1, QueueTail
  <2>3. Older' \subseteq Older \cup {0, Head(queue)}
    BY <1>5 DEF Drops, Takes, Older, Ranged
  <2>4. \A x \in Older : x < Head(queue) /\ x <= Handed
    BY <2>2 DEF Ordered
  <2>5. Head(queue) \in Nat /\ Head(queue) # 0 /\ Head(queue) <= Handed
    BY <1>1, <2>2 DEF Ordered
  <2>6. \A i, j \in DOMAIN queue' : i < j => queue'[i] < queue'[j]
    BY <2>2 DEF Ordered
  <2>7. ASSUME NEW j \in DOMAIN queue'
        PROVE  queue'[j] <= Handed' /\ \A x \in Older' : x < queue'[j]
    <3>1. queue'[j] = queue[j + 1] /\ j + 1 \in DOMAIN queue /\ 1 < j + 1 /\ j + 1 \in Nat
      BY <2>2
    <3>2. queue[j + 1] \in Nat /\ queue[j + 1] # 0 /\ queue[j + 1] <= Handed
          /\ Head(queue) < queue[j + 1] /\ \A x \in Older : x < queue[j + 1]
      BY <1>1, <2>2, <3>1 DEF Ordered
    <3> QED
      BY <2>1, <2>3, <3>1, <3>2
  <2>8. \A x \in Older' : x <= Handed'
    <3> HIDE DEF Handed, Older
    <3> QED
      BY <1>1, <2>1, <2>3, <2>4, <2>5
  <2>9. Ranged(scored) \subseteq Older /\ gone \subseteq Older /\ hand \in Older
    BY DEF Older
  <2>10. CASE Drops
    <3>1. gone' = gone \cup {Head(queue)} /\ hand' = hand
      BY <2>10 DEF Drops
    <3>2. Ranged(scored') = Ranged(scored) /\ Head(queue) \notin Ranged(scored) /\ hand # Head(queue)
      <4>1. ~(Head(queue) < Head(queue))
        BY <2>5
      <4> QED
        BY <2>1, <2>4, <2>9, <4>1 DEF Ranged
    <3>3. ScoredInOrder'
      BY <1>2, <2>1, <3>1, <3>2 DEF ScoredInOrder
    <3>4. hand' # 0 => hand' \notin gone' /\ \A x \in Ranged(scored') : x < hand'
      BY <3>1, <3>2 DEF Ordered
    <3> QED
      BY <2>6, <2>7, <2>8, <3>3, <3>4 DEF Ordered
  <2>11. CASE Takes
    <3>1. gone' = gone /\ hand' = Head(queue) /\ Ranged(scored') = Ranged(scored)
      BY <2>11 DEF Takes, Ranged
    <3>2. ScoredInOrder'
      BY <1>2, <2>1, <3>1 DEF ScoredInOrder
    <3>3. hand' \notin gone' /\ \A x \in Ranged(scored') : x < hand'
      <4>1. ~(Head(queue) < Head(queue))
        BY <2>5
      <4> QED
        BY <2>4, <2>9, <3>1, <4>1
    <3> QED
      BY <2>6, <2>7, <2>8, <3>2, <3>3 DEF Ordered
  <2> QED
    BY <1>5, <2>10, <2>11
<1>6. CASE Records
  <2>1. /\ hand # 0 /\ hand' = 0 /\ scored' = Append(scored, hand) /\ Handed' = Handed
        /\ UNCHANGED <<queue, gone>>
    BY <1>6 DEF Records
  <2>2. hand \notin gone /\ \A x \in Ranged(scored) : x < hand
    BY <2>1 DEF Ordered
  <2>3. ScoredInOrder' /\ Ranged(scored') = Ranged(scored) \cup {hand}
    BY <1>1, <1>2, <2>1, <2>2, ScoreAppended
  <2>4. Older' = Older \cup {0}
    BY <2>1, <2>3 DEF Older
  <2>5. \A i, j \in DOMAIN queue' : i < j => queue'[i] < queue'[j]
    BY <2>1 DEF Ordered
  <2>6. \A j \in DOMAIN queue' : queue'[j] <= Handed' /\ \A x \in Older' : x < queue'[j]
    BY <1>1, <2>1, <2>4 DEF Ordered
  <2>7. \A x \in Older' : x <= Handed'
    <3> HIDE DEF Handed, Older
    <3> QED
      BY <1>1, <2>1, <2>4 DEF Ordered
  <2> QED
    BY <2>1, <2>3, <2>5, <2>6, <2>7 DEF Ordered
<1>7. CASE Inlines
  <2>1. /\ queue = <<>> /\ hand = 0 /\ scored' = Append(scored, Handed + 1)
        /\ Handed' = Handed + 1 /\ UNCHANGED <<queue, hand, gone>>
    BY <1>7 DEF Inlines
  <2>2. \A x \in Older : x <= Handed
    BY DEF Ordered
  <2>3. Ranged(scored) \subseteq Older /\ gone \subseteq Older
    BY DEF Older
  <2>4. Handed + 1 \in Nat /\ Handed + 1 \notin gone /\ \A x \in Ranged(scored) : x < Handed + 1
    <3> HIDE DEF Handed, Older
    <3> QED
      BY <1>1, <2>2, <2>3
  <2>5. ScoredInOrder' /\ Ranged(scored') = Ranged(scored) \cup {Handed + 1}
    <3> HIDE DEF Handed
    <3> QED
      BY <1>1, <1>2, <2>1, <2>4, ScoreAppended
  <2>6. Older' = Older \cup {Handed + 1}
    BY <2>1, <2>5 DEF Older
  <2>7. \A x \in Older' : x <= Handed'
    <3> HIDE DEF Handed, Older
    <3> QED
      BY <1>1, <2>1, <2>2, <2>6
  <2>8. DOMAIN queue' = {}
    BY <2>1
  <2> QED
    BY <2>1, <2>5, <2>7, <2>8 DEF Ordered
<1> QED
  BY <1>3, <1>4, <1>5, <1>6, <1>7 DEF Effect

(* One more window left the queue. *)
LEMMA OneMoreLeft ==
    ASSUME NEW l \in Nat, NEW S, 1 .. l = S
    PROVE  1 .. l + 1 = S \cup {l + 1}
OBVIOUS

LEMMA ConservedStep ==
    ASSUME TypeOK, TypeOK', Room, Room', Effect, Newest, Conserved
    PROVE  Conserved'
<1>1. /\ Handed \in Nat /\ hand \in Nat /\ gone \subseteq Nat /\ scored \in Seq(Nat)
      /\ Len(queue) \in Nat /\ nDropped \in Nat /\ nDropped' \in Nat
  <2>1. Len(queue) \in Nat /\ nDropped \in Nat /\ nDropped' \in Nat
    BY DEF TypeOK
  <2> QED
    BY <2>1, WindowTypes
<1>2. /\ Left = Handed - Len(queue) /\ Left \in Nat
      /\ Left' = Handed' - Len(queue')
  BY <1>1 DEF Left, Handed, Room
<1>3. IsFiniteSet(gone) /\ Cardinality(gone) \in Nat /\ Cardinality(gone) <= nDropped
  BY FS_CardinalityType DEF Conserved
<1>4. IsFiniteSet(gone') /\ Cardinality(gone') <= nDropped'
  <2>1. CASE Quiet \/ Offers \/ Takes \/ Records \/ Inlines
    <3>1. gone' = gone /\ nDropped' >= nDropped
      BY <1>1, <2>1 DEF Quiet, Offers, Takes, Records, Inlines
    <3> QED
      BY <1>1, <1>3, <3>1
  <2>2. CASE Drops
    <3>1. gone' = gone \cup {Head(queue)} /\ nDropped' = nDropped + 1
      BY <2>2 DEF Drops
    <3>2. IsFiniteSet(gone') /\ Cardinality(gone') \in Nat
          /\ Cardinality(gone') <= Cardinality(gone) + 1
      BY <1>3, <3>1, FS_AddElement, FS_CardinalityType
    <3> QED
      BY <1>1, <1>3, <3>1, <3>2
  <2> QED
    BY <2>1, <2>2 DEF Effect
<1>5. ASSUME main' # "interrupted"
      PROVE  1 .. Left' = Ranged(scored') \cup gone' \cup ({hand'} \ {0})
  <2> DEFINE Out == Ranged(scored) \cup gone \cup ({hand} \ {0})
  <2>1. 1 .. Left = Out /\ main # "interrupted"
    BY <1>5 DEF Conserved, Accounted, Effect
  <2>2. CASE Quiet
    BY <1>2, <1>5, <2>1, <2>2 DEF Quiet, Ranged
  <2>3. CASE Offers
    <3>1. Handed' = Handed + 1 /\ Len(queue') = Len(queue) + 1
      BY <1>1, <2>3, QueueEnd DEF Offers
    <3>2. Left' = Left
      BY <1>1, <1>2, <3>1
    <3> QED
      BY <2>1, <2>3, <3>2 DEF Offers, Ranged
  <2>4. CASE Drops \/ Takes
    <3>1. queue # <<>> /\ queue' = Tail(queue) /\ Handed' = Handed /\ scored' = scored
      BY <2>4 DEF Drops, Takes
    <3>2. Len(queue') = Len(queue) - 1 /\ Head(queue) = queue[1] /\ 1 \in DOMAIN queue
      BY <3>1, QueueTail
    <3>3. Left' = Left + 1
      BY <1>1, <1>2, <3>1, <3>2
    <3>4. Head(queue) = Left + 1
      BY <1>1, <1>2, <2>1, <3>2 DEF Newest
    <3>5. 1 .. Left' = Out \cup {Head(queue)}
      <4> HIDE DEF Out
      <4> QED
        BY <1>2, <2>1, <3>3, <3>4, OneMoreLeft
    <3>6. CASE Drops
      BY <3>1, <3>5, <3>6 DEF Drops, Ranged
    <3>7. CASE Takes
      <4>1. hand = 0 /\ hand' = Head(queue) /\ gone' = gone /\ Head(queue) # 0
        BY <1>2, <3>4, <3>7 DEF Takes
      <4> QED
        BY <3>1, <3>5, <4>1 DEF Ranged
    <3> QED
      BY <2>4, <3>6, <3>7
  <2>5. CASE Records
    <3>1. Handed' = Handed /\ queue' = queue /\ gone' = gone /\ hand # 0 /\ hand' = 0
          /\ scored' = Append(scored, hand)
      BY <2>5 DEF Records
    <3>2. Ranged(scored') = Ranged(scored) \cup {hand}
      BY <1>1, <3>1, RangedAppended
    <3> QED
      BY <1>2, <2>1, <3>1, <3>2
  <2>6. CASE Inlines
    <3>1. Handed' = Handed + 1 /\ queue = <<>> /\ queue' = queue /\ gone' = gone
          /\ hand = 0 /\ hand' = 0 /\ scored' = Append(scored, Handed + 1)
      BY <2>6 DEF Inlines
    <3>2. Left = Handed /\ Left' = Left + 1
      BY <1>1, <1>2, <3>1
    <3>3. Ranged(scored') = Ranged(scored) \cup {Left + 1}
      <4>1. Handed + 1 \in Nat
        BY <1>1
      <4> HIDE DEF Handed
      <4> QED
        BY <1>1, <3>1, <3>2, <4>1, RangedAppended
    <3>4. 1 .. Left' = Out \cup {Left + 1}
      <4> HIDE DEF Out
      <4> QED
        BY <1>2, <2>1, <3>2, OneMoreLeft
    <3> QED
      BY <3>1, <3>3, <3>4
  <2> QED
    BY <2>2, <2>3, <2>4, <2>5, <2>6 DEF Effect
<1> QED
  BY <1>4, <1>5 DEF Conserved, Accounted

-----------------------------------------------------------------------------
(* The strengthened invariant: each part needs the ones before it.         *)
Orderly == Room /\ Newest /\ Ordered /\ Conserved

LEMMA OrderlyInit == Init => Orderly
<1> SUFFICES ASSUME Init PROVE Orderly
  OBVIOUS
<1>1. /\ queue = <<>> /\ scored = <<>> /\ emitted = <<>> /\ hand = 0 /\ gone = {}
      /\ nDropped = 0 /\ main = "reading"
      /\ worker = IF async THEN "test" ELSE "exited"
  BY DEF Init
<1>2. Len(queue) = 0 /\ DOMAIN queue = {} /\ Handed = 0 /\ Left = 0 /\ Ranged(scored) = {}
  BY <1>1 DEF Handed, Pending, Left, Ranged
<1>3. Room
  BY <1>1, <1>2 DEF Room, Counters
<1>4. Newest
  BY <1>2 DEF Newest
<1>5. Older = {0}
  BY <1>1, <1>2 DEF Older
<1>6. Ordered
  BY <1>1, <1>2, <1>5 DEF Ordered, ScoredInOrder
<1>7. IsFiniteSet(gone) /\ Cardinality(gone) = 0
  BY <1>1, FS_EmptySet
<1>8. Conserved
  BY <1>1, <1>2, <1>7 DEF Conserved, Accounted
<1> QED
  BY <1>3, <1>4, <1>6, <1>8 DEF Orderly

LEMMA OrderlyStep == ASSUME TypeOK, TypeOK', Orderly, [Next]_vars PROVE Orderly'
BY RoomStep, EveryEffect, NewestStep, OrderedStep, ConservedStep DEF Orderly

LEMMA AlwaysOrderly == Spec => [](TypeOK /\ Orderly)
<1>1. Init => TypeOK /\ Orderly
  BY TypeInit, OrderlyInit
<1>2. TypeOK /\ Orderly /\ [Next]_vars => (TypeOK /\ Orderly)'
  BY TypeStep, OrderlyStep
<1> QED
  BY <1>1, <1>2, PTL DEF Spec

(* However the reader's drop and the worker's get interleave, the queue    *)
(* holds the newest windows without a gap.                                 *)
THEOREM DropsTakeTheOldest == Spec => []QueueIsNewest
<1>1. TypeOK /\ Orderly => QueueIsNewest
  <2> SUFFICES ASSUME TypeOK, Orderly, main # "interrupted", NEW i \in DOMAIN queue
               PROVE  queue[i] = Left + i
    BY DEF QueueIsNewest
  <2>1. queue[i] = Handed - Len(queue) + i
    BY DEF Orderly, Newest
  <2> QED
    BY <2>1 DEF Left, Handed
<1> QED
  BY <1>1, AlwaysOrderly, PTL

(* Why the end is drained: the worker leaves only when it is told to and   *)
(* finds the queue empty, and by then the reader puts nothing more.        *)
Leaving ==
    /\ stop => main \in {"joining", "done", "interrupted"}
    /\ worker = "exited" => queue = <<>> /\ (stop \/ ~async)
    /\ main = "done" => worker \in {"exited", "dead"}

LEMMA LeavingStep == ASSUME TypeOK, Room, Leaving, [Next]_vars PROVE Leaving'
<1> USE DEF Leaving, GoTo, config, stream, score
<1>1. CASE Flush
  BY <1>1 DEF Flush
<1>2. CASE ReadLine
  BY <1>2 DEF ReadLine, Feed
<1>3. CASE EndPass \/ NextPass
  BY <1>3 DEF EndPass, NextPass
<1>4. CASE ScoreInline \/ Put
  BY <1>4 DEF ScoreInline, Put
<1>5. CASE DropOldest \/ PutAgain
  BY <1>5 DEF DropOldest, PutAgain, Room, Counters
<1>6. CASE StopWorker \/ Join \/ Interrupt
  BY <1>6 DEF StopWorker, Join, Interrupt
<1>7. CASE LoopTest
  BY <1>7 DEF LoopTest, WorkerStops
<1>8. CASE Get \/ Score \/ Die
  BY <1>8 DEF Get, Score, Die
<1>9. CASE UNCHANGED vars
  BY <1>9 DEF vars
<1> QED
  BY <1>1, <1>2, <1>3, <1>4, <1>5, <1>6, <1>7, <1>8, <1>9
  DEF Next, Reader, Inference, Terminated

(* A window that left the queue was scored, is being scored, or was        *)
(* dropped and counted, and at a normal end none is left.                  *)
THEOREM WindowsAreAccountedFor == Spec => []WindowsConserved
<1>1. Init => Leaving
  BY DEF Init, Leaving
<1>2. TypeOK /\ Orderly /\ Leaving /\ [Next]_vars => Leaving'
  BY LeavingStep DEF Orderly
<1>3. TypeOK /\ Orderly /\ Leaving => WindowsConserved
  BY DEF Orderly, Room, Counters, Conserved, Leaving, WindowsConserved, Drained
<1> QED
  BY <1>1, <1>2, <1>3, AlwaysOrderly, PTL DEF Spec

(* Scores are recorded once per window and in the windows' order.          *)
THEOREM ScoresAreInOrder == Spec => []ScoredInOrder
<1>1. TypeOK /\ Orderly => ScoredInOrder
  BY DEF Orderly, Ordered
<1> QED
  BY <1>1, AlwaysOrderly, PTL

-----------------------------------------------------------------------------
(* Days, and the midnights between two times. *)
LEMMA TimesMore ==
    ASSUME NEW q \in Int, NEW r \in Int, NEW d \in Nat, q < r
    PROVE  r * d >= q * d + d
<1>1. PICK k \in Nat : r = (q + 1) + k
  <2>1. r - (q + 1) \in Nat /\ r = (q + 1) + (r - (q + 1))
    OBVIOUS
  <2> QED
    BY <2>1
<1>2. ((q + 1) + k) * d = q * d + d + k * d
  OBVIOUS
<1>3. k * d \in Nat
  OBVIOUS
<1>4. q * d \in Int /\ r * d \in Int /\ r * d = q * d + d + k * d
  BY <1>1, <1>2
<1> QED
  BY <1>3, <1>4

LEMMA DayOf ==
    ASSUME NEW a \in Nat
    PROVE  /\ a % Day \in 0 .. Day - 1 /\ a \div Day \in Int /\ (a \div Day) * Day \in Int
           /\ a = (a \div Day) * Day + (a % Day)
BY SizeAssumption

LEMMA Midnights ==
    ASSUME NEW a \in Nat, NEW b \in Nat, a <= b
    PROVE  /\ (b \div Day) * Day >= (a \div Day) * Day
           /\ a \div Day # b \div Day => (b \div Day) * Day >= (a \div Day) * Day + Day
           /\ a \div Day # b \div Day /\ b - a < Day - Slack =>
                /\ (b \div Day) * Day = (a \div Day) * Day + Day
                /\ (b % Day) < (a % Day) - Slack
<1> DEFINE q == a \div Day
           r == b \div Day
<1>1. /\ q \in Int /\ r \in Int /\ q * Day \in Int /\ r * Day \in Int
      /\ a % Day \in 0 .. Day - 1 /\ b % Day \in 0 .. Day - 1
      /\ a = q * Day + (a % Day) /\ b = r * Day + (b % Day)
      /\ Day \in Nat /\ Slack \in Nat /\ Day > 0
  BY DayOf, SizeAssumption
<1>2. r < q => q * Day >= r * Day + Day
  BY <1>1, TimesMore
<1>3. q < r => r * Day >= q * Day + Day
  BY <1>1, TimesMore
<1>4. q + 1 < r => r * Day >= (q * Day + Day) + Day
  <2>1. (q + 1) * Day = q * Day + Day
    BY <1>1
  <2>2. q + 1 \in Int
    BY <1>1
  <2>3. q + 1 < r => r * Day >= (q + 1) * Day + Day
    BY <1>1, <2>2, TimesMore
  <2> QED
    BY <2>1, <2>3
<1>5. r = q + 1 => r * Day = q * Day + Day
  BY <1>1
<1> DEFINE A == q * Day
           B == r * Day
<1>6. /\ A \in Int /\ B \in Int /\ a = A + (a % Day) /\ b = B + (b % Day)
      /\ r < q => A >= B + Day
      /\ q < r => B >= A + Day
      /\ q + 1 < r => B >= (A + Day) + Day
      /\ r = q + 1 => B = A + Day
      /\ r = q => B = A
  BY <1>1, <1>2, <1>3, <1>4, <1>5
<1> HIDE DEF A, B, q, r
<1>7. q <= r
  BY <1>1, <1>6
<1>8. /\ B >= A
      /\ q # r => B >= A + Day
      /\ q # r /\ b - a < Day - Slack => B = A + Day /\ (b % Day) < (a % Day) - Slack
  BY <1>1, <1>6, <1>7
<1> QED
  BY <1>8 DEF A, B, q, r

(* The midnight an event comes after, and the time of an event since the   *)
(* midnight the trace begins after.                                        *)
Dawn(e) == (trace[e].at \div Day) * Day
TrueNs(e) == trace[e].at - Dawn(1)

(* A pass is where the events on disk have brought it: each CPU's are      *)
(* there up to some event, the offset is that of the event read last, and  *)
(* a pass that has yielded is in step with what was yielded last.          *)
Timed ==
    /\ \A e \in disk : \A d \in 1 .. e - 1 : trace[d].cpu = trace[e].cpu => d \in disk
    /\ replay => main # "sleeping"
    /\ pass.pos = 0 => pass.prev = -1 /\ pass.offset = 0 /\ ~pass.fresh /\ (replay => last = 0)
    /\ pass.pos # 0 => /\ pass.pos \in disk /\ pass.prev = Clock(pass.pos)
                       /\ pass.offset = Dawn(pass.pos) - Dawn(1)
                       /\ replay \/ pass.fresh => last = TrueNs(pass.pos)

LEMMA TimedInit == Init => Timed
<1> SUFFICES ASSUME Init PROVE Timed
  OBVIOUS
<1>1. \A e \in DOMAIN trace : \A d \in 1 .. e - 1 : d \in DOMAIN trace
  <2>1. trace \in Seq([tid : Tids, cpu : Nat, at : Nat])
    BY TracesAssumption DEF Init
  <2>2. DOMAIN trace = 1 .. Len(trace) /\ Len(trace) \in Nat
    BY <2>1, LenProperties
  <2> QED
    BY <2>2
<1>2. /\ disk = IF replay THEN DOMAIN trace ELSE {}
      /\ pass = [pos |-> 0, prev |-> -1, offset |-> 0, fresh |-> FALSE]
      /\ last = 0 /\ main = "reading"
  BY DEF Init, NewPass
<1> QED
  BY <1>1, <1>2 DEF Timed

(* Times of events, in the order of a steady trace. *)
LEMMA TraceTimes ==
    ASSUME TypeOK, Steady(trace), NEW e \in DOMAIN trace
    PROVE  /\ 1 \in DOMAIN trace /\ e >= 1 /\ DOMAIN trace = 1 .. Len(trace) /\ Len(trace) \in Nat
           /\ trace[e].at \in Nat /\ Dawn(e) \in Int /\ Dawn(1) \in Int
           /\ trace[e].at = Dawn(e) + Clock(e) /\ Clock(e) \in Nat
           /\ TrueNs(e) \in Nat
           /\ \A d \in DOMAIN trace : d <= e => trace[d].at <= trace[e].at /\ TrueNs(d) <= TrueNs(e)
<1>1. DOMAIN trace = 1 .. Len(trace) /\ Len(trace) \in Nat
  <2>1. trace \in Seq([tid : Tids, cpu : Nat, at : Nat])
    BY TracesAssumption DEF TypeOK
  <2> QED
    BY <2>1, LenProperties
<1>2. 1 \in DOMAIN trace /\ e >= 1
  BY <1>1
<1>3. \A d \in DOMAIN trace : trace[d].at \in Nat /\ Clock(d) \in Nat
  BY TraceFacts
<1>4. \A d \in DOMAIN trace : Dawn(d) \in Int /\ trace[d].at = Dawn(d) + Clock(d)
  BY <1>3, DayOf DEF Dawn, Clock
<1>5. \A d \in DOMAIN trace : d <= e => trace[d].at <= trace[e].at
  BY DEF Steady
<1>6. trace[1].at >= Dawn(1)
  BY <1>2, <1>3, <1>4
<1>7. TrueNs(e) \in Nat /\ \A d \in DOMAIN trace : d <= e => TrueNs(d) <= TrueNs(e)
  <2>1. trace[1].at <= trace[e].at
    BY <1>2, <1>5
  <2> QED
    BY <1>2, <1>3, <1>4, <1>5, <1>6, <2>1 DEF TrueNs
<1> QED
  BY <1>1, <1>2, <1>3, <1>4, <1>5, <1>7

(* Midnight is noticed: the offset after a line is that of its event.      *)
LEMMA Unwraps ==
    ASSUME TypeOK, Steady(trace), NEW d \in DOMAIN trace, NEW e \in DOMAIN trace, d <= e,
           Dawn(d) = Dawn(e) \/ trace[e].at - trace[d].at < Day - Slack,
           pass.prev = Clock(d), pass.offset = Dawn(d) - Dawn(1)
    PROVE  Unwrap(e) = Dawn(e) - Dawn(1)
<1>1. /\ trace[d].at \in Nat /\ trace[e].at \in Nat /\ trace[d].at <= trace[e].at
      /\ Dawn(d) \in Int /\ Dawn(e) \in Int /\ Dawn(1) \in Int
      /\ trace[d].at = Dawn(d) + Clock(d) /\ trace[e].at = Dawn(e) + Clock(e)
      /\ Clock(d) \in Nat /\ Clock(e) \in Nat /\ Day \in Nat /\ Slack \in Nat /\ Day > 0
  BY TraceTimes, SizeAssumption
<1>2. CASE Dawn(d) = Dawn(e)
  <2>1. ~(Clock(e) < pass.prev - Slack)
    BY <1>1, <1>2
  <2> QED
    BY <1>2, <2>1 DEF Unwrap
<1>3. CASE Dawn(d) # Dawn(e)
  <2>1. Dawn(e) = Dawn(d) + Day /\ Clock(e) < Clock(d) - Slack
    BY <1>1, <1>3, Midnights DEF Dawn, Clock
  <2> QED
    BY <1>1, <2>1 DEF Unwrap
<1> QED
  BY <1>2, <1>3

(* The next line of a pass, with its true time. *)
LEMMA NextLine ==
    ASSUME TypeOK, Steady(trace), Timed, ReadLine
    PROVE  \E e \in DOMAIN trace :
             /\ e \in disk /\ pass.pos < e
             /\ pass' = [pos |-> e, prev |-> Clock(e), offset |-> Dawn(e) - Dawn(1),
                         fresh |-> pass.fresh \/ TrueNs(e) > last]
             /\ \/ TrueNs(e) > last /\ last' = TrueNs(e) /\ Feed(e, TrueNs(e))
                \/ TrueNs(e) <= last /\ UNCHANGED <<last, buf, emitted, main>>
<1>1. PICK e \in Unread :
        /\ \A d \in Unread : e <= d
        /\ LET offset == Unwrap(e)
               ns == Clock(e) + offset
               new == ~Seen(ns)
           IN /\ pass' = [pos |-> e, prev |-> Clock(e), offset |-> offset,
                          fresh |-> pass.fresh \/ new]
              /\ last' = IF new THEN ns ELSE last
              /\ IF new THEN Feed(e, ns) ELSE UNCHANGED <<buf, emitted, main>>
  BY DEF ReadLine
<1>2. e \in DOMAIN trace /\ e \in disk /\ pass.pos < e /\ pass.pos \in Nat /\ last \in Nat
      /\ disk \subseteq DOMAIN trace
  BY DEF Unread, TypeOK
<1>3. /\ 1 \in DOMAIN trace /\ e >= 1 /\ DOMAIN trace = 1 .. Len(trace) /\ Len(trace) \in Nat
      /\ Clock(e) \in Nat /\ Dawn(e) \in Int /\ Dawn(1) \in Int /\ TrueNs(e) \in Nat
      /\ TrueNs(e) = Clock(e) + (Dawn(e) - Dawn(1))
  BY <1>2, TraceTimes DEF TrueNs
<1>4. \/ Dawn(e) = Dawn(1)
      \/ \E d \in 1 .. e - 1 : trace[d].cpu = trace[e].cpu /\ trace[e].at - trace[d].at < Day - Slack
  BY <1>2 DEF Steady, Dawn
<1>5. \A d \in 1 .. e - 1 : trace[d].cpu = trace[e].cpu => d \in disk /\ d <= pass.pos
  <2>1. \A d \in 1 .. e - 1 : trace[d].cpu = trace[e].cpu => d \in disk
    BY <1>2 DEF Timed
  <2>2. \A d \in 1 .. e - 1 : d \in disk => d <= pass.pos
    BY <1>1, <1>2, <1>3 DEF Unread
  <2> QED
    BY <2>1, <2>2
<1>6. Unwrap(e) = Dawn(e) - Dawn(1)
  <2>1. CASE pass.pos = 0
    <3>1. ~\E d \in 1 .. e - 1 : trace[d].cpu = trace[e].cpu
      BY <1>5, <2>1
    <3>2. Dawn(e) = Dawn(1) /\ pass.prev = -1 /\ pass.offset = 0
      BY <1>4, <2>1, <3>1 DEF Timed
    <3> QED
      BY <1>3, <3>2 DEF Unwrap
  <2>2. CASE pass.pos # 0
    <3>1. pass.pos \in DOMAIN trace /\ pass.prev = Clock(pass.pos)
          /\ pass.offset = Dawn(pass.pos) - Dawn(1)
      BY <1>2, <2>2 DEF Timed
    <3>2. /\ trace[1].at \in Nat /\ trace[pass.pos].at \in Nat /\ trace[e].at \in Nat
          /\ trace[1].at <= trace[pass.pos].at /\ trace[pass.pos].at <= trace[e].at
          /\ pass.pos <= e
      <4>1. pass.pos >= 1 /\ pass.pos <= e
        BY <1>2, <1>3, <3>1
      <4>2. trace[1].at <= trace[pass.pos].at /\ trace[pass.pos].at <= trace[e].at
        BY <1>2, <1>3, <3>1, <4>1 DEF Steady
      <4> QED
        BY <1>2, <1>3, <3>1, <4>1, <4>2, TraceFacts
    <3>3. CASE Dawn(e) = Dawn(1)
      <4>1. Dawn(1) <= Dawn(pass.pos) /\ Dawn(pass.pos) <= Dawn(e)
        BY <3>2, Midnights DEF Dawn
      <4>2. Dawn(pass.pos) \in Int
        BY <3>1, TraceTimes
      <4>3. Dawn(pass.pos) = Dawn(e)
        BY <1>3, <3>3, <4>1, <4>2
      <4> QED
        BY <1>2, <3>1, <3>2, <4>3, Unwraps
    <3>4. ASSUME NEW d \in 1 .. e - 1, trace[d].cpu = trace[e].cpu,
                 trace[e].at - trace[d].at < Day - Slack
          PROVE  Unwrap(e) = Dawn(e) - Dawn(1)
      <4>1. d <= pass.pos /\ d \in DOMAIN trace
        BY <1>2, <1>3, <1>5, <3>4
      <4>2. trace[d].at <= trace[pass.pos].at /\ trace[d].at \in Nat
        BY <3>1, <4>1, TraceTimes
      <4>3. trace[e].at - trace[pass.pos].at < Day - Slack
        BY <3>2, <3>4, <4>2, SizeAssumption
      <4> QED
        BY <1>2, <3>1, <3>2, <4>3, Unwraps
    <3> QED
      BY <1>4, <3>3, <3>4
  <2> QED
    BY <2>1, <2>2
<1>7. /\ pass' = [pos |-> e, prev |-> Clock(e), offset |-> Dawn(e) - Dawn(1),
                  fresh |-> pass.fresh \/ ~Seen(TrueNs(e))]
      /\ last' = IF ~Seen(TrueNs(e)) THEN TrueNs(e) ELSE last
      /\ IF ~Seen(TrueNs(e)) THEN Feed(e, TrueNs(e)) ELSE UNCHANGED <<buf, emitted, main>>
  BY <1>1, <1>3, <1>6
<1>8. Seen(TrueNs(e)) = (TrueNs(e) <= last) /\ (~Seen(TrueNs(e))) = (TrueNs(e) > last)
  BY <1>2, <1>3 DEF Seen
<1> QED
  BY <1>2, <1>7, <1>8

LEMMA TimedStep ==
    ASSUME TypeOK, Steady(trace), Timed, [Next]_vars PROVE Timed'
<1>1. trace' = trace /\ replay' = replay
  BY DEF Next, Flush, Reader, ReadLine, EndPass, NextPass, ScoreInline, Put, DropOldest, PutAgain,
         StopWorker, Join, Interrupt, Inference, LoopTest, Get, Score, Die, Terminated, vars, config
<1>2. \A e : Dawn(e)' = Dawn(e) /\ TrueNs(e)' = TrueNs(e) /\ Clock(e)' = Clock(e)
  BY <1>1 DEF Dawn, TrueNs, Clock
<1>3. CASE Flush
  <2>1. PICK e \in DOMAIN trace \ disk :
          /\ \A d \in 1 .. e - 1 : trace[d].cpu = trace[e].cpu => d \in disk
          /\ disk' = disk \cup {e}
    BY <1>3 DEF Flush
  <2>2. UNCHANGED <<pass, last, main>>
    BY <1>3 DEF Flush
  <2> QED
    BY <1>1, <1>2, <2>1, <2>2 DEF Timed
<1>4. CASE ReadLine
  <2>1. PICK e \in DOMAIN trace :
             /\ e \in disk /\ pass.pos < e
             /\ pass' = [pos |-> e, prev |-> Clock(e), offset |-> Dawn(e) - Dawn(1),
                         fresh |-> pass.fresh \/ TrueNs(e) > last]
             /\ \/ TrueNs(e) > last /\ last' = TrueNs(e) /\ Feed(e, TrueNs(e))
                \/ TrueNs(e) <= last /\ UNCHANGED <<last, buf, emitted, main>>
    BY <1>4, NextLine
  <2>2. disk' = disk /\ main = "reading" /\ main' # "sleeping"
    BY <1>4, <2>1 DEF ReadLine, Feed
  <2>3. /\ pass'.pos = e /\ pass'.prev = Clock(e) /\ pass'.offset = Dawn(e) - Dawn(1)
        /\ pass'.fresh = (pass.fresh \/ TrueNs(e) > last)
    BY <2>1
  <2>5. e \in Nat /\ e # 0
    BY TraceTimes
  <2>4. replay \/ pass'.fresh => last' = TrueNs(e)
    <3>1. CASE TrueNs(e) > last
      <4>1. last \in Nat /\ TrueNs(e) \in Nat
        BY TraceTimes DEF TypeOK
      <4> QED
        BY <2>1, <3>1, <4>1
    <3>2. CASE ~(TrueNs(e) > last)
      <4>1. last' = last /\ TrueNs(e) <= last /\ last \in Nat /\ TrueNs(e) \in Nat
        BY <2>1, <3>2, TraceTimes DEF TypeOK
      <4>2. CASE replay /\ pass.pos = 0
        BY <4>1, <4>2 DEF Timed
      <4>3. CASE pass.pos # 0 /\ (replay \/ pass.fresh)
        <5>1. pass.pos \in DOMAIN trace /\ last = TrueNs(pass.pos) /\ pass.pos <= e
          BY <2>1, <2>5, <4>3 DEF Timed, TypeOK
        <5>2. TrueNs(pass.pos) <= TrueNs(e)
          BY <5>1, TraceTimes
        <5> QED
          BY <4>1, <5>1, <5>2
      <4> QED
        BY <2>3, <3>2, <4>2, <4>3 DEF Timed
    <3> QED
      BY <3>1, <3>2
  <2> QED
    BY <1>1, <1>2, <2>1, <2>2, <2>3, <2>4, <2>5 DEF Timed
<1>5. CASE NextPass
  <2>1. pass' = [pos |-> 0, prev |-> -1, offset |-> 0, fresh |-> FALSE] /\ disk' = disk
        /\ main' = "reading" /\ ~replay
    BY <1>5 DEF NextPass, NewPass, GoTo, Timed
  <2> QED
    BY <1>1, <1>2, <2>1 DEF Timed
<1>6. CASE EndPass
  <2>1. UNCHANGED <<disk, pass, last>> /\ (replay => main' # "sleeping")
    BY <1>6 DEF EndPass, SessionOver, stream
  <2> QED
    BY <1>1, <1>2, <2>1 DEF Timed
<1>7. CASE UNCHANGED stream /\ (main' = main \/ main' # "sleeping")
  BY <1>1, <1>2, <1>7 DEF Timed, stream
<1> QED
  BY <1>3, <1>4, <1>5, <1>6, <1>7 DEF Next, Reader, ScoreInline, Put, DropOldest, PutAgain,
     StopWorker, Join, GoTo, Interrupt, Inference, LoopTest, Get, Score, Die, Terminated, vars

-----------------------------------------------------------------------------
(* The entries w of one thread t: true times up to l, in order, and none a *)
(* window's length after the first.                                        *)
Cut(w, t, l) ==
    /\ \A i \in DOMAIN w :
         /\ w[i].event \in DOMAIN trace /\ trace[w[i].event].tid = t
         /\ w[i].ns = TrueNs(w[i].event) /\ w[i].ns <= l
         /\ w[i].ns - w[1].ns < Window
    /\ \A i, j \in DOMAIN w : i < j => w[i].ns < w[j].ns

(* No event of v is one of w. *)
Apart(v, w) == \A i \in DOMAIN v : \A j \in DOMAIN w : v[i].event # w[j].event

Sorted(b, m, l) ==
    /\ \A t \in Tids : Cut(b[t], t, l)
    /\ \A k \in DOMAIN m :
         /\ Len(m[k]) >= MinEvents /\ \E t \in Tids : Cut(m[k], t, l)
         /\ \A t \in Tids : Apart(b[t], m[k])
         /\ \A n \in DOMAIN m \ {k} : Apart(m[n], m[k])
Windows == Sorted(buf, emitted, last)

LEMMA CutLater ==
    ASSUME NEW w \in Seq(Entries), NEW t, NEW l \in Nat, NEW m \in Nat, l <= m, Cut(w, t, l)
    PROVE  Cut(w, t, m)
<1>1. \A i \in DOMAIN w : w[i].ns \in Nat
  <2> DEFINE E == Entries
  <2>1. \A i \in DOMAIN w : w[i] \in E
    OBVIOUS
  <2> QED
    BY <2>1 DEF Entries
<1> QED
  BY <1>1 DEF Cut

(* The next event of the thread. *)
LEMMA CutGrows ==
    ASSUME NEW w \in Seq(Entries), NEW t, NEW l \in Nat, Cut(w, t, l),
           NEW e \in DOMAIN trace, trace[e].tid = t, e \in Nat, TrueNs(e) \in Nat, TrueNs(e) > l,
           w # <<>> => TrueNs(e) - w[1].ns < Window
    PROVE  Cut(Append(w, [event |-> e, ns |-> TrueNs(e)]), t, TrueNs(e))
<1> DEFINE x == [event |-> e, ns |-> TrueNs(e)]
           v == Append(w, x)
<1>1. x \in Entries /\ x.event = e /\ x.ns = TrueNs(e)
  BY DEF Entries
<1>2. /\ Len(w) \in Nat /\ DOMAIN w = 1 .. Len(w) /\ DOMAIN v = 1 .. Len(w) + 1
      /\ \A i \in 1 .. Len(w) : v[i] = w[i]
      /\ v[Len(w) + 1] = x
  BY <1>1, Appended
<1>3. \A i \in DOMAIN w : w[i] \in Entries
  OBVIOUS
<1>4. \A i \in DOMAIN w : w[i].ns \in Nat /\ w[i].ns <= l
  BY <1>3 DEF Entries, Cut
<1> HIDE DEF v, x
<1>5. /\ Window \in Nat \ {0}
      /\ \A i \in DOMAIN v : (i \in DOMAIN w /\ v[i] = w[i]) \/ (i = Len(w) + 1 /\ v[i] = x)
      /\ w # <<>> => 1 \in DOMAIN w /\ v[1] = w[1]
      /\ w = <<>> => v[1] = x /\ DOMAIN w = {} /\ Len(w) = 0
  BY <1>2, SizeAssumption
<1>6. ASSUME NEW i \in DOMAIN v
      PROVE  /\ v[i].event \in DOMAIN trace /\ trace[v[i].event].tid = t
             /\ v[i].ns = TrueNs(v[i].event) /\ v[i].ns <= TrueNs(e)
             /\ v[i].ns - v[1].ns < Window
  <2>1. CASE i \in DOMAIN w /\ v[i] = w[i]
    <3>1. w # <<>> /\ v[1] = w[1]
      BY <1>5, <2>1
    <3> QED
      BY <1>4, <2>1, <3>1 DEF Cut
  <2>2. CASE i = Len(w) + 1 /\ v[i] = x
    BY <1>1, <1>5, <2>2
  <2> QED
    BY <1>5, <2>1, <2>2
<1>7. ASSUME NEW i \in DOMAIN v, NEW j \in DOMAIN v, i < j
      PROVE  v[i].ns < v[j].ns
  <2>1. i \in DOMAIN w /\ v[i] = w[i]
    BY <1>2, <1>5, <1>7
  <2> QED
    BY <1>1, <1>4, <1>5, <1>7, <2>1 DEF Cut
<1> QED
  BY <1>6, <1>7 DEF Cut, v, x

(* A later event is not among the entries. *)
LEMMA CutExcludes ==
    ASSUME NEW w, NEW t, NEW l \in Nat, Cut(w, t, l), NEW e, TrueNs(e) \in Nat, TrueNs(e) > l
    PROVE  \A i \in DOMAIN w : w[i].event # e
BY DEF Cut

(* An event, when it is fed, is later than all there are. *)
LEMMA FeedSorts ==
    ASSUME TypeOK, Windows, NEW e \in DOMAIN trace, e \in Nat, TrueNs(e) \in Nat,
           TrueNs(e) > last, Feed(e, TrueNs(e))
    PROVE  Sorted(buf', emitted', TrueNs(e))
<1> DEFINE t == trace[e].tid
           b == buf[t]
           ns == TrueNs(e)
           ev == [event |-> e, ns |-> ns]
           full == Completes(b, ns)
           window == full /\ Len(b) >= MinEvents
<1>1. /\ t \in Tids /\ buf \in [Tids -> Seq(Entries)] /\ emitted \in Seq(Seq(Entries))
      /\ b \in Seq(Entries) /\ last \in Nat /\ ns \in Nat /\ last <= ns /\ ev \in Entries
      /\ ev.event = e
  BY TraceFacts DEF TypeOK, Entries
<1>2. /\ buf' = [buf EXCEPT ![t] = IF full THEN <<ev>> ELSE Append(@, ev)]
      /\ emitted' = IF window THEN Append(emitted, b) ELSE emitted
  BY DEF Feed
<1>3. /\ \A u \in Tids : Cut(buf[u], u, last) /\ Cut(buf[u], u, ns)
      /\ \A k \in DOMAIN emitted : emitted[k] \in Seq(Entries) /\ Len(emitted[k]) >= MinEvents
      /\ \A k \in DOMAIN emitted : \E u \in Tids : Cut(emitted[k], u, last) /\ Cut(emitted[k], u, ns)
  <2> DEFINE S == Seq(Entries)
  <2>1. \A k \in DOMAIN emitted : emitted[k] \in S
    BY <1>1
  <2>2. \A k \in DOMAIN emitted : Len(emitted[k]) >= MinEvents /\ \E u \in Tids : Cut(emitted[k], u, last)
    BY DEF Windows, Sorted
  <2>3. \A u \in Tids : buf[u] \in Seq(Entries) /\ Cut(buf[u], u, last)
    BY <1>1 DEF Windows, Sorted
  <2> QED
    BY <1>1, <2>1, <2>2, <2>3, CutLater
<1>4. /\ \A u \in Tids : \A i \in DOMAIN buf[u] : buf[u][i].event # e
      /\ \A k \in DOMAIN emitted : \A i \in DOMAIN emitted[k] : emitted[k][i].event # e
  BY <1>1, <1>3, CutExcludes
<1>5. /\ \A u \in Tids \ {t} : buf'[u] = buf[u]
      /\ buf'[t] = IF full THEN <<ev>> ELSE Append(b, ev)
  BY <1>1, <1>2
<1> HIDE DEF ev
<1>6. CASE full
  <2>1. buf'[t] = <<ev>> /\ DOMAIN <<ev>> = {1} /\ <<ev>>[1] = ev /\ <<ev>> = Append(<<>>, ev)
    BY <1>5, <1>6
  <2>2. Cut(buf'[t], t, ns)
    <3>1. Cut(<<>>, t, last) /\ <<>> \in Seq(Entries)
      BY DEF Cut
    <3>2. Cut(Append(<<>>, ev), t, ns)
      BY <1>1, <3>1, CutGrows DEF ev
    <3> QED
      BY <2>1, <3>2
  <2>3. \A u \in Tids : Cut(buf'[u], u, ns)
    BY <1>3, <1>5, <2>2
  <2>4. \A u \in Tids : \A k \in DOMAIN emitted : Apart(buf'[u], emitted[k])
    <3>1. \A k \in DOMAIN emitted : Apart(buf'[t], emitted[k])
      BY <1>1, <1>4, <2>1 DEF Apart
    <3>2. \A u \in Tids : \A k \in DOMAIN emitted : Apart(buf[u], emitted[k])
      BY DEF Windows, Sorted
    <3> QED
      BY <1>5, <3>1, <3>2
  <2>5. CASE ~window
    BY <1>2, <1>3, <2>3, <2>4, <2>5 DEF Windows, Sorted
  <2>6. CASE window
    <3>1. /\ DOMAIN emitted = 1 .. Len(emitted) /\ Len(emitted) \in Nat
          /\ DOMAIN emitted' = 1 .. Len(emitted) + 1
          /\ \A k \in 1 .. Len(emitted) : emitted'[k] = emitted[k]
          /\ emitted'[Len(emitted) + 1] = b
      BY <1>1, <1>2, <2>6, Appended
    <3>2. \A u \in Tids : Apart(buf'[u], b)
      <4>1. Apart(buf'[t], b)
        BY <1>1, <1>4, <2>1 DEF Apart
      <4>2. ASSUME NEW u \in Tids \ {t} PROVE Apart(buf'[u], b)
        <5>1. Cut(buf[u], u, last) /\ Cut(b, t, last) /\ buf'[u] = buf[u] /\ u # t
          BY <1>1, <1>3, <1>5, <4>2
        <5>2. \A i \in DOMAIN buf[u] : trace[buf[u][i].event].tid = u
          BY <5>1 DEF Cut
        <5>3. \A j \in DOMAIN b : trace[b[j].event].tid = t
          BY <5>1 DEF Cut
        <5> QED
          BY <5>1, <5>2, <5>3 DEF Apart
      <4> QED
        BY <4>1, <4>2
    <3>3. \A k \in DOMAIN emitted : Apart(b, emitted[k]) /\ Apart(emitted[k], b)
      BY <1>1 DEF Apart, Windows, Sorted
    <3>4. Cut(b, t, ns) /\ Len(b) >= MinEvents
      BY <1>1, <1>3, <2>6
    <3>5. ASSUME NEW k \in DOMAIN emitted'
          PROVE  /\ Len(emitted'[k]) >= MinEvents /\ \E u \in Tids : Cut(emitted'[k], u, ns)
                 /\ \A u \in Tids : Apart(buf'[u], emitted'[k])
                 /\ \A n \in DOMAIN emitted' \ {k} : Apart(emitted'[n], emitted'[k])
      <4>1. CASE k \in DOMAIN emitted
        <5>1. emitted'[k] = emitted[k] /\ \A n \in DOMAIN emitted \ {k} : Apart(emitted[n], emitted[k])
          BY <3>1, <4>1 DEF Windows, Sorted
        <5>2. \A n \in DOMAIN emitted' \ {k} : Apart(emitted'[n], emitted'[k])
          BY <3>1, <3>3, <4>1, <5>1
        <5> QED
          BY <1>3, <2>4, <4>1, <5>1, <5>2
      <4>2. CASE k = Len(emitted) + 1
        <5>1. emitted'[k] = b
          BY <3>1, <4>2
        <5>2. \A n \in DOMAIN emitted' \ {k} : n \in DOMAIN emitted /\ emitted'[n] = emitted[n]
          BY <3>1, <4>2
        <5> QED
          BY <1>1, <3>2, <3>3, <3>4, <5>1, <5>2
      <4> QED
        BY <3>1, <4>1, <4>2
    <3> HIDE DEF ns
    <3> QED
      BY <2>3, <3>5 DEF Sorted, ns
  <2> QED
    BY <2>5, <2>6
<1>7. CASE ~full
  <2>1. buf'[t] = Append(b, ev) /\ emitted' = emitted
    BY <1>2, <1>5, <1>7
  <2>2. b # <<>> => ns - b[1].ns < Window
    <3>1. b # <<>> => b[1] \in Entries
      BY <1>1
    <3> QED
      BY <1>1, <1>7, <3>1, SizeAssumption DEF Completes, Entries
  <2>3. Cut(Append(b, ev), t, ns)
    BY <1>1, <1>3, <2>2, CutGrows DEF ev
  <2>4. \A u \in Tids : Cut(buf'[u], u, ns)
    BY <1>3, <1>5, <2>1, <2>3
  <2>5. \A i \in DOMAIN Append(b, ev) : (i \in DOMAIN b /\ Append(b, ev)[i] = b[i])
                                        \/ Append(b, ev)[i] = ev
    <3>1. /\ DOMAIN b = 1 .. Len(b) /\ Len(b) \in Nat /\ DOMAIN Append(b, ev) = 1 .. Len(b) + 1
          /\ \A i \in 1 .. Len(b) : Append(b, ev)[i] = b[i]
          /\ Append(b, ev)[Len(b) + 1] = ev
      BY <1>1, Appended
    <3> QED
      BY <3>1
  <2>6. \A u \in Tids : \A k \in DOMAIN emitted : Apart(buf'[u], emitted[k])
    <3>1. \A k \in DOMAIN emitted : Apart(Append(b, ev), emitted[k])
      <4>1. \A k \in DOMAIN emitted : Apart(b, emitted[k])
        BY <1>1 DEF Windows, Sorted
      <4> QED
        BY <1>1, <1>4, <2>5, <4>1 DEF Apart
    <3>2. \A u \in Tids \ {t} : \A k \in DOMAIN emitted : Apart(buf'[u], emitted[k])
      BY <1>5 DEF Windows, Sorted
    <3> QED
      BY <2>1, <3>1, <3>2
  <2> QED
    BY <1>3, <2>1, <2>4, <2>6 DEF Windows, Sorted
<1> QED
  BY <1>6, <1>7

LEMMA WindowsStep ==
    ASSUME TypeOK, Steady(trace), Timed, Windows, [Next]_vars PROVE Windows'
<1>1. trace' = trace
  BY DEF Next, Flush, Reader, ReadLine, EndPass, NextPass, ScoreInline, Put, DropOldest, PutAgain,
         StopWorker, Join, Interrupt, Inference, LoopTest, Get, Score, Die, Terminated, vars, config
<1>2. Sorted(buf', emitted', last')
  <2>1. CASE ReadLine
    <3>1. PICK e \in DOMAIN trace :
             \/ TrueNs(e) > last /\ last' = TrueNs(e) /\ Feed(e, TrueNs(e))
             \/ TrueNs(e) <= last /\ UNCHANGED <<last, buf, emitted, main>>
      BY <2>1, NextLine
    <3>2. e \in Nat /\ TrueNs(e) \in Nat
      BY TraceTimes
    <3> QED
      BY <3>1, <3>2, FeedSorts DEF Windows
  <2>2. CASE UNCHANGED <<last, buf, emitted>>
    BY <2>2 DEF Windows
  <2> QED
    BY <2>1, <2>2 DEF Next, Flush, Reader, EndPass, NextPass, ScoreInline, Put, DropOldest,
       PutAgain, StopWorker, Join, Interrupt, Inference, LoopTest, Get, Score, Die, Terminated,
       vars, stream
<1>3. \A e : TrueNs(e)' = TrueNs(e)
  BY <1>1 DEF TrueNs, Dawn
<1>4. ASSUME NEW t \in Tids PROVE Cut(buf[t], t, last)'
  <2>1. Cut(buf'[t], t, last')
    BY <1>2 DEF Sorted
  <2> QED
    BY <1>1, <1>3, <2>1 DEF Cut
<1>5. ASSUME NEW k \in DOMAIN emitted', NEW t, Cut(emitted'[k], t, last')
      PROVE  Cut(emitted[k], t, last)'
  BY <1>1, <1>3, <1>5 DEF Cut
<1>6. ASSUME NEW k \in DOMAIN emitted'
      PROVE  /\ Len(emitted'[k]) >= MinEvents /\ \E t \in Tids : Cut(emitted[k], t, last)'
             /\ \A t \in Tids : Apart(buf[t], emitted[k])'
             /\ \A n \in DOMAIN emitted' \ {k} : Apart(emitted[n], emitted[k])'
  BY <1>2, <1>5 DEF Sorted, Apart
<1> QED
  BY <1>4, <1>6 DEF Windows, Sorted

Reading == Timed /\ Windows

LEMMA AlwaysReading ==
    ASSUME \A t \in Traces : Steady(t)
    PROVE  Spec => [](TypeOK /\ Steady(trace) /\ Reading)
<1>1. TypeOK => Steady(trace)
  BY DEF TypeOK
<1>2. Init => Windows
  BY DEF Init, Windows, Sorted, Cut
<1>3. Init => TypeOK /\ Steady(trace) /\ Reading
  BY <1>1, <1>2, TypeInit, TimedInit DEF Reading
<1>4. TypeOK /\ Steady(trace) /\ Reading /\ [Next]_vars => (TypeOK /\ Steady(trace) /\ Reading)'
  <2> SUFFICES ASSUME TypeOK, Steady(trace), Reading, [Next]_vars
               PROVE  (TypeOK /\ Steady(trace) /\ Reading)'
    OBVIOUS
  <2>1. TypeOK' /\ Timed' /\ Windows'
    BY TypeStep, TimedStep, WindowsStep DEF Reading
  <2>2. Steady(trace)'
    <3>1. trace' \in Traces
      BY <2>1 DEF TypeOK
    <3> QED
      BY <3>1 DEF Steady
  <2> QED
    BY <2>1, <2>2 DEF Reading
<1> QED
  BY <1>3, <1>4, PTL DEF Spec

(* All windows are cut from one thread. *)
LEMMA AllCut ==
    ASSUME TypeOK, Windows, NEW w \in AllEntries
    PROVE  \E t \in Tids : Cut(w, t, last)
<1>1. CASE w \in Ranged(emitted)
  BY <1>1 DEF Ranged, Windows, Sorted
<1>2. CASE w \in Ranged(buf)
  BY <1>2 DEF Ranged, Windows, Sorted, TypeOK
<1> QED
  BY <1>1, <1>2 DEF AllEntries

(* On a steady trace the times the windows are cut by are the true ones,   *)
(* past every midnight and in every pass that starts over.                 *)
THEOREM TimesStayTrue ==
    ASSUME \A t \in Traces : Steady(t)
    PROVE  Spec => []TimesAreTrue
<1>1. ASSUME TypeOK, Reading PROVE TimesAreTrue
  <2>1. ASSUME NEW w \in AllEntries, NEW x \in Ranged(w)
        PROVE  x.ns = trace[x.event].at - (trace[1].at \div Day) * Day
    BY <1>1, <2>1, AllCut DEF Reading, Ranged, Cut, TrueNs, Dawn
  <2>2. pass.pos # 0 /\ (replay \/ pass.fresh) =>
            last = trace[pass.pos].at - (trace[1].at \div Day) * Day
    BY <1>1 DEF Reading, Timed, TrueNs, Dawn
  <2> QED
    BY <2>1, <2>2 DEF TimesAreTrue
<1> QED
  BY <1>1, AlwaysReading, PTL

(* Entries of a window: of one thread, within its length, and in order.    *)
LEMMA CutIsWindow ==
    ASSUME TypeOK, Steady(trace), NEW w, NEW t, Cut(w, t, last), DOMAIN w \subseteq Nat \ {0},
           NEW i \in DOMAIN w, NEW j \in DOMAIN w, 1 \in DOMAIN w
    PROVE  /\ trace[w[i].event].tid = trace[w[j].event].tid
           /\ trace[w[i].event].at - trace[w[j].event].at < Window
           /\ i < j => w[i].event < w[j].event
<1>1. \A k \in DOMAIN w : /\ w[k].event \in DOMAIN trace /\ trace[w[k].event].tid = t
                          /\ w[k].ns = TrueNs(w[k].event) /\ w[k].ns - w[1].ns < Window
  BY DEF Cut
<1>2. ASSUME NEW k \in DOMAIN w
      PROVE  /\ w[k].event \in Nat /\ w[k].ns \in Nat /\ Dawn(1) \in Int
             /\ trace[w[k].event].at \in Nat
             /\ w[k].ns = trace[w[k].event].at - Dawn(1)
  <2> DEFINE e == w[k].event
  <2>1. e \in DOMAIN trace /\ w[k].ns = TrueNs(e)
    BY <1>1
  <2> HIDE DEF e
  <2>2. /\ e \in Nat /\ TrueNs(e) \in Nat /\ Dawn(1) \in Int /\ trace[e].at \in Nat
        /\ TrueNs(e) = trace[e].at - Dawn(1)
    <3>1. e \in Nat /\ TrueNs(e) \in Nat /\ Dawn(1) \in Int /\ trace[e].at \in Nat
      BY <2>1, TraceTimes
    <3> QED
      BY <3>1 DEF TrueNs
  <2> QED
    BY <2>1, <2>2 DEF e
<1>3. w[1].ns <= w[j].ns
  <2>1. j = 1 \/ 1 < j
    OBVIOUS
  <2> QED
    BY <1>2, <2>1 DEF Cut
<1>4. trace[w[i].event].at - trace[w[j].event].at = w[i].ns - w[j].ns
  BY <1>2
<1>5. w[i].ns - w[j].ns < Window
  BY <1>1, <1>2, <1>3, SizeAssumption
<1>6. i < j => w[i].event < w[j].event
  <2> SUFFICES ASSUME i < j, w[j].event <= w[i].event PROVE FALSE
    BY <1>2
  <2>1. TrueNs(w[j].event) <= TrueNs(w[i].event)
    BY <1>1, TraceTimes
  <2>2. w[i].ns < w[j].ns
    BY DEF Cut
  <2> QED
    BY <1>1, <1>2, <2>1, <2>2
<1> QED
  BY <1>1, <1>4, <1>5, <1>6

(* Every window is one thread's, shorter than the window length and long   *)
(* enough to be scored, and although a live trace is read again in every   *)
(* pass no event is in two windows.                                        *)
THEOREM WindowsStayWindows ==
    ASSUME \A t \in Traces : Steady(t)
    PROVE  Spec => []WindowsAreWindows
<1>1. ASSUME TypeOK, Steady(trace), Reading PROVE WindowsAreWindows
  <2> DEFINE Events(w) == {x.event : x \in Ranged(w)}
  <2>1. Windows /\ emitted \in Seq(Seq(Entries)) /\ buf \in [Tids -> Seq(Entries)]
    BY <1>1 DEF Reading, TypeOK
  <2>2. ASSUME NEW w \in AllEntries
        PROVE  w \in Seq(Entries) /\ DOMAIN w \subseteq Nat \ {0} /\ (DOMAIN w # {} => 1 \in DOMAIN w)
    <3>1. w \in Seq(Entries)
      <4> DEFINE S == Seq(Entries)
      <4>1. \A k \in DOMAIN emitted : emitted[k] \in S
        BY <2>1
      <4>2. \A t \in Tids : buf[t] \in S /\ DOMAIN buf = Tids
        BY <2>1
      <4> QED
        BY <2>1, <4>1, <4>2 DEF AllEntries, Ranged
    <3>2. DOMAIN w = 1 .. Len(w) /\ Len(w) \in Nat
      BY <3>1
    <3> QED
      BY <3>1, <3>2
  <2>3. ASSUME NEW w \in AllEntries, NEW i \in DOMAIN w, NEW j \in DOMAIN w
        PROVE  /\ trace[w[i].event].tid = trace[w[j].event].tid
               /\ trace[w[i].event].at - trace[w[j].event].at < Window
               /\ i < j => w[i].event < w[j].event
    BY <1>1, <2>1, <2>2, <2>3, AllCut, CutIsWindow
  <2>4. Ranged(emitted) \subseteq AllEntries
    BY DEF AllEntries
  <2>5. ASSUME NEW w \in Ranged(emitted)
        PROVE  /\ \A x, y \in Ranged(w) : /\ trace[x.event].tid = trace[y.event].tid
                                          /\ trace[x.event].at - trace[y.event].at < Window
               /\ Len(w) >= MinEvents
    <3>1. Len(w) >= MinEvents
      BY <2>1, <2>5 DEF Windows, Sorted, Ranged
    <3>2. \A x, y \in Ranged(w) : /\ trace[x.event].tid = trace[y.event].tid
                                  /\ trace[x.event].at - trace[y.event].at < Window
      BY <2>3, <2>4 DEF Ranged
    <3> QED
      BY <3>1, <3>2
  <2>6. \A w \in AllEntries : \A i, j \in DOMAIN w : i < j => w[i].event < w[j].event
    BY <2>3
  <2>7. ASSUME NEW v, NEW w, Apart(v, w) PROVE Events(v) \cap Events(w) = {}
    BY <2>7 DEF Apart, Ranged
  <2>8. ASSUME NEW k \in DOMAIN emitted
        PROVE  /\ \A t \in Tids : Events(buf[t]) \cap Events(emitted[k]) = {}
               /\ \A l \in DOMAIN emitted \ {k} : Events(emitted[l]) \cap Events(emitted[k]) = {}
    <3>1. /\ \A t \in Tids : Apart(buf[t], emitted[k])
          /\ \A l \in DOMAIN emitted \ {k} : Apart(emitted[l], emitted[k])
      BY <2>1 DEF Windows, Sorted
    <3> HIDE DEF Events
    <3> QED
      BY <2>7, <3>1
  <2> QED
    BY <2>5, <2>6, <2>8 DEF WindowsAreWindows
<1> QED
  BY <1>1, AlwaysReading, PTL
=============================================================================
