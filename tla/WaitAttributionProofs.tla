----------------------- MODULE WaitAttributionProofs -----------------------
(***************************************************************************)
(* Proofs about WaitAttribution, for any set of threads, syscalls and      *)
(* families, any length of the day, and budgets without bound: the state   *)
(* is well typed, no bucket of a thread LTTng lost nothing of is           *)
(* overstated, and no time is attributed twice.                            *)
(***************************************************************************)
EXTENDS WaitAttribution, SetLemmas

(* The clock's difference never exceeds the true one.                      *)
LEMMA ClockDifference ==
    ASSUME NEW d \in Nat \ {0}, NEW a \in Nat, NEW b \in Nat, a <= b, b % d > a % d
    PROVE  (b % d) - (a % d) <= b - a
<1> DEFINE qa == a \div d
           qb == b \div d
           ra == a % d
           rb == b % d
<1>1. qa \in Int /\ qb \in Int /\ ra \in 0 .. d - 1 /\ rb \in 0 .. d - 1
  OBVIOUS
<1>2. a = d * qa + ra /\ b = d * qb + rb
  OBVIOUS
<1> HIDE DEF qa, qb, ra, rb
<1>3. CASE qa <= qb
  <2>1. d * qa <= d * qb
    BY <1>1, <1>3
  <2>2. d * qa \in Int /\ d * qb \in Int
    BY <1>1
  <2> QED
    BY <1>1, <1>2, <2>1, <2>2 DEF ra, rb
<1>4. CASE qb < qa
  <2>1. d * (qb + 1) <= d * qa
    BY <1>1, <1>4
  <2>2. d * (qb + 1) = d * qb + d /\ d * qa \in Int /\ d * qb \in Int
    BY <1>1
  <2>3. b < a
    BY <1>1, <1>2, <2>1, <2>2
  <2> QED
    BY <2>3
<1> QED
  BY <1>1, <1>3, <1>4

LEMMA FamilyType ==
    ASSUME NEW c \in Calls \cup {None}
    PROVE  FamilyOf(c) \in Blocked
BY CallsAssumption DEF FamilyOf, Blocked

LEMMA DoingType ==
    ASSUME TypeOK, NEW t \in Threads
    PROVE  Doing(t) \in Categories \cup {"halted"}
<1>1. FamilyOf(open[t]) \in Blocked
  BY FamilyType DEF TypeOK
<1>2. real[t] \in {"on", "run", "blk", "halt"}
  BY DEF TypeOK
<1> QED
  BY <1>1, <1>2 DEF Doing, Categories

(* What add() adds is at most the time since the thread's last event.      *)
LEMMA SpentBound ==
    ASSUME TypeOK, NEW t \in Threads
    PROVE  Spent(t) \in Nat /\ Spent(t) <= now - at[t] /\ Clock \in 0 .. Day - 1
<1>1. now \in Nat /\ at[t] \in Nat /\ at[t] <= now /\ last[t] = at[t] % Day
  BY DEF TypeOK
<1>2. now % Day \in 0 .. Day - 1 /\ at[t] % Day \in 0 .. Day - 1
  BY <1>1, DayAssumption
<1>3. CASE now % Day > at[t] % Day
  <2>1. (now % Day) - (at[t] % Day) <= now - at[t]
    BY <1>1, <1>3, DayAssumption, ClockDifference
  <2> QED
    BY <1>1, <1>2, <1>3, <2>1, DayAssumption DEF Spent, Clock
<1>4. CASE ~(now % Day > at[t] % Day)
  BY <1>1, <1>2, <1>4, DayAssumption DEF Spent, Clock
<1> QED
  BY <1>3, <1>4

LEMMA AddFacts ==
    ASSUME TypeOK, NEW t \in Threads, NEW c \in Categories
    PROVE  /\ Add(t, c) \in [Categories -> Nat]
           /\ Add(t, c)[c] = acc[t][c] + Spent(t)
           /\ \A d \in Categories : d # c => Add(t, c)[d] = acc[t][d]
<1>1. acc[t] \in [Categories -> Nat]
  BY DEF TypeOK
<1>2. Spent(t) \in Nat
  BY SpentBound
<1> QED
  BY <1>1, <1>2 DEF Add

LEMMA StampType ==
    ASSUME TypeOK, NEW T, Stamp(T), now' = now
    PROVE  /\ last' \in [Threads -> 0 .. Day - 1]
           /\ at' \in [Threads -> Nat] /\ first' \in [Threads -> Nat]
           /\ \A t \in Threads :
                  first'[t] <= at'[t] /\ at'[t] <= now' /\ last'[t] = at'[t] % Day
<1>1. \A t \in Threads : Clock \in 0 .. Day - 1
  BY SpentBound
<1>2. now \in Nat /\ \A t \in Threads :
          /\ last[t] \in 0 .. Day - 1 /\ at[t] \in Nat /\ first[t] \in Nat
          /\ first[t] <= at[t] /\ at[t] <= now /\ last[t] = at[t] % Day
  BY DEF TypeOK
<1>3. last' \in [Threads -> 0 .. Day - 1]
  BY <1>1, <1>2 DEF Stamp
<1>4. at' \in [Threads -> Nat] /\ first' \in [Threads -> Nat]
  BY <1>2 DEF Stamp
<1>5. ASSUME NEW t \in Threads
      PROVE  first'[t] <= at'[t] /\ at'[t] <= now' /\ last'[t] = at'[t] % Day
  BY <1>2 DEF Stamp, Clock
<1> QED
  BY <1>3, <1>4, <1>5

LEMMA LostType ==
    ASSUME TypeOK, NEW T \in SUBSET Threads, Lost(T)
    PROVE  lossy' \subseteq Threads /\ left' \in Bounds
<1>1. left \in Bounds /\ left.lost \in Nat /\ left.lost > 0
  BY DEF TypeOK, Lost, Bounds
<1>2. left.lost - 1 \in Nat
  BY <1>1
<1>3. left' = [left EXCEPT !.lost = @ - 1]
  BY DEF Lost
<1>4. left' \in Bounds
  BY <1>1, <1>2, <1>3 DEF Bounds
<1>5. lossy' \subseteq Threads
  BY DEF TypeOK, Lost
<1> QED
  BY <1>4, <1>5

LEMMA TypeInit == Init => TypeOK
<1> SUFFICES ASSUME Init PROVE TypeOK
  OBVIOUS
<1>1. 0 % Day = 0 /\ 0 \in 0 .. Day - 1
  BY DayAssumption
<1>2. left \in Bounds
  BY BudgetsAssumption DEF Init
<1>3. real \in [Threads -> {"on", "run", "blk", "halt"}] /\ open \in [Threads -> Calls \cup {None}]
  BY DEF Init
<1>4. /\ truth \in [Threads -> [Categories \cup {"halted"} -> Nat]]
      /\ acc \in [Threads -> [Categories -> Nat]]
  BY DEF Init
<1>5. /\ blk \in [Threads -> Blocked] /\ opsys \in [Threads -> Calls \cup {None}]
      /\ st \in [Threads -> {"off", "on", "run", "blk"}]
  BY DEF Init, Blocked
<1>6. /\ last \in [Threads -> 0 .. Day - 1]
      /\ at \in [Threads -> Nat] /\ first \in [Threads -> Nat]
      /\ \A t \in Threads : first[t] <= at[t] /\ at[t] <= now /\ last[t] = at[t] % Day
  BY <1>1 DEF Init
<1> QED
  BY <1>2, <1>3, <1>4, <1>5, <1>6 DEF Init, TypeOK

LEMMA TypeTick == ASSUME TypeOK, Tick PROVE TypeOK'
<1>1. truth' \in [Threads -> [Categories \cup {"halted"} -> Nat]]
  <2> SUFFICES ASSUME NEW t \in Threads
               PROVE  [truth[t] EXCEPT ![Doing(t)] = @ + 1] \in [Categories \cup {"halted"} -> Nat]
    BY DEF Tick
  <2>1. truth[t] \in [Categories \cup {"halted"} -> Nat] /\ Doing(t) \in Categories \cup {"halted"}
    BY DoingType DEF TypeOK
  <2> QED
    BY <2>1
<1>2. left' \in Bounds
  <2>1. left \in Bounds /\ left.time - 1 \in Nat
    BY DEF TypeOK, Tick, Bounds
  <2>2. left' = [left EXCEPT !.time = @ - 1]
    BY DEF Tick
  <2> QED
    BY <2>1, <2>2 DEF Bounds
<1>3. now' \in Nat /\ \A t \in Threads :
          first'[t] <= at'[t] /\ at'[t] <= now' /\ last'[t] = at'[t] % Day
  BY DEF TypeOK, Tick, script, histories
<1> QED
  BY <1>1, <1>2, <1>3 DEF TypeOK, Tick, kernel, script, histories

LEMMA TypeSwitch ==
    ASSUME TypeOK, NEW p \in Threads \cup {None}, NEW n \in Threads \cup {None}, Switch(p, n)
    PROVE  TypeOK'
<1>1. PICK to \in {"run", "blk", "halt"} :
         /\ real' = [t \in Threads |-> IF t = p THEN to ELSE IF t = n THEN "on" ELSE real[t]]
         /\ ReadSwitch(p, n, to) \/ Lost({p, n} \cap Threads)
  BY DEF Switch
<1>2. real' \in [Threads -> {"on", "run", "blk", "halt"}] /\ now' = now /\ open' = open /\ truth' = truth
  BY <1>1 DEF Switch, TypeOK
<1>3. CASE ReadSwitch(p, n, to)
  <2> DEFINE N == {n} \cap known
  <2>1. known' \subseteq Threads /\ st' \in [Threads -> {"off", "on", "run", "blk"}]
    BY <1>3 DEF ReadSwitch, TypeOK
  <2>2. blk' \in [Threads -> Blocked]
    <3>1. blk \in [Threads -> Blocked] /\ (p # None => FamilyOf(opsys[p]) \in Blocked)
      BY FamilyType DEF TypeOK
    <3> QED
      BY <1>3, <3>1 DEF ReadSwitch
  <2>3. acc' \in [Threads -> [Categories -> Nat]]
    <3> SUFFICES ASSUME NEW t \in Threads
                 PROVE  OutAcc(t) \in [Categories -> Nat] /\ InAcc(t) \in [Categories -> Nat]
      BY <1>3 DEF ReadSwitch, TypeOK
    <3>1. acc[t] \in [Categories -> Nat] /\ blk[t] \in Categories
      BY DEF TypeOK, Categories
    <3>2. "on_cpu" \in Categories /\ "runnable_wait" \in Categories
      BY DEF Categories
    <3>3. /\ Add(t, "on_cpu") \in [Categories -> Nat]
          /\ Add(t, "runnable_wait") \in [Categories -> Nat]
          /\ Add(t, blk[t]) \in [Categories -> Nat]
      BY <3>1, <3>2, AddFacts
    <3> QED
      BY <3>1, <3>3 DEF OutAcc, InAcc
  <2>4. Stamp({p} \cup N)
    BY <1>3 DEF ReadSwitch
  <2>5. gap' \subseteq Threads
    BY <1>3 DEF ReadSwitch, TypeOK
  <2>6. UNCHANGED <<opsys, lossy, left>>
    BY <1>3 DEF ReadSwitch
  <2> HIDE DEF N
  <2>7. /\ last' \in [Threads -> 0 .. Day - 1]
        /\ at' \in [Threads -> Nat] /\ first' \in [Threads -> Nat]
        /\ \A t \in Threads : first'[t] <= at'[t] /\ at'[t] <= now' /\ last'[t] = at'[t] % Day
    BY <1>2, <2>4, StampType
  <2> QED
    BY <1>2, <2>1, <2>2, <2>3, <2>5, <2>6, <2>7 DEF TypeOK
<1>4. CASE Lost({p, n} \cap Threads)
  <2>1. lossy' \subseteq Threads /\ left' \in Bounds
    BY <1>4, LostType
  <2>2. UNCHANGED <<script, histories>>
    BY <1>4 DEF Lost
  <2> QED
    BY <1>2, <2>1, <2>2 DEF TypeOK, script, histories
<1> QED
  BY <1>1, <1>3, <1>4

LEMMA TypeWake ==
    ASSUME TypeOK, NEW t \in Threads, Wake(t)
    PROVE  TypeOK'
<1>1. real' \in [Threads -> {"on", "run", "blk", "halt"}] /\ now' = now /\ open' = open /\ truth' = truth
  BY DEF Wake, TypeOK
<1>2. CASE /\ ReadWake(t) /\ lossy' = lossy
           /\ left' = [left EXCEPT !.wakes = @ - 1]
  <2>1. left' \in Bounds
    <3>1. left \in Bounds /\ left.wakes - 1 \in Nat
      BY DEF TypeOK, Wake, Bounds
    <3> QED
      BY <1>2, <3>1 DEF Bounds
  <2>4. known' \subseteq Threads
    BY <1>2 DEF ReadWake, TypeOK
  <2>2. CASE t \in known'
    <3>1. Stamp({t}) /\ st' = [st EXCEPT ![t] = "run"] /\ acc' = [acc EXCEPT ![t] = WakeAcc(t)]
      BY <1>2, <2>2 DEF ReadWake
    <3>2. WakeAcc(t) \in [Categories -> Nat]
      <4>1. acc[t] \in [Categories -> Nat] /\ blk[t] \in Categories
        BY DEF TypeOK, Categories
      <4> QED
        BY <4>1, AddFacts DEF WakeAcc
    <3>3. st' \in [Threads -> {"off", "on", "run", "blk"}] /\ acc' \in [Threads -> [Categories -> Nat]]
      BY <3>1, <3>2 DEF TypeOK
    <3>4. gap' \subseteq Threads
      BY <1>2, <2>2 DEF ReadWake, TypeOK
    <3>5. /\ last' \in [Threads -> 0 .. Day - 1]
          /\ at' \in [Threads -> Nat] /\ first' \in [Threads -> Nat]
          /\ \A u \in Threads : first'[u] <= at'[u] /\ at'[u] <= now' /\ last'[u] = at'[u] % Day
      BY <1>1, <3>1, StampType
    <3>6. UNCHANGED <<blk, opsys>> /\ lossy' = lossy
      BY <1>2 DEF ReadWake
    <3> QED
      BY <1>1, <2>1, <2>4, <3>3, <3>4, <3>5, <3>6 DEF TypeOK
  <2>3. CASE t \notin known'
    <3>1. UNCHANGED <<acc, st, last, at, first, gap, blk, opsys, lossy>>
      BY <1>2, <2>3 DEF ReadWake
    <3> QED
      BY <1>1, <2>1, <2>4, <3>1 DEF TypeOK
  <2> QED
    BY <2>2, <2>3
<1>3. CASE Lost({t})
  <2>1. lossy' \subseteq Threads /\ left' \in Bounds
    BY <1>3, LostType
  <2>2. UNCHANGED <<script, histories>>
    BY <1>3 DEF Lost
  <2> QED
    BY <1>1, <2>1, <2>2 DEF TypeOK, script, histories
<1> QED
  BY <1>2, <1>3 DEF Wake

LEMMA TypeSyscall ==
    ASSUME TypeOK, NEW t \in Threads, NEW c \in Calls, NEW enters \in BOOLEAN,
           Syscall(t, c, enters)
    PROVE  TypeOK'
<1>1. open' \in [Threads -> Calls \cup {None}] /\ now' = now /\ real' = real /\ truth' = truth
  BY DEF Syscall, TypeOK
<1>2. CASE /\ known' = known \cup {t}
           /\ opsys' = [opsys EXCEPT ![t] = Opened(t, c, enters)]
           /\ left' = [left EXCEPT !.calls = @ - 1]
           /\ UNCHANGED <<st, blk, last, acc, histories, lossy>>
  <2>1. left' \in Bounds
    <3>1. left \in Bounds /\ left.calls - 1 \in Nat
      BY DEF TypeOK, Syscall, Bounds
    <3> QED
      BY <1>2, <3>1 DEF Bounds
  <2>2. known' \subseteq Threads /\ opsys' \in [Threads -> Calls \cup {None}]
    BY <1>2 DEF TypeOK, Opened
  <2> QED
    BY <1>1, <1>2, <2>1, <2>2 DEF TypeOK, histories
<1>3. CASE Lost({t})
  <2>1. lossy' \subseteq Threads /\ left' \in Bounds
    BY <1>3, LostType
  <2>2. UNCHANGED <<script, histories>>
    BY <1>3 DEF Lost
  <2> QED
    BY <1>1, <2>1, <2>2 DEF TypeOK, script, histories
<1> QED
  BY <1>2, <1>3 DEF Syscall

(* Who takes part in a step is a thread. *)
LEMMA TeamType == TypeOK => left.team \subseteq Threads
BY DEF TypeOK, Bounds

(* The state is well typed: accumulated times are never negative, and the  *)
(* script's clock value of a thread's last event is that of its true time. *)
THEOREM TypeCorrect == Spec => []TypeOK
<1>1. ASSUME TypeOK, [Next]_vars PROVE TypeOK'
  <2>1. CASE Tick
    BY <1>1, <2>1, TypeTick
  <2>2. ASSUME NEW p \in left.team \cup {None}, NEW n \in left.team \cup {None}, Switch(p, n)
        PROVE  TypeOK'
    BY <1>1, <2>2, TeamType, TypeSwitch
  <2>3. ASSUME NEW t \in left.team, Wake(t)
        PROVE  TypeOK'
    BY <1>1, <2>3, TeamType, TypeWake
  <2>4. ASSUME NEW t \in left.team, NEW c \in Calls, NEW enters \in BOOLEAN, Syscall(t, c, enters)
        PROVE  TypeOK'
    BY <1>1, <2>4, TeamType, TypeSyscall
  <2>5. CASE UNCHANGED vars
    BY <1>1, <2>5 DEF TypeOK, vars, kernel, script, histories
  <2> QED
    BY <1>1, <2>1, <2>2, <2>3, <2>4, <2>5 DEF Next
<1> QED
  BY <1>1, TypeInit, PTL DEF Spec

-----------------------------------------------------------------------------
(* The strengthening of NeverOverstated: what the script believes of a     *)
(* thread none of whose events is lost, and that even with the time since  *)
(* its last event, which the next event may add, no bucket is overstated.  *)
Follows(t) ==
    /\ opsys[t] \in {None, open[t]}
    /\ t \notin known => st[t] = "off"
    /\ st[t] = "on" => real[t] = "on"
    /\ st[t] = "run" => real[t] # "blk"
    /\ st[t] = "blk" => real[t] = "blk" /\ blk[t] \in {"blocked_other", FamilyOf(open[t])}

Owes(t, c) ==
    \/ st[t] = "on" /\ c = "on_cpu"
    \/ st[t] = "run" /\ real[t] = "run" /\ c = "runnable_wait"
    \/ st[t] = "blk" /\ c = blk[t]

Owed(t, c) == IF Owes(t, c) THEN now - at[t] ELSE 0

Covered(t) ==
    \A c \in Categories \ {"blocked_other"} : acc[t][c] + Owed(t, c) <= truth[t][c]

Tracked == \A t \in Threads \ lossy : Follows(t) /\ Covered(t)

LEMMA OwedType ==
    ASSUME TypeOK, NEW t \in Threads, NEW c \in Categories
    PROVE  Owed(t, c) \in Nat /\ acc[t][c] \in Nat /\ truth[t][c] \in Nat
BY DEF TypeOK, Owed

LEMMA NothingAdded ==
    ASSUME TypeOK, NEW t \in Threads, Covered(t)
    PROVE  \A c \in Categories \ {"blocked_other"} : acc[t][c] <= truth[t][c]
<1> SUFFICES ASSUME NEW c \in Categories \ {"blocked_other"} PROVE acc[t][c] <= truth[t][c]
  OBVIOUS
<1>1. acc[t][c] + Owed(t, c) <= truth[t][c]
  BY DEF Covered
<1> QED
  BY <1>1, OwedType

(* An interval added to the bucket it is owed to is covered.               *)
LEMMA OwedAdded ==
    ASSUME TypeOK, NEW t \in Threads, Covered(t), NEW o \in Categories, Owes(t, o)
    PROVE  \A c \in Categories \ {"blocked_other"} : Add(t, o)[c] <= truth[t][c]
<1> SUFFICES ASSUME NEW c \in Categories \ {"blocked_other"} PROVE Add(t, o)[c] <= truth[t][c]
  OBVIOUS
<1>1. CASE c = o
  <2>1. Add(t, o)[c] = acc[t][c] + Spent(t) /\ Spent(t) \in Nat /\ Spent(t) <= now - at[t]
    BY <1>1, AddFacts, SpentBound
  <2>2. acc[t][c] + (now - at[t]) <= truth[t][c]
    BY <1>1 DEF Covered, Owed
  <2>3. now \in Nat /\ at[t] \in Nat
    BY DEF TypeOK
  <2> QED
    BY <2>1, <2>2, <2>3, OwedType
<1>2. CASE c # o
  <2>1. Add(t, o)[c] = acc[t][c]
    BY <1>2, AddFacts
  <2> QED
    BY <2>1, NothingAdded
<1> QED
  BY <1>1, <1>2

(* A thread with an event at this moment is owed nothing.                  *)
LEMMA Fresh ==
    ASSUME TypeOK, TypeOK', NEW t \in Threads, now' = now, truth' = truth, at'[t] = now,
           \A c \in Categories \ {"blocked_other"} : acc'[t][c] <= truth[t][c]
    PROVE  Covered(t)'
<1> SUFFICES ASSUME NEW c \in Categories \ {"blocked_other"}
             PROVE  acc'[t][c] + Owed(t, c)' <= truth'[t][c]
  BY DEF Covered
<1>1. Owed(t, c)' = 0
  BY DEF Owed, TypeOK
<1>2. acc'[t][c] \in Nat
  BY DEF TypeOK
<1> QED
  BY <1>1, <1>2

LEMMA Untouched ==
    ASSUME NEW t \in Threads, Follows(t), Covered(t), now' = now, truth' = truth,
           real'[t] = real[t], open'[t] = open[t], opsys'[t] = opsys[t],
           st'[t] = st[t], blk'[t] = blk[t], acc'[t] = acc[t], at'[t] = at[t],
           t \in known => t \in known'
    PROVE  Follows(t)' /\ Covered(t)'
<1>1. Follows(t)'
  BY DEF Follows, FamilyOf
<1>2. Covered(t)'
  BY DEF Covered, Owed, Owes
<1> QED
  BY <1>1, <1>2

LEMMA TrackedTick == ASSUME TypeOK, Tracked, Tick PROVE Tracked'
<1> SUFFICES ASSUME NEW t \in Threads \ lossy PROVE Follows(t)' /\ Covered(t)'
  BY DEF Tracked, Tick
<1>1. Follows(t) /\ Covered(t)
  BY DEF Tracked
<1>2. Follows(t)'
  BY <1>1 DEF Follows, Tick, kernel, script, FamilyOf
<1>3. ASSUME NEW c \in Categories \ {"blocked_other"}
      PROVE  acc'[t][c] + Owed(t, c)' <= truth'[t][c]
  <2>1. acc[t][c] + Owed(t, c) <= truth[t][c] /\ acc'[t][c] = acc[t][c]
    BY <1>1 DEF Covered, Tick, script
  <2>2. /\ acc[t][c] \in Nat /\ Owed(t, c) \in Nat /\ truth[t][c] \in Nat
        /\ now \in Nat /\ at[t] \in Nat
    BY OwedType DEF TypeOK
  <2>3. truth[t] \in [Categories \cup {"halted"} -> Nat]
    BY DEF TypeOK
  <2>4. truth'[t] = [truth[t] EXCEPT ![Doing(t)] = @ + 1]
    BY DEF Tick
  <2>5. CASE Owes(t, c)
    <3>1. c = Doing(t)
      BY <1>1, <2>5 DEF Owes, Follows, Doing
    <3>2. truth'[t][c] = truth[t][c] + 1
      BY <2>3, <2>4, <3>1 DEF Categories
    <3>3. Owed(t, c) = now - at[t] /\ Owed(t, c)' = (now + 1) - at[t]
      BY <2>5 DEF Owed, Owes, Tick, kernel, script, histories
    <3> QED
      BY <2>1, <2>2, <3>2, <3>3
  <2>6. CASE ~Owes(t, c)
    <3>1. Owed(t, c)' = 0 /\ Owed(t, c) = 0
      BY <2>6 DEF Owed, Owes, Tick, kernel, script
    <3>2. truth'[t][c] >= truth[t][c]
      BY <2>2, <2>3, <2>4 DEF Categories
    <3>3. truth'[t][c] \in Nat
      BY <2>2, <2>3, <2>4 DEF Categories
    <3> QED
      BY <2>1, <2>2, <3>1, <3>2, <3>3
  <2> QED
    BY <2>5, <2>6
<1>4. Covered(t)'
  BY <1>3 DEF Covered
<1> QED
  BY <1>2, <1>4

LEMMA TrackedSwitch ==
    ASSUME TypeOK, TypeOK', Tracked,
           NEW p \in Threads \cup {None}, NEW n \in Threads \cup {None}, Switch(p, n)
    PROVE  Tracked'
<1> SUFFICES ASSUME NEW t \in Threads, t \notin lossy' PROVE Follows(t)' /\ Covered(t)'
  BY DEF Tracked
<1>1. PICK to \in {"run", "blk", "halt"} :
         /\ real' = [u \in Threads |-> IF u = p THEN to ELSE IF u = n THEN "on" ELSE real[u]]
         /\ ReadSwitch(p, n, to) \/ Lost({p, n} \cap Threads)
  BY DEF Switch
<1>2. /\ p # n /\ now' = now /\ open' = open /\ truth' = truth
      /\ p \in Threads => real[p] = "on"
      /\ n \in Threads => real[n] = "run"
  BY DEF Switch
<1>3. t \notin lossy
  BY <1>1 DEF ReadSwitch, Lost
<1>4. Follows(t) /\ Covered(t)
  BY <1>3 DEF Tracked
<1>5. CASE Lost({p, n} \cap Threads)
  <2>1. t # p /\ t # n
    BY <1>5 DEF Lost
  <2>2. real'[t] = real[t] /\ UNCHANGED <<script, histories>>
    BY <1>1, <1>5, <2>1 DEF Lost
  <2> QED
    BY <1>2, <1>4, <2>2, Untouched DEF script, histories
<1>6. CASE ReadSwitch(p, n, to)
  <2>1. CASE t = p
    <3>1. /\ real'[t] = to /\ opsys' = opsys /\ t \in known' /\ at'[t] = now
          /\ st'[t] = IF to = "blk" THEN "blk" ELSE "run"
          /\ acc'[t] = OutAcc(t)
      BY <1>1, <1>6, <2>1, CallsAssumption DEF ReadSwitch, Sleeps, Stamp
    <3>2. to = "blk" => blk'[t] = FamilyOf(opsys[t])
      BY <1>6, <2>1, CallsAssumption DEF ReadSwitch, Sleeps, TypeOK
    <3>3. opsys[t] = None => FamilyOf(opsys[t]) = "blocked_other"
      BY CallsAssumption DEF FamilyOf
    <3>4. Follows(t)'
      BY <1>2, <1>4, <3>1, <3>2, <3>3 DEF Follows, FamilyOf
    <3>5. \A c \in Categories \ {"blocked_other"} : acc'[t][c] <= truth[t][c]
      <4>1. CASE st[t] = "on"
        <5>1. Owes(t, "on_cpu") /\ "on_cpu" \in Categories /\ acc'[t] = Add(t, "on_cpu")
          BY <3>1, <4>1 DEF Owes, Categories, OutAcc
        <5> QED
          BY <1>4, <5>1, OwedAdded
      <4>2. CASE st[t] # "on"
        <5>1. acc'[t] = acc[t]
          BY <3>1, <4>2 DEF OutAcc
        <5> QED
          BY <1>4, <5>1, NothingAdded
      <4> QED
        BY <4>1, <4>2
    <3>6. Covered(t)'
      BY <1>2, <3>1, <3>5, Fresh
    <3> QED
      BY <3>4, <3>6
  <2>2. CASE t = n /\ t \in known
    <3>1. /\ real'[t] = "on" /\ opsys' = opsys /\ t \in known' /\ at'[t] = now
          /\ st'[t] = "on" /\ acc'[t] = InAcc(t)
      BY <1>1, <1>2, <1>6, <2>2 DEF ReadSwitch, Stamp
    <3>2. Follows(t)'
      BY <1>2, <1>4, <3>1 DEF Follows
    <3>3. \A c \in Categories \ {"blocked_other"} : acc'[t][c] <= truth[t][c]
      <4>1. CASE st[t] = "run"
        <5>1. real[t] = "run" /\ "runnable_wait" \in Categories
          BY <1>2, <2>2 DEF Categories
        <5>2. Owes(t, "runnable_wait") /\ acc'[t] = Add(t, "runnable_wait")
          BY <3>1, <4>1, <5>1 DEF Owes, InAcc
        <5> QED
          BY <1>4, <5>1, <5>2, OwedAdded
      <4>2. CASE st[t] = "blk"
        BY <1>2, <1>4, <2>2, <4>2 DEF Follows
      <4>3. CASE st[t] \in {"off", "on"}
        <5>1. acc'[t] = acc[t]
          BY <3>1, <4>3 DEF InAcc
        <5> QED
          BY <1>4, <5>1, NothingAdded
      <4> QED
        BY <4>1, <4>2, <4>3 DEF TypeOK
    <3>4. Covered(t)'
      BY <1>2, <3>1, <3>3, Fresh
    <3> QED
      BY <3>2, <3>4
  <2>3. CASE t = n /\ t \notin known
    <3>1. t \notin known' /\ st'[t] = "off" /\ st[t] = "off" /\ acc'[t] = acc[t] /\ opsys' = opsys
      BY <1>2, <1>4, <1>6, <2>3 DEF ReadSwitch, Follows
    <3>2. Follows(t)'
      BY <1>2, <1>4, <3>1 DEF Follows
    <3>3. Covered(t)'
      BY <1>2, <1>4, <3>1 DEF Covered, Owed, Owes
    <3> QED
      BY <3>2, <3>3
  <2>4. CASE t # p /\ t # n
    <3>1. /\ real'[t] = real[t] /\ opsys' = opsys /\ st'[t] = st[t] /\ acc'[t] = acc[t]
          /\ at'[t] = at[t] /\ (t \in known <=> t \in known')
      BY <1>1, <1>6, <2>4 DEF ReadSwitch, Stamp
    <3>2. blk'[t] = blk[t]
      BY <1>6, <2>4 DEF ReadSwitch, TypeOK
    <3> QED
      BY <1>2, <1>4, <3>1, <3>2, Untouched
  <2> QED
    BY <2>1, <2>2, <2>3, <2>4
<1> QED
  BY <1>1, <1>5, <1>6

LEMMA TrackedWake ==
    ASSUME TypeOK, TypeOK', Tracked, NEW w \in Threads, Wake(w)
    PROVE  Tracked'
<1> SUFFICES ASSUME NEW t \in Threads, t \notin lossy' PROVE Follows(t)' /\ Covered(t)'
  BY DEF Tracked
<1>1. /\ real' = [real EXCEPT ![w] = IF @ = "on" THEN "on" ELSE "run"]
      /\ now' = now /\ open' = open /\ truth' = truth
      /\ (ReadWake(w) /\ lossy' = lossy) \/ Lost({w})
  BY DEF Wake
<1>2. t \notin lossy /\ Follows(t) /\ Covered(t)
  BY <1>1 DEF Lost, Tracked
<1>3. CASE t # w
  <2>1. /\ real'[t] = real[t] /\ opsys' = opsys /\ st'[t] = st[t] /\ acc'[t] = acc[t]
        /\ blk' = blk /\ known \subseteq known'
    BY <1>1, <1>3 DEF ReadWake, Lost, script, TypeOK
  <2>2. at'[t] = at[t]
    BY <1>1, <1>3 DEF ReadWake, Lost, histories, Stamp
  <2> QED
    BY <1>1, <1>2, <2>1, <2>2, Untouched
<1>4. CASE t = w
  <2>1. ReadWake(t) /\ real'[t] \in {"on", "run"}
    BY <1>1, <1>4 DEF Lost, TypeOK
  <2>2. CASE t \in known'
    <3>1. /\ st'[t] = "run" /\ acc'[t] = WakeAcc(t) /\ at'[t] = now
          /\ opsys' = opsys /\ blk' = blk /\ known \subseteq known'
      BY <2>1, <2>2 DEF ReadWake, Stamp, TypeOK
    <3>2. Follows(t)'
      BY <1>1, <1>2, <2>1, <2>2, <3>1 DEF Follows
    <3>3. \A c \in Categories \ {"blocked_other"} : acc'[t][c] <= truth[t][c]
      <4>1. CASE st[t] = "blk"
        <5>1. Owes(t, blk[t]) /\ blk[t] \in Categories /\ acc'[t] = Add(t, blk[t])
          BY <3>1, <4>1 DEF Owes, WakeAcc, TypeOK, Categories
        <5> QED
          BY <1>2, <5>1, OwedAdded
      <4>2. CASE st[t] # "blk"
        <5>1. acc'[t] = acc[t]
          BY <3>1, <4>2 DEF WakeAcc
        <5> QED
          BY <1>2, <5>1, NothingAdded
      <4> QED
        BY <4>1, <4>2
    <3>4. Covered(t)'
      BY <1>1, <3>1, <3>3, Fresh
    <3> QED
      BY <3>2, <3>4
  <2>3. CASE t \notin known'
    <3>1. /\ st' = st /\ st[t] = "off" /\ acc' = acc /\ at' = at
          /\ opsys' = opsys /\ blk' = blk /\ known \subseteq known'
      BY <1>2, <2>1, <2>3 DEF ReadWake, Follows
    <3>2. Follows(t)'
      BY <1>1, <1>2, <2>3, <3>1 DEF Follows
    <3>3. Covered(t)'
      BY <1>1, <1>2, <3>1 DEF Covered, Owed, Owes
    <3> QED
      BY <3>2, <3>3
  <2> QED
    BY <2>2, <2>3
<1> QED
  BY <1>3, <1>4

LEMMA TrackedSyscall ==
    ASSUME TypeOK, Tracked, NEW s \in Threads, NEW c \in Calls, NEW enters \in BOOLEAN,
           Syscall(s, c, enters)
    PROVE  Tracked'
<1> SUFFICES ASSUME NEW t \in Threads, t \notin lossy' PROVE Follows(t)' /\ Covered(t)'
  BY DEF Tracked
<1>1. /\ now' = now /\ real' = real /\ truth' = truth /\ real[s] = "on"
      /\ open' = [open EXCEPT ![s] = IF enters THEN c ELSE None]
      /\ IF enters THEN open[s] = None ELSE open[s] = c
  BY DEF Syscall
<1>2. \/ /\ known' = known \cup {s}
         /\ opsys' = [opsys EXCEPT ![s] = Opened(s, c, enters)]
         /\ UNCHANGED <<st, blk, last, acc, histories, lossy>>
      \/ Lost({s})
  BY DEF Syscall
<1>3. t \notin lossy /\ Follows(t) /\ Covered(t)
  BY <1>2 DEF Lost, Tracked
<1>4. CASE t # s
  <2>1. /\ open'[t] = open[t] /\ opsys'[t] = opsys[t] /\ st' = st /\ blk' = blk
        /\ acc' = acc /\ at' = at /\ (t \in known <=> t \in known')
    BY <1>1, <1>2, <1>4 DEF Lost, script, histories, TypeOK
  <2> QED
    BY <1>1, <1>3, <2>1, Untouched
<1>5. CASE t = s
  <2>1. /\ known' = known \cup {t} /\ opsys'[t] = Opened(t, c, enters)
        /\ open'[t] = (IF enters THEN c ELSE None)
        /\ UNCHANGED <<st, blk, acc, at>>
    BY <1>1, <1>2, <1>5 DEF Lost, histories, TypeOK
  <2>2. opsys'[t] \in {None, open'[t]}
    BY <1>1, <1>3, <1>5, <2>1 DEF Follows, Opened
  <2>3. st[t] # "blk"
    BY <1>1, <1>3, <1>5 DEF Follows
  <2>4. Follows(t)'
    BY <1>1, <1>3, <2>1, <2>2, <2>3 DEF Follows
  <2>5. Covered(t)'
    BY <1>1, <1>3, <2>1 DEF Covered, Owed, Owes
  <2> QED
    BY <2>4, <2>5
<1> QED
  BY <1>4, <1>5

LEMMA TrackedInit == Init => Tracked
BY TypeInit DEF Init, Tracked, Follows, Covered, Owed, Owes, Categories

LEMMA TrackedStep == ASSUME TypeOK, TypeOK', Tracked, [Next]_vars PROVE Tracked'
<1>1. CASE Tick
  BY <1>1, TrackedTick
<1>2. ASSUME NEW p \in left.team \cup {None}, NEW n \in left.team \cup {None}, Switch(p, n)
      PROVE  Tracked'
  BY <1>2, TeamType, TrackedSwitch
<1>3. ASSUME NEW t \in left.team, Wake(t) PROVE Tracked'
  BY <1>3, TeamType, TrackedWake
<1>4. ASSUME NEW t \in left.team, NEW c \in Calls, NEW enters \in BOOLEAN, Syscall(t, c, enters)
      PROVE  Tracked'
  BY <1>4, TeamType, TrackedSyscall
<1>5. CASE UNCHANGED vars
  <2>1. UNCHANGED <<now, real, open, truth, known, st, blk, opsys, acc, at, lossy>>
    BY <1>5 DEF vars, kernel, script, histories
  <2> QED
    BY <2>1 DEF Tracked, Follows, Covered, Owed, Owes, FamilyOf
<1> QED
  BY <1>1, <1>2, <1>3, <1>4, <1>5 DEF Next

(* No thread none of whose events is lost is charged more time on a CPU,   *)
(* waiting for one or in a named family of syscalls than it spent there.   *)
THEOREM BucketsAreTrue == Spec => []NeverOverstated
<1>1. TypeOK /\ Tracked => NeverOverstated
  BY NothingAdded DEF Tracked, NeverOverstated
<1> QED
  BY <1>1, TrackedInit, TrackedStep, TypeCorrect, PTL DEF Spec

-----------------------------------------------------------------------------
(* The strengthening of TimeCountedOnce: a thread without an event has     *)
(* nothing, and one of which no event was lost and no time is nobody's is  *)
(* not on a CPU while the script has it runnable.                          *)
Metered(t) ==
    /\ st[t] = "off" => \A c \in Categories : acc[t][c] = 0
    /\ Attributed(t) <= at[t] - first[t]
    /\ t \notin lossy \cup gap => /\ Attributed(t) = at[t] - first[t]
                                  /\ st[t] = "run" => real[t] # "on"

AllMetered == \A t \in Threads : Metered(t)

LEMMA FiniteCategories == IsFiniteSet(Categories)
<1>1. Categories = ({"on_cpu", "runnable_wait"} \cup Families) \cup {"blocked_other"}
  BY DEF Categories, Blocked
<1>2. IsFiniteSet({"on_cpu"} \cup {"runnable_wait"}) /\ IsFiniteSet({"blocked_other"})
  BY FS_Singleton, FS_Union
<1>3. {"on_cpu"} \cup {"runnable_wait"} = {"on_cpu", "runnable_wait"}
  OBVIOUS
<1>4. IsFiniteSet({"on_cpu", "runnable_wait"} \cup Families)
  BY <1>2, <1>3, CallsAssumption, FS_Union
<1> QED
  BY <1>1, <1>2, <1>4, FS_Union

(* What a step makes of one bucket, it makes of their sum.                 *)
LEMMA AttributedAdds ==
    ASSUME TypeOK, NEW t \in Threads, NEW c \in Categories, acc'[t] = Add(t, c)
    PROVE  Attributed(t) \in Nat /\ Attributed(t)' = Attributed(t) + Spent(t)
<1>1. acc[t] \in [Categories -> Nat] /\ Spent(t) \in Nat
  BY SpentBound DEF TypeOK
<1>2. acc'[t] \in [Categories -> Nat]
  BY AddFacts
<1>3. acc'[t][c] = acc[t][c] + Spent(t) /\ \A d \in Categories : d # c => acc'[t][d] = acc[t][d]
  BY AddFacts
<1>4. Sum(acc[t], Categories) \in Nat
      /\ Sum(acc'[t], Categories) = Sum(acc[t], Categories) + Spent(t)
  BY ONLY <1>1, <1>2, <1>3, FiniteCategories, SumGrows, c \in Categories
<1>5. Attributed(t) = Sum(acc[t], Categories) /\ Attributed(t)' = Sum(acc'[t], Categories)
  BY DEF Attributed, Sum, MapThenSumSet, MapThenFoldSet
<1> QED
  BY <1>4, <1>5

LEMMA AttributedStays ==
    ASSUME NEW t \in Threads, acc'[t] = acc[t]
    PROVE  Attributed(t)' = Attributed(t)
BY DEF Attributed, MapThenSumSet, MapThenFoldSet

LEMMA AttributedType ==
    ASSUME TypeOK, NEW t \in Threads
    PROVE  Attributed(t) \in Nat
<1>1. acc[t] \in [Categories -> Nat] /\ "on_cpu" \in Categories
  BY DEF TypeOK, Categories
<1>2. acc[t] = [acc[t] EXCEPT !["on_cpu"] = @ + 0]
  BY <1>1
<1>3. Sum(acc[t], Categories) \in Nat
  BY ONLY <1>1, <1>2, FiniteCategories, SumGrows
<1> QED
  BY <1>3 DEF Attributed, Sum

LEMMA NothingYet ==
    ASSUME NEW t \in Threads, \A c \in Categories : acc[t][c] = 0
    PROVE  Attributed(t) = 0
<1>1. Sum(acc[t], Categories) = 0
  BY FiniteCategories, SumOfNothing
<1> QED
  BY <1>1 DEF Attributed, Sum

(* Within a day the clock tells the true difference.                       *)
LEMMA SameDay ==
    ASSUME TypeOK, NEW t \in Threads, now \div Day = at[t] \div Day
    PROVE  Spent(t) = now - at[t]
<1>1. now \in Nat /\ at[t] \in Nat /\ at[t] <= now /\ last[t] = at[t] % Day /\ Day \in Nat \ {0}
  BY DayAssumption DEF TypeOK
<1>2. \A a \in Nat, d \in Nat \ {0} : a = d * (a \div d) + (a % d) /\ d * (a \div d) \in Int
  <2> TAKE a \in Nat, d \in Nat \ {0}
  <2> DEFINE k == a \div d
  <2>1. k \in Int /\ a = d * k + (a % d)
    OBVIOUS
  <2> HIDE DEF k
  <2>2. d * k \in Int
    BY <2>1
  <2> QED
    BY <2>1, <2>2 DEF k
<1> DEFINE q == Day * (now \div Day)
<1>3. q \in Int /\ now = q + (now % Day) /\ at[t] = q + (at[t] % Day)
  <2>1. q \in Int /\ now = q + (now % Day)
    BY <1>1, <1>2
  <2>2. at[t] = Day * (at[t] \div Day) + (at[t] % Day)
    BY <1>1, <1>2
  <2> QED
    BY <2>1, <2>2
<1>4. now % Day \in Nat /\ at[t] % Day \in Nat
  BY <1>1
<1> HIDE DEF q
<1> QED
  BY <1>1, <1>3, <1>4 DEF Spent, Clock

(* An event of a thread: the script adds the time since its last event to  *)
(* one bucket or to none.                                                  *)
LEMMA EventMeters ==
    ASSUME TypeOK, TypeOK', NEW t \in Threads, Metered(t),
           at'[t] = now, first'[t] = IF st[t] = "off" THEN now ELSE first[t],
           st'[t] # "off", gap \subseteq gap', lossy \subseteq lossy',
           acc'[t] = acc[t] \/ (st[t] # "off" /\ \E c \in Categories : acc'[t] = Add(t, c)),
           t \notin lossy' \cup gap' =>
              /\ st[t] # "off" => /\ acc'[t] = acc[t] => at[t] = now
                                  /\ now \div Day = at[t] \div Day
              /\ st'[t] = "run" => real'[t] # "on"
    PROVE  Metered(t)'
<1>1. /\ now \in Nat /\ at[t] \in Nat /\ first[t] \in Nat
      /\ first[t] <= at[t] /\ at[t] <= now /\ Attributed(t) \in Nat
  BY AttributedType DEF TypeOK
<1>2. CASE st[t] = "off"
  <2>1. Attributed(t) = 0
    BY <1>2, NothingYet DEF Metered
  <2>2. Attributed(t)' = 0
    BY <1>2, <2>1, AttributedStays
  <2> QED
    BY <1>1, <1>2, <2>2 DEF Metered
<1>3. CASE st[t] # "off" /\ acc'[t] = acc[t]
  <2>1. Attributed(t)' = Attributed(t)
    BY <1>3, AttributedStays
  <2>2. Attributed(t)' <= at'[t] - first'[t]
    BY <1>1, <1>3, <2>1 DEF Metered
  <2>3. t \notin lossy' \cup gap' => Attributed(t)' = at'[t] - first'[t]
    BY <1>1, <1>3, <2>1 DEF Metered
  <2> QED
    BY <2>2, <2>3 DEF Metered
<1>4. CASE st[t] # "off" /\ \E c \in Categories : acc'[t] = Add(t, c)
  <2>1. Attributed(t)' = Attributed(t) + Spent(t)
    BY <1>4, AttributedAdds
  <2>2. Spent(t) \in Nat /\ Spent(t) <= now - at[t]
    BY SpentBound
  <2>3. Attributed(t)' <= at'[t] - first'[t]
    BY <1>1, <1>4, <2>1, <2>2 DEF Metered
  <2>4. t \notin lossy' \cup gap' => Attributed(t)' = at'[t] - first'[t]
    <3>1. t \notin lossy' \cup gap' => Spent(t) = now - at[t]
      BY <1>4, SameDay
    <3> QED
      BY <1>1, <1>4, <2>1, <3>1 DEF Metered
  <2> QED
    BY <2>3, <2>4 DEF Metered
<1> QED
  BY <1>2, <1>3, <1>4

LEMMA NoEventMeters ==
    ASSUME NEW t \in Threads, Metered(t), st'[t] = st[t], acc'[t] = acc[t], at'[t] = at[t],
           first'[t] = first[t], gap \subseteq gap', lossy \subseteq lossy',
           t \notin lossy' \cup gap' /\ real[t] # "on" /\ real'[t] = "on" => st[t] # "run"
    PROVE  Metered(t)'
<1>1. Attributed(t)' = Attributed(t)
  BY AttributedStays
<1> QED
  BY <1>1 DEF Metered

LEMMA MeteredSwitch ==
    ASSUME TypeOK, TypeOK', Tracked, AllMetered,
           NEW p \in Threads \cup {None}, NEW n \in Threads \cup {None}, Switch(p, n)
    PROVE  AllMetered'
<1> SUFFICES ASSUME NEW t \in Threads PROVE Metered(t)'
  BY DEF AllMetered
<1>1. PICK to \in {"run", "blk", "halt"} :
         /\ real' = [u \in Threads |-> IF u = p THEN to ELSE IF u = n THEN "on" ELSE real[u]]
         /\ ReadSwitch(p, n, to) \/ Lost({p, n} \cap Threads)
  BY DEF Switch
<1>2. /\ p # n /\ now' = now /\ Metered(t)
      /\ p \in Threads => real[p] = "on"
      /\ n \in Threads => real[n] = "run"
  BY DEF Switch, AllMetered
<1>3. t \notin lossy => Follows(t)
  BY DEF Tracked
<1>4. CASE Lost({p, n} \cap Threads)
  <2>1. lossy' = lossy \cup ({p, n} \cap Threads) /\ UNCHANGED <<st, acc, at, first, gap>>
    BY <1>4 DEF Lost, script, histories
  <2>2. t \notin lossy' => real'[t] = real[t]
    BY <1>1, <2>1
  <2> QED
    BY <1>2, <2>1, <2>2, NoEventMeters
<1>5. CASE ReadSwitch(p, n, to)
  <2> DEFINE N == {n} \cap known
  <2>1. /\ lossy' = lossy /\ Stamp({p} \cup N)
        /\ st' = [u \in Threads |-> IF u = p THEN IF Sleeps(to) THEN "blk" ELSE "run"
                                    ELSE IF u \in N THEN "on" ELSE st[u]]
        /\ acc' = [u \in Threads |-> IF u = p THEN OutAcc(u)
                                     ELSE IF u \in N THEN InAcc(u) ELSE acc[u]]
        /\ gap' = gap \cup {u \in {p} \cup N : u \in Threads /\ Midnight(u)}
    BY <1>5 DEF ReadSwitch
  <2>2. CASE t = p
    <3>1. /\ at'[t] = now /\ first'[t] = (IF st[t] = "off" THEN now ELSE first[t])
          /\ st'[t] \in {"blk", "run"} /\ acc'[t] = OutAcc(t) /\ real'[t] # "on"
      BY <1>1, <2>1, <2>2 DEF Stamp
    <3>2. /\ st[t] = "on" => acc'[t] = Add(t, "on_cpu")
          /\ st[t] # "on" => acc'[t] = acc[t]
      BY <3>1 DEF OutAcc
    <3>3. "on_cpu" \in Categories
      BY DEF Categories
    <3>4. t \notin lossy' \cup gap' => st[t] \in {"off", "on"} /\ ~Midnight(t)
      BY <1>2, <1>3, <2>1, <2>2 DEF Follows, Metered, TypeOK
    <3>5. t \notin lossy' \cup gap' /\ st[t] # "off" =>
             /\ acc'[t] = acc[t] => at[t] = now
             /\ now \div Day = at[t] \div Day
      <4> SUFFICES ASSUME t \notin lossy' \cup gap', st[t] = "on"
                   PROVE  (acc'[t] = acc[t] => at[t] = now) /\ now \div Day = at[t] \div Day
        BY <3>4
      <4>1. now \div Day = at[t] \div Day
        BY <3>4 DEF Midnight
      <4>2. Spent(t) = now - at[t] /\ acc'[t]["on_cpu"] = acc[t]["on_cpu"] + Spent(t)
        BY <4>1, <3>2, <3>3, SameDay, AddFacts
      <4>3. acc[t]["on_cpu"] \in Nat /\ now \in Nat /\ at[t] \in Nat
        BY <3>3 DEF TypeOK
      <4> QED
        BY <4>1, <4>2, <4>3
    <3>6. acc'[t] = acc[t] \/ (st[t] # "off" /\ \E c \in Categories : acc'[t] = Add(t, c))
      BY <3>2, <3>3
    <3> HIDE DEF N
    <3> QED
      BY <1>2, <2>1, <3>1, <3>5, <3>6, EventMeters
  <2>3. CASE t # p /\ t \in N
    <3>1. /\ at'[t] = now /\ first'[t] = (IF st[t] = "off" THEN now ELSE first[t])
          /\ st'[t] = "on" /\ acc'[t] = InAcc(t) /\ real[t] = "run"
      BY <1>2, <2>1, <2>3 DEF Stamp
    <3>2. /\ st[t] = "run" => acc'[t] = Add(t, "runnable_wait")
          /\ st[t] = "blk" => acc'[t] = Add(t, blk[t])
          /\ st[t] \in {"off", "on"} => acc'[t] = acc[t]
      BY <3>1 DEF InAcc
    <3>3. "runnable_wait" \in Categories /\ blk[t] \in Categories /\ st[t] \in {"off", "on", "run", "blk"}
      BY DEF Categories, TypeOK
    <3>4. t \notin lossy' \cup gap' => st[t] \in {"off", "run"} /\ ~Midnight(t)
      BY <1>3, <2>1, <2>3, <3>1, <3>3 DEF Follows
    <3>5. t \notin lossy' \cup gap' /\ st[t] # "off" =>
             /\ acc'[t] = acc[t] => at[t] = now
             /\ now \div Day = at[t] \div Day
      <4> SUFFICES ASSUME t \notin lossy' \cup gap', st[t] = "run"
                   PROVE  (acc'[t] = acc[t] => at[t] = now) /\ now \div Day = at[t] \div Day
        BY <3>4
      <4>1. now \div Day = at[t] \div Day
        BY <3>4 DEF Midnight
      <4>2. Spent(t) = now - at[t] /\ acc'[t]["runnable_wait"] = acc[t]["runnable_wait"] + Spent(t)
        BY <4>1, <3>2, <3>3, SameDay, AddFacts
      <4>3. acc[t]["runnable_wait"] \in Nat /\ now \in Nat /\ at[t] \in Nat
        BY <3>3 DEF TypeOK
      <4> QED
        BY <4>1, <4>2, <4>3
    <3>6. acc'[t] = acc[t] \/ (st[t] # "off" /\ \E c \in Categories : acc'[t] = Add(t, c))
      BY <3>2, <3>3
    <3> HIDE DEF N
    <3> QED
      BY <1>2, <2>1, <3>1, <3>5, <3>6, EventMeters
  <2>4. CASE t # p /\ t \notin N
    <3>1. UNCHANGED <<st[t], acc[t], at[t], first[t]>>
      BY <2>1, <2>4 DEF Stamp, TypeOK
    <3>2. t \notin lossy' /\ real[t] # "on" /\ real'[t] = "on" => st[t] # "run"
      <4>1. real[t] # "on" /\ real'[t] = "on" => t = n /\ t \notin known
        BY <1>1, <2>4
      <4> QED
        BY <1>3, <2>1, <4>1 DEF Follows
    <3> QED
      BY <1>2, <2>1, <3>1, <3>2, NoEventMeters
  <2> QED
    BY <2>2, <2>3, <2>4
<1> QED
  BY <1>1, <1>4, <1>5

LEMMA MeteredWake ==
    ASSUME TypeOK, TypeOK', Tracked, AllMetered, NEW w \in Threads, Wake(w)
    PROVE  AllMetered'
<1> SUFFICES ASSUME NEW t \in Threads PROVE Metered(t)'
  BY DEF AllMetered
<1>1. /\ real' = [real EXCEPT ![w] = IF @ = "on" THEN "on" ELSE "run"]
      /\ now' = now /\ Metered(t)
      /\ (ReadWake(w) /\ lossy' = lossy) \/ Lost({w})
  BY DEF Wake, AllMetered
<1>2. real[t] # "on" => real'[t] # "on"
  BY <1>1 DEF TypeOK
<1>3. CASE Lost({w})
  <2>1. lossy' = lossy \cup {w} /\ UNCHANGED <<st, acc, at, first, gap>>
    BY <1>3 DEF Lost, script, histories
  <2> QED
    BY <1>1, <1>2, <2>1, NoEventMeters
<1>4. CASE ReadWake(w) /\ lossy' = lossy
  <2>1. CASE w \notin known'
    <3>1. UNCHANGED <<st, acc, at, first, gap>>
      BY <1>4, <2>1 DEF ReadWake
    <3> QED
      BY <1>1, <1>2, <1>4, <3>1, NoEventMeters
  <2>2. CASE w \in known'
    <3>1. /\ acc' = [acc EXCEPT ![w] = WakeAcc(w)] /\ st' = [st EXCEPT ![w] = "run"]
          /\ Stamp({w})
          /\ gap' = IF \/ Midnight(w) \/ real[w] = "on"
                       \/ st[w] \in {"on", "run"} /\ at[w] # now
                    THEN gap \cup {w} ELSE gap
      BY <1>4, <2>2 DEF ReadWake
    <3>2. CASE t # w
      <4>1. UNCHANGED <<st[t], acc[t], at[t], first[t]>> /\ gap \subseteq gap'
        BY <3>1, <3>2 DEF Stamp, TypeOK
      <4> QED
        BY <1>1, <1>2, <1>4, <4>1, NoEventMeters
    <3>3. CASE t = w
      <4>1. /\ at'[t] = now /\ first'[t] = (IF st[t] = "off" THEN now ELSE first[t])
            /\ st'[t] = "run" /\ acc'[t] = WakeAcc(t) /\ gap \subseteq gap'
        BY <3>1, <3>3 DEF Stamp, TypeOK
      <4>2. /\ st[t] = "blk" => acc'[t] = Add(t, blk[t])
            /\ st[t] # "blk" => acc'[t] = acc[t]
        BY <4>1 DEF WakeAcc
      <4>3. blk[t] \in Categories /\ st[t] \in {"off", "on", "run", "blk"}
        BY DEF Categories, TypeOK
      <4>4. t \notin lossy' \cup gap' =>
               /\ ~Midnight(t) /\ real[t] # "on"
               /\ st[t] \in {"on", "run"} => at[t] = now
        BY <3>1, <3>3
      <4>5. t \notin lossy' \cup gap' /\ st[t] # "off" =>
               /\ acc'[t] = acc[t] => at[t] = now
               /\ now \div Day = at[t] \div Day
        <5> SUFFICES ASSUME t \notin lossy' \cup gap', st[t] # "off"
                     PROVE  (acc'[t] = acc[t] => at[t] = now) /\ now \div Day = at[t] \div Day
          OBVIOUS
        <5>1. now \div Day = at[t] \div Day
          BY <4>4 DEF Midnight
        <5>2. CASE st[t] # "blk"
          BY <4>3, <4>4, <5>1, <5>2
        <5>3. CASE st[t] = "blk"
          <6>1. Spent(t) = now - at[t] /\ acc'[t][blk[t]] = acc[t][blk[t]] + Spent(t)
            BY <4>2, <4>3, <5>1, <5>3, SameDay, AddFacts
          <6>2. acc[t][blk[t]] \in Nat /\ now \in Nat /\ at[t] \in Nat
            BY <4>3 DEF TypeOK
          <6> QED
            BY <5>1, <6>1, <6>2
        <5> QED
          BY <5>2, <5>3
      <4>6. acc'[t] = acc[t] \/ (st[t] # "off" /\ \E c \in Categories : acc'[t] = Add(t, c))
        BY <4>2, <4>3
      <4>7. t \notin lossy' \cup gap' => (st'[t] = "run" => real'[t] # "on")
        BY <1>2, <4>4
      <4> QED
        BY <1>1, <1>4, <4>1, <4>5, <4>6, <4>7, EventMeters
    <3> QED
      BY <3>2, <3>3
  <2> QED
    BY <2>1, <2>2
<1> QED
  BY <1>1, <1>3, <1>4

LEMMA MeteredStep ==
    ASSUME TypeOK, TypeOK', Tracked, AllMetered, [Next]_vars
    PROVE  AllMetered'
<1>1. ASSUME UNCHANGED <<real, st, acc, at, first, gap>>, lossy \subseteq lossy'
      PROVE  AllMetered'
  <2> SUFFICES ASSUME NEW t \in Threads PROVE Metered(t)'
    BY DEF AllMetered
  <2> QED
    BY <1>1, NoEventMeters DEF AllMetered
<1>2. CASE Tick \/ UNCHANGED vars
  BY <1>1, <1>2 DEF Tick, vars, kernel, script, histories
<1>3. ASSUME NEW p \in left.team \cup {None}, NEW n \in left.team \cup {None}, Switch(p, n)
      PROVE  AllMetered'
  BY <1>3, TeamType, MeteredSwitch
<1>4. ASSUME NEW t \in left.team, Wake(t) PROVE AllMetered'
  BY <1>4, TeamType, MeteredWake
<1>5. ASSUME NEW t \in left.team, NEW c \in Calls, NEW enters \in BOOLEAN, Syscall(t, c, enters)
      PROVE  AllMetered'
  BY <1>1, <1>5 DEF Syscall, Lost, script, histories
<1> QED
  BY <1>2, <1>3, <1>4, <1>5 DEF Next

(* The buckets of a thread never exceed the time between its first and its *)
(* last event, and fill it unless an event was lost, a wake-up found it    *)
(* awake or midnight passed: attribute() counts no interval twice.         *)
THEOREM TimeIsCountedOnce == Spec => []TimeCountedOnce
<1>1. Init => AllMetered
  <2> SUFFICES ASSUME Init, NEW t \in Threads PROVE Metered(t)
    BY DEF AllMetered
  <2>1. \A c \in Categories : acc[t][c] = 0
    BY DEF Init
  <2> QED
    BY <2>1, NothingYet DEF Init, Metered
<1>2. TypeOK /\ TypeOK' /\ Tracked /\ AllMetered /\ [Next]_vars => Tracked' /\ AllMetered'
  BY TrackedStep, MeteredStep
<1>3. AllMetered => TimeCountedOnce
  BY DEF AllMetered, Metered, TimeCountedOnce
<1> QED
  BY <1>1, <1>2, <1>3, TrackedInit, TypeCorrect, PTL DEF Spec
=============================================================================
