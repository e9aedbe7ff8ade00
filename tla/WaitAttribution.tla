-------------------------- MODULE WaitAttribution --------------------------
(***************************************************************************)
(* derive_kernel_l2.py: from the scheduler and syscall events of a run's   *)
(* window, attribute() tells for every thread of a service how long it ran *)
(* on a CPU, was runnable but waited, and was blocked in which family of   *)
(* syscalls.                                                               *)
(*                                                                         *)
(* The kernel is modelled as the threads really are, as LTTng's events     *)
(* show them; each event is read as it happens.  `truth` is the time a     *)
(* thread really spent, `acc` what the script makes of it.                 *)
(***************************************************************************)
EXTENDS Integers, FiniteSets, FiniteSetsExt

CONSTANTS Threads,        \* the threads of the target's process
          Calls, Families, FAMILY, \* its syscalls; FAMILY of some of them
          None,           \* no thread, no syscall
          Day,            \* the trace's clock shows the time of day
          Budgets         \* bounds: who runs, and how much may happen, in a behaviour

ASSUME CallsAssumption ==
    /\ None \notin Threads \cup Calls
    /\ IsFiniteSet(Families)
    /\ DOMAIN FAMILY \subseteq Calls /\ \A c \in DOMAIN FAMILY : FAMILY[c] \in Families
    /\ Families \cap {"on_cpu", "runnable_wait", "blocked_other", "halted"} = {}
ASSUME DayAssumption == Day \in Nat \ {0}
Bounds == [team : SUBSET Threads, time : Nat, wakes : Nat, calls : Nat, lost : Nat]

ASSUME BudgetsAssumption == Budgets \subseteq Bounds

VARIABLES now,
          real,   \* what a thread does: on a CPU, runnable, blocked, halted
          open,   \* the syscall it is in
          truth,  \* history: the time it spent, per category
          known,  \* the threads in tid2tgid
          st, blk, opsys, last, acc, \* the script's dictionaries
          at,     \* history: the true time of `last`
          first,  \* history: the true time of the first event used
          lossy,  \* history: the threads LTTng lost an event of
          gap,    \* history: the threads with time that is nobody's
          left    \* bound: what is left of the budget

kernel == <<real, open>>
script == <<known, st, blk, opsys, last, acc>>
histories == <<at, first, gap>>
vars == <<now, kernel, truth, script, histories, lossy, left>>

Blocked == Families \cup {"blocked_other"}
Categories == {"on_cpu", "runnable_wait"} \cup Blocked

TypeOK ==
    /\ now \in Nat
    /\ real \in [Threads -> {"on", "run", "blk", "halt"}]
    /\ open \in [Threads -> Calls \cup {None}]
    /\ truth \in [Threads -> [Categories \cup {"halted"} -> Nat]]
    /\ known \subseteq Threads
    /\ st \in [Threads -> {"off", "on", "run", "blk"}]
    /\ blk \in [Threads -> Blocked] /\ opsys \in [Threads -> Calls \cup {None}]
    /\ last \in [Threads -> 0 .. Day - 1] /\ acc \in [Threads -> [Categories -> Nat]]
    /\ at \in [Threads -> Nat] /\ first \in [Threads -> Nat]
    /\ \A t \in Threads : first[t] <= at[t] /\ at[t] <= now /\ last[t] = at[t] % Day
    /\ lossy \subseteq Threads /\ gap \subseteq Threads
    /\ left \in Bounds

(* The window begins anywhere in the threads' lives; `ensure` gives a      *)
(* thread its entries, "off" stands for none.                              *)
Init ==
    /\ now = 0 /\ left \in Budgets
    /\ real \in [Threads -> {"on", "run", "blk", "halt"}]
    /\ open \in [Threads -> Calls \cup {None}]
    /\ \A t \in Threads \ left.team : real[t] = "halt" /\ open[t] = None
    /\ truth = [t \in Threads |-> [c \in Categories \cup {"halted"} |-> 0]]
    /\ known = {}
    /\ st = [t \in Threads |-> "off"] /\ blk = [t \in Threads |-> "blocked_other"]
    /\ opsys = [t \in Threads |-> None] /\ last = [t \in Threads |-> 0]
    /\ acc = [t \in Threads |-> [c \in Categories |-> 0]]
    /\ at = [t \in Threads |-> 0] /\ first = [t \in Threads |-> 0]
    /\ lossy = {} /\ gap = {}

FamilyOf(c) == IF c \in DOMAIN FAMILY THEN FAMILY[c] ELSE "blocked_other"

(* What thread t spends its time with. *)
Doing(t) == CASE real[t] = "on"   -> "on_cpu"
              [] real[t] = "run"  -> "runnable_wait"
              [] real[t] = "blk"  -> FamilyOf(open[t])
              [] real[t] = "halt" -> "halted"

Tick ==
    /\ left.time > 0 /\ left' = [left EXCEPT !.time = @ - 1]
    /\ now' = now + 1
    /\ truth' = [t \in Threads |-> [truth[t] EXCEPT ![Doing(t)] = @ + 1]]
    /\ UNCHANGED <<kernel, script, histories, lossy>>

-----------------------------------------------------------------------------
(* add(): an interval that ends after it began, on a clock without a date. *)
Clock == now % Day

(* Variant: without the test, midnight makes an interval negative. *)
SpentAnyway(t) == Clock - last[t]

Spent(t) == IF Clock > last[t] THEN Clock - last[t] ELSE 0

Add(t, c) == [acc[t] EXCEPT ![c] = @ + Spent(t)]

(* The script's last event of thread t is now. *)
Stamp(T) ==
    /\ last' = [t \in Threads |-> IF t \in T THEN Clock ELSE last[t]]
    /\ at' = [t \in Threads |-> IF t \in T THEN now ELSE at[t]]
    /\ first' = [t \in Threads |-> IF t \in T /\ st[t] = "off" THEN now ELSE first[t]]

Midnight(t) == st[t] # "off" /\ now \div Day # at[t] \div Day

(* A lost event leaves the script as it is. *)
Lost(T) ==
    /\ left.lost > 0 /\ left' = [left EXCEPT !.lost = @ - 1]
    /\ lossy' = lossy \cup T
    /\ UNCHANGED <<script, histories>>

(* Variant: every state but 0 counts as a sleep. *)
SleepsAlways(s) == s # "run"

(* prev_state in SLEEP_STATES: "halt" stands for the states which are not  *)
(* (stopped, traced, dead ...).                                            *)
Sleeps(s) == s = "blk"

(* Variant: time on the CPU is added whatever the thread was seen in. *)
OutAlways(t) == Add(t, "on_cpu")

(* What a switch away from t adds. *)
OutAcc(t) == IF st[t] = "on" THEN Add(t, "on_cpu") ELSE acc[t]

(* What a switch to t adds: a wake-up that was not seen leaves it blocked. *)
InAcc(t) == CASE st[t] = "run" -> Add(t, "runnable_wait")
              [] st[t] = "blk" -> Add(t, blk[t])
              [] OTHER         -> acc[t]

(* sched_switch as the script reads it: its context tells p's process; n   *)
(* counts only if it is known already.                                     *)
ReadSwitch(p, n, to) ==
    LET N == {n} \cap known
    IN /\ known' = known \cup ({p} \ {None})
       /\ st' = [t \in Threads |-> IF t = p THEN IF Sleeps(to) THEN "blk" ELSE "run"
                                   ELSE IF t \in N THEN "on" ELSE st[t]]
       /\ blk' = IF p # None /\ Sleeps(to) THEN [blk EXCEPT ![p] = FamilyOf(opsys[p])] ELSE blk
       /\ acc' = [t \in Threads |-> IF t = p THEN OutAcc(t)
                                    ELSE IF t \in N THEN InAcc(t) ELSE acc[t]]
       /\ Stamp({p} \cup N)
       /\ gap' = gap \cup {t \in {p} \cup N : t \in Threads /\ Midnight(t)}
       /\ UNCHANGED <<opsys, lossy, left>>

(* A CPU goes from p to n, either of them maybe a thread of no interest.   *)
Switch(p, n) ==
    /\ p # n
    /\ p \in Threads => real[p] = "on"
    /\ n \in Threads => real[n] = "run"
    /\ \E to \in {"run", "blk", "halt"} :
         /\ p = None => to = "run"
         /\ real' = [t \in Threads |-> IF t = p THEN to ELSE IF t = n THEN "on" ELSE real[t]]
         /\ ReadSwitch(p, n, to) \/ Lost({p, n} \cap Threads)
    /\ UNCHANGED <<now, open, truth>>

(* What a wake-up adds. *)
WakeAcc(t) == IF st[t] = "blk" THEN Add(t, blk[t]) ELSE acc[t]

(* sched_waking and sched_wakeup as the script reads them: the context     *)
(* tells the process of the thread on whose CPU it happens.  The time a    *)
(* thread already runnable waited before, and the time one on a CPU is     *)
(* still going to run, become nobody's.                                    *)
ReadWake(t) ==
    /\ \E waker \in {None} \cup {w \in Threads : real[w] = "on"} :
         known' = known \cup ({waker} \ {None})
    /\ IF t \in known'
       THEN /\ acc' = [acc EXCEPT ![t] = WakeAcc(t)]
            /\ st' = [st EXCEPT ![t] = "run"]
            /\ Stamp({t})
            /\ gap' = IF \/ Midnight(t) \/ real[t] = "on"
                         \/ st[t] \in {"on", "run"} /\ at[t] # now
                      THEN gap \cup {t} ELSE gap
       ELSE UNCHANGED <<acc, st, last, at, first, gap>>
    /\ UNCHANGED <<blk, opsys>>

(* The two events of a wake-up are one action each; a thread can be woken  *)
(* before it sleeps, while it is on a CPU.                                 *)
Wake(t) ==
    /\ left.wakes > 0
    /\ real' = [real EXCEPT ![t] = IF @ = "on" THEN "on" ELSE "run"]
    /\ \/ /\ ReadWake(t) /\ lossy' = lossy
          /\ left' = [left EXCEPT !.wakes = @ - 1]
       \/ Lost({t})
    /\ UNCHANGED <<now, open, truth>>

(* opsys after an entry or an exit: an exit ends the call it names.        *)
Opened(t, c, enters) == IF enters THEN c ELSE IF opsys[t] = c THEN None ELSE opsys[t]

(* A syscall's entry or exit, in the context of its thread. *)
Syscall(t, c, enters) ==
    /\ real[t] = "on" /\ left.calls > 0
    /\ IF enters THEN open[t] = None ELSE open[t] = c
    /\ open' = [open EXCEPT ![t] = IF enters THEN c ELSE None]
    /\ \/ /\ known' = known \cup {t}
          /\ opsys' = [opsys EXCEPT ![t] = Opened(t, c, enters)]
          /\ left' = [left EXCEPT !.calls = @ - 1]
          /\ UNCHANGED <<st, blk, last, acc, histories, lossy>>
       \/ Lost({t})
    /\ UNCHANGED <<now, real, truth>>

Next ==
    \/ Tick
    \/ \E p, n \in left.team \cup {None} : Switch(p, n)
    \/ \E t \in left.team : Wake(t) \/ \E c \in Calls : Syscall(t, c, TRUE) \/ Syscall(t, c, FALSE)

Spec == Init /\ [][Next]_vars

-----------------------------------------------------------------------------
(* No bucket is overstated: a thread is charged no more time on a CPU,     *)
(* waiting for one or in a named family of syscalls than it spent there,   *)
(* wherever the window begins and however wake-ups fall, across midnight,  *)
(* halts and threads that become known late, unless LTTng lost an event.   *)
NeverOverstated ==
    \A t \in Threads \ lossy : \A c \in Categories \ {"blocked_other"} :
        acc[t][c] <= truth[t][c]

Attributed(t) == MapThenSumSet(LAMBDA c : acc[t][c], Categories)

(* Time is attributed once, and at all: the buckets of a thread never      *)
(* exceed the time from its first event to its last, even when events are  *)
(* lost; they fill it, except where one was lost, where a wake-up found    *)
(* the thread awake or where midnight passed.                              *)
TimeCountedOnce ==
    \A t \in Threads :
        /\ Attributed(t) <= at[t] - first[t]
        /\ t \notin lossy \cup gap => Attributed(t) = at[t] - first[t]
=============================================================================
