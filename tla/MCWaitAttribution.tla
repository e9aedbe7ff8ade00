------------------------- MODULE MCWaitAttribution -------------------------
(* Two syscalls for TLC, one without a family; one busy thread, or two.    *)
EXTENDS WaitAttribution, TLC

CONSTANTS a, b

SmallFamily == "recvfrom" :> "blocked_read_net"

SmallBudgets ==
    {[team |-> {a}, time |-> 3, wakes |-> 2, calls |-> 2, lost |-> 0],
     [team |-> {a}, time |-> 3, wakes |-> 1, calls |-> 1, lost |-> 1],
     [team |-> {a, b}, time |-> 2, wakes |-> 1, calls |-> 0, lost |-> 0]}
=============================================================================
