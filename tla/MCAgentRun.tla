----------------------------- MODULE MCAgentRun -----------------------------
(* Small tool results for TLC. *)
EXTENDS AgentRun

(* Two fields on two pages; and more rows of one field only, of which the  *)
(* second page has no room for the next: a cursor that one leaves is       *)
(* beyond the other's rows, and knows nothing of its second field.         *)
Mixed == << <<2, 2>>, <<1, 1>> >>
Fat   == << <<1, 1, 1, 9, 9, 9>> >>
SmallResults == {Mixed, Fat}

(* TurnsSuffice of AgentRunProofs, for these: the loop of page_result has  *)
(* as many turns as their row counts have binary digits.                   *)
Digits[n \in Nat] == IF n = 0 THEN 0 ELSE 1 + Digits[n \div 2]

ASSUME SmallTurnsSuffice ==
    \A res \in SmallResults :
        MapThenSumSet(LAMBDA f : Digits[Len(res[f])], DOMAIN res) <= MaxTurns
=============================================================================
