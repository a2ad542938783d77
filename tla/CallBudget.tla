----------------------------- MODULE CallBudget -----------------------------
(* What a store transaction promises for one budget (docs/state.md, "The   *)
(* contract every backend keeps"): reading a counter, judging it and       *)
(* counting one more call happen as one step, so that it never passes the  *)
(* limit, whatever runs at the same time.                                  *)
EXTENDS Naturals

CONSTANT Limit    \* max_calls of the capability

VARIABLE count

Init == count = 0

(* A call is allowed, and counted.  One that is refused changes nothing.   *)
Spend == count < Limit /\ count' = count + 1

Spec == Init /\ [][Spend]_count
============================================================================
