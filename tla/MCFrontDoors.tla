---------------------------- MODULE MCFrontDoors ----------------------------
(* Two agents whose contracts name different approvers, and two threads    *)
(* that serve approvers.                                                   *)
EXTENDS FrontDoors

CONSTANTS a1, a2, h1, h2

MCApprovers == [a \in Agents |-> IF a = a1 THEN {h1} ELSE {h1, h2}]
============================================================================
