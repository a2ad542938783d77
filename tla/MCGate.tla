------------------------------- MODULE MCGate -------------------------------
(* Gate with two client addresses and one principal.                       *)
EXTENDS Gate, TLC

CONSTANTS t1, t2, c1, c2, p

(* one token per tick; half a token to a principal                         *)
MCRate == [x \in Tables |-> IF x = "principal" THEN 1 ELSE 2]
MCBurst == [x \in Tables |-> IF x = "client" THEN 2 ELSE 1]
Symmetry == Permutations(Threads) \cup Permutations(Clients)
=============================================================================
