----------------------------- MODULE MCIdentity -----------------------------
(* Identity with two request threads on a server that is up and one on a   *)
(* server that is starting.                                                *)
EXTENDS Identity, TLC

CONSTANTS t1, t2, t3, s1, s2, x509

MCServer == [t \in Threads |-> IF t = t3 THEN s2 ELSE s1]
Symmetry == Permutations({t1, t2})
=============================================================================
