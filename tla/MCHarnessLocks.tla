--------------------------- MODULE MCHarnessLocks ---------------------------
(* Threads of two processes on one store: p1 serves a proposal and an      *)
(* approval, p2 a proposal, a rejection and an execution.                  *)
EXTENDS HarnessLocks

CONSTANTS t1, t2, t3, t4, t5

MCProcess == [t \in Threads |-> IF t \in {t1, t2} THEN "p1" ELSE "p2"]

MCMixed ==
    [t \in Threads |-> CASE t = t1 -> "decide"
                         [] t = t2 -> "approve"
                         [] t = t3 -> "decide"
                         [] t = t4 -> "reject"
                         [] OTHER -> "execute"]
============================================================================
