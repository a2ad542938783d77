----------------------------- MODULE RemoteCall -----------------------------
(* What a client of a remote tool can promise without asking twice: the    *)
(* effect of a call happens at most once; an answer is the answer to that  *)
(* call, after its effect; a call that is given up may still have its      *)
(* effect, before or after; and every call that is made is answered or     *)
(* given up.                                                               *)
EXTENDS Naturals

CONSTANTS Calls, None

VARIABLES effects,    \* how often the effect of a call has happened
          told        \* what the caller knows: None, "asked", "failed", or
                      \* the call whose answer it was given

vars == <<effects, told>>

Init ==
    /\ effects = [c \in Calls |-> 0]
    /\ told = [c \in Calls |-> None]

Ask(c) == told[c] = None /\ told' = [told EXCEPT ![c] = "asked"] /\ UNCHANGED effects

Happen(c) ==
    /\ told[c] # None
    /\ effects[c] = 0
    /\ effects' = [effects EXCEPT ![c] = 1]
    /\ UNCHANGED told

Answer(c) ==
    /\ told[c] = "asked"
    /\ effects[c] = 1
    /\ told' = [told EXCEPT ![c] = c]
    /\ UNCHANGED effects

GiveUp(c) == told[c] = "asked" /\ told' = [told EXCEPT ![c] = "failed"] /\ UNCHANGED effects

Next == \E c \in Calls : Ask(c) \/ Happen(c) \/ Answer(c) \/ GiveUp(c)

Spec ==
    /\ Init
    /\ [][Next]_vars
    /\ \A c \in Calls : WF_vars(Answer(c) \/ GiveUp(c))
============================================================================
