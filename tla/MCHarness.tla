------------------------------ MODULE MCHarness ------------------------------
(* Small instances of Harness for TLC: two agents under two contracts, one *)
(* approver for each, and the threads of one or two replicas.              *)
EXTENDS Harness, TLC

CONSTANTS a, b, h1, h2, t1, t2, x, y, msg, ask

Rec(names, to, action, inner) ==
    [names |-> names, longest |-> 1, urls |-> [n \in {"url"} |-> [kind |-> "absent"]],
     to |-> to, action |-> action, inner |-> inner]

MCAttr ==
    x   :> Rec({"q"}, None, None, x) @@
    y   :> Rec({"q"}, None, None, y) @@
    msg :> Rec({"to", "body"}, b, None, x) @@
    ask :> Rec({"to", "action", "arguments"}, b, "write", x)

Cap(effect, constraints) ==
    [effect |-> effect, expires_at |-> Never, constraints |-> constraints]

ToB == [allowed_targets |-> {b}]
AskB == [allowed_targets |-> {b}, allowed_actions |-> {"write"}]

Contract(steps_, agents, approvers) ==
    [max_steps |-> steps_, expires_at |-> Never, agents |-> agents, approvers |-> approvers]

(* a: one write at most, and two steps in all *)
MCBudgetContracts ==
    "c1" :> Contract(2, a :> ("write" :> Cap("allow", [max_calls |-> 1]) @@
                              "read" :> Cap("allow", << >>)), {h1}) @@
    "c2" :> Contract(1, b :> ("read" :> Cap("allow", << >>)), {h2})

(* a may message b and, with a human's consent, ask b to write; b may      *)
(* write with a human's consent, once and before time 1                    *)
MCTeamContracts ==
    "c1" :> Contract(3, a :> (MESSAGE_ACTION :> Cap("allow", ToB) @@
                              DELEGATE_ACTION :> Cap("escalate", AskB)), {h1}) @@
    "c2" :> Contract(3, b :> ("write" :> [Cap("escalate", [max_calls |-> 1])
                                            EXCEPT !.expires_at = 1]), {h2})

Req(agent, action, args) ==
    [agent_id |-> agent, action |-> action, arguments |-> args, contract_id |-> None]

MCWrites == {Req(a, "write", x), Req(a, "write", y), Req(a, "read", x)}
MCTalks == {Req(a, MESSAGE_ACTION, msg), Req(a, DELEGATE_ACTION, ask), Req(b, "write", x)}

MCActions == {"write", "read", MESSAGE_ACTION, DELEGATE_ACTION}
MCHost == [t \in Threads |-> t]
MCSuffixes == {}

Symmetry == Permutations(Threads)
============================================================================
