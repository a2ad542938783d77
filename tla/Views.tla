------------------------------- MODULE Views --------------------------------
(***************************************************************************)
(* What is shown of the contracts: to an agent by the MCP gateway's        *)
(* tools/list (mcp/gateway.py), to a person by `capgate inspect`           *)
(* (inspect/model.py).  Nothing here decides anything; what matters is     *)
(* how what is shown relates to what evaluate decides.                     *)
(***************************************************************************)
EXTENDS Policy

CONSTANT Edits    \* name -> an edited version of the contracts, to compare with them

Edited(cs) == INSTANCE Policy WITH contracts <- cs

(* diff loads both sides, and shows nothing of contracts it cannot load.   *)
ASSUME EditsLoad ==
    \A e \in DOMAIN Edits :
        /\ \A k \in DOMAIN Edits[e] : Edited(Edits[e])!ValidContract(Edits[e][k])
        /\ Edited(Edits[e])!ValidBindings

(* Mistake: what needs an approval is not listed.                          *)
_tools_list_allowed(agent) ==
    IF agent \notin BoundAgents THEN {}
    ELSE {x \in DOMAIN capabilities_for(agent) : capabilities_for(agent)[x].effect = "allow"}

(* _tools_list, without the gateway's own tool for approvals.              *)
_tools_list(agent) ==
    IF agent \notin BoundAgents THEN {}
    ELSE {x \in DOMAIN capabilities_for(agent) : capabilities_for(agent)[x].effect # "deny"}

(* explain: evaluate with empty budgets, at the time of asking.            *)
explain(r, now) == evaluate(r, [steps |-> 0, calls |-> 0], now)

----------------------------------------------------------------------------
(* grants_from_contracts, as diff uses it: keyed by agent and action.      *)
GrantKeys(cs) ==
    UNION {UNION {{<<g, x>> : x \in DOMAIN cs[k].agents[g]} : g \in DOMAIN cs[k].agents}
           : k \in DOMAIN cs}

grants_from_contracts(cs) ==
    [key \in GrantKeys(cs) |->
        LET k == CHOOSE k \in DOMAIN cs : key[1] \in DOMAIN cs[k].agents
        IN  cs[k].agents[key[1]][key[2]]]

_rank(effect) == CASE effect = "deny" -> 0 [] effect = "escalate" -> 1 [] effect = "allow" -> 2

(* How diff classifies a grant that was before and is after.               *)
status(before, after) ==
    CASE _rank(after.effect) > _rank(before.effect) -> "widened"
      [] _rank(after.effect) < _rank(before.effect) -> "narrowed"
      [] OTHER -> "changed"

(* Mistake: only effects are compared.                                     *)
GrantChanges_effects(left, right) ==
    LET lg == grants_from_contracts(left)
        rg == grants_from_contracts(right)
    IN  {[key |-> key, status |-> "removed"] : key \in DOMAIN lg \ DOMAIN rg}
        \cup {[key |-> key, status |-> "added"] : key \in DOMAIN rg \ DOMAIN lg}
        \cup {[key |-> key, status |-> status(lg[key], rg[key])] :
                key \in {k \in DOMAIN lg \cap DOMAIN rg : lg[k].effect # rg[k].effect}}

GrantChanges(left, right) ==
    LET lg == grants_from_contracts(left)
        rg == grants_from_contracts(right)
    IN  {[key |-> key, status |-> "removed"] : key \in DOMAIN lg \ DOMAIN rg}
        \cup {[key |-> key, status |-> "added"] : key \in DOMAIN rg \ DOMAIN lg}
        \cup {[key |-> key, status |-> status(lg[key], rg[key])] :
                key \in {k \in DOMAIN lg \cap DOMAIN rg : lg[k] # rg[k]}}

(* diff's meta: a contract's own fields, its agents not among them.        *)
meta(cs) == [k \in DOMAIN cs |->
    [max_steps |-> cs[k].max_steps, expires_at |-> cs[k].expires_at, approvers |-> cs[k].approvers]]

diff(left, right) ==
    [grants |-> GrantChanges(left, right),
     contracts |-> {k \in DOMAIN left \cup DOMAIN right :
                      ~(k \in DOMAIN left \cap DOMAIN right /\ meta(left)[k] = meta(right)[k])}]
============================================================================
