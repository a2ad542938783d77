----------------------------- MODULE Contracts -----------------------------
(***************************************************************************)
(* What a run of the harness is configured with: requests, contracts, the  *)
(* capabilities they grant and the binding of each agent to one contract   *)
(* (request.py, capability.py, contract.py).  All of it is immutable after *)
(* load, so it is CONSTANT here.                                           *)
(*                                                                         *)
(* Arguments are opaque values: two arguments are equal exactly when their *)
(* canonical JSON (and so their hash) is.  What the policy reads in one is *)
(* attr[x]: its argument names, its longest string, the URL each argument  *)
(* holds, and the "to", "action" and "arguments" entries.                  *)
(***************************************************************************)
EXTENDS Naturals, FiniteSets, Sequences

CONSTANTS
    Agents,         \* agent ids a request may carry, bound to a contract or not
    Actions,        \* action names a request may carry, well formed or not
    ActionNames,    \* those that match ACTION_NAME
    Reserved,       \* those under "harness." or "contract."
    Arguments,      \* argument mappings, up to canonical JSON
    attr,           \* what the policy can read of each member of Arguments
    ContractNames,  \* strings a request may claim as contract_id
    Principals,     \* ids an approver may present
    contracts,      \* contract id -> TaskContract
    None,           \* Python's None, and any value that is not a string
    Never           \* the expires_at of what does not expire

MESSAGE_ACTION == "agent.message"
DELEGATE_ACTION == "agent.delegate"

Effects == {"allow", "deny", "escalate"}

ContractIds == DOMAIN contracts

(* An agent's proposal.  contract_id is the contract the agent claims.     *)
Request ==
    [agent_id: Agents \cup {None}, action: Actions \cup {None},
     arguments: Arguments, contract_id: ContractNames \cup {None}]

(* ActionRequest.problems: such a request is refused before its fields are *)
(* used as keys.                                                           *)
problems(r) ==
    \/ r.agent_id = None
    \/ r.action \notin ActionNames
    \/ r.contract_id \notin ContractNames \cup {None}

(* Mistake: the recipient's action is asked for in the sender's name.      *)
delegated_action_as_sender(r) ==
    [agent_id |-> r.agent_id, action |-> attr[r.arguments].action,
     arguments |-> attr[r.arguments].inner, contract_id |-> None]

(* DelegationRequest.delegated_action: what the recipient is asked to do.  *)
(* The sender's contract claim is dropped.                                 *)
delegated_action(r) ==
    [agent_id |-> attr[r.arguments].to, action |-> attr[r.arguments].action,
     arguments |-> attr[r.arguments].inner, contract_id |-> None]

(* build_bindings: an agent is bound to the one contract that declares it. *)
BoundAgents == UNION {DOMAIN contracts[c].agents : c \in ContractIds}
bindings == [a \in BoundAgents |-> CHOOSE c \in ContractIds : a \in DOMAIN contracts[c].agents]

AllApprovers == UNION {contracts[c].approvers : c \in ContractIds}

contract_of(a) == contracts[bindings[a]]

(* TaskContract.capabilities_for: a partial function from action names.    *)
capabilities_for(a) == contract_of(a).agents[a]

----------------------------------------------------------------------------
CONSTRAINTS ==
    {"allowed_arguments", "required_arguments", "max_argument_length", "url_argument",
     "allowed_domains", "blocked_domains", "block_private_hosts", "allowed_targets",
     "allowed_actions", "max_calls"}

(* What _parse_constraints accepts.  A domain is the sequence of its       *)
(* labels.                                                                 *)
ValidConstraints(c) ==
    /\ DOMAIN c \subseteq CONSTRAINTS
    /\ \A k \in {"max_calls", "max_argument_length"} \cap DOMAIN c : c[k] \in Nat
    /\ \A k \in {"allowed_domains", "blocked_domains"} \cap DOMAIN c : c[k] \subseteq Seq(STRING)
    /\ "block_private_hosts" \in DOMAIN c => c.block_private_hosts \in BOOLEAN

(* What parse_capability and TaskContract accept of one capability.        *)
ValidCapability(action, cap) ==
    /\ action \in ActionNames \ Reserved
    /\ cap.effect \in Effects
    /\ cap.expires_at \in Nat \cup {Never}
    /\ ValidConstraints(cap.constraints)
    /\ cap.effect # "deny" =>
         /\ action \in {MESSAGE_ACTION, DELEGATE_ACTION} =>
                "allowed_targets" \in DOMAIN cap.constraints
         /\ action = DELEGATE_ACTION => "allowed_actions" \in DOMAIN cap.constraints

(* What TaskContract.__post_init__ accepts of one contract: a positive     *)
(* step budget, at least one agent, approvers that are not its agents.     *)
ValidContract(c) ==
    /\ c.max_steps \in Nat \ {0}
    /\ c.expires_at \in Nat \cup {Never}
    /\ DOMAIN c.agents # {}
    /\ DOMAIN c.agents \subseteq Agents
    /\ c.approvers \subseteq Principals
    /\ c.approvers \cap DOMAIN c.agents = {}
    /\ \A a \in DOMAIN c.agents : \A x \in DOMAIN c.agents[a] :
            ValidCapability(x, c.agents[a][x])

(* What build_bindings accepts: no agent in two contracts, no approver of  *)
(* any contract who is an agent of another.                                *)
ValidBindings ==
    /\ \A c, d \in ContractIds :
            c # d => DOMAIN contracts[c].agents \cap DOMAIN contracts[d].agents = {}
    /\ AllApprovers \cap BoundAgents = {}

(* The harness does not start on contracts it refuses to load.             *)
ASSUME ContractsLoaded ==
    /\ \A c \in ContractIds : ValidContract(contracts[c])
    /\ ValidBindings

ASSUME Vocabulary ==
    /\ ActionNames \subseteq Actions
    /\ Reserved \subseteq ActionNames
    /\ {MESSAGE_ACTION, DELEGATE_ACTION} \subseteq ActionNames \ Reserved
    /\ ContractIds \subseteq ContractNames
    /\ None \notin Agents \cup Actions \cup ContractNames \cup Principals
    /\ Never \notin Nat
    /\ \A x \in Arguments :
         /\ attr[x].to \in Agents \cup {None}
         /\ attr[x].action \in Actions \cup {None}
         /\ attr[x].inner \in Arguments
         /\ attr[x].longest \in Nat
============================================================================
