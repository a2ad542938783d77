------------------------------- MODULE Policy -------------------------------
(***************************************************************************)
(* The policy engine: evaluate (policy.py) and check_constraints           *)
(* (capability.py), pure functions of a request, the contracts, the        *)
(* counters read for it and the time.  The rules are tried in the order of *)
(* the code, and the first one that objects gives the reason.              *)
(***************************************************************************)
EXTENDS Contracts

CONSTANT PrivateSuffixes   \* _PRIVATE_SUFFIXES, each a sequence of labels

(* decision.ReasonCode, as far as a decision carries it.                   *)
ReasonCode ==
    {"CAPABILITY_GRANTED", "APPROVED_BY_HUMAN", "REQUIRES_APPROVAL", "MALFORMED_REQUEST",
     "IDENTITY_MISMATCH", "UNKNOWN_AGENT", "CONTRACT_MISMATCH", "CONTRACT_EXPIRED",
     "RESERVED_ACTION", "TOOL_NOT_ALLOWED", "EXPLICITLY_DENIED", "CAPABILITY_EXPIRED",
     "BUDGET_EXHAUSTED", "ARGUMENT_NOT_ALLOWED", "ARGUMENT_MISSING", "DOMAIN_NOT_ALLOWED",
     "TARGET_NOT_ALLOWED", "DELEGATED_ACTION_NOT_ALLOWED", "APPROVAL_REJECTED"}

ASSUME NoneIsNoReason == None \notin ReasonCode

(* A URL argument: "absent" (missing or not a string), "unusable" (any     *)
(* URL that _check_url refuses before it looks at the host) or a host.     *)
(* A host is an IP literal, public or not, or a sequence of DNS labels.    *)
EndsWith(labels, suffix) ==
    \E k \in 1..Len(labels) : SubSeq(labels, k, Len(labels)) = suffix

(* netaddr.is_private_host.  "localhost" and its like are single labels.   *)
is_private_host(h) ==
    IF h.ip THEN ~h.public
            ELSE \/ Len(h.labels) = 1
                 \/ \E s \in PrivateSuffixes : h.labels # s /\ EndsWith(h.labels, s)

(* The argument that holds the URL.                                        *)
url_argument(c) == IF "url_argument" \in DOMAIN c THEN c.url_argument ELSE "url"

(* Names are spelled in labels: the suffixes, and the host of a URL that a *)
(* capability looks at.                                                    *)
ASSUME Spelling ==
    /\ PrivateSuffixes \subseteq Seq(STRING)
    /\ \A x \in Arguments, k \in ContractIds : \A a \in DOMAIN contracts[k].agents :
            \A y \in DOMAIN contracts[k].agents[a] :
                LET url == attr[x].urls[url_argument(contracts[k].agents[a][y].constraints)]
                IN  url.kind = "host" /\ ~url.ip => url.labels \in Seq(STRING)

(* Mistake: the domain itself matches, its subdomains do not.              *)
matches_exact(h, domains) == ~h.ip /\ h.labels \in domains

(* _check_url's matches: the host is one of the domains or below one.      *)
matches(h, domains) == ~h.ip /\ \E d \in domains : EndsWith(h.labels, d)

UrlConstraints == {"allowed_domains", "blocked_domains", "block_private_hosts"}

(* _check_url: does the URL the capability points at break a constraint?   *)
_check_url_denies(c, args) ==
    LET url == args.urls[url_argument(c)]
    IN \/ url.kind # "host"
       \/ "blocked_domains" \in DOMAIN c /\ matches(url, c.blocked_domains)
       \/ "block_private_hosts" \in DOMAIN c /\ c.block_private_hosts /\ is_private_host(url)
       \/ "allowed_domains" \in DOMAIN c /\ ~matches(url, c.allowed_domains)

(* check_constraints: the reason of the first violated constraint, or None.*)
(* A capability's constraints are a record with only the fields it sets.   *)
check_constraints(c, r, calls_so_far) ==
    LET args == attr[r.arguments]
    IN  IF "max_calls" \in DOMAIN c /\ calls_so_far >= c.max_calls
            THEN "BUDGET_EXHAUSTED"
        ELSE IF "allowed_arguments" \in DOMAIN c /\ ~(args.names \subseteq c.allowed_arguments)
            THEN "ARGUMENT_NOT_ALLOWED"
        ELSE IF "required_arguments" \in DOMAIN c /\ ~(c.required_arguments \subseteq args.names)
            THEN "ARGUMENT_MISSING"
        ELSE IF "max_argument_length" \in DOMAIN c /\ args.longest > c.max_argument_length
            THEN "ARGUMENT_NOT_ALLOWED"
        ELSE IF UrlConstraints \cap DOMAIN c # {} /\ _check_url_denies(c, args)
            THEN "DOMAIN_NOT_ALLOWED"
        ELSE IF "allowed_targets" \in DOMAIN c /\ args.to \notin c.allowed_targets
            THEN "TARGET_NOT_ALLOWED"
        ELSE IF "allowed_actions" \in DOMAIN c /\ args.action \notin c.allowed_actions
            THEN "DELEGATED_ACTION_NOT_ALLOWED"
        ELSE None

(* Mistake: expired at the very moment, and not after it.                  *)
expired_once(at, now) == at # Never /\ now = at

expired(at, now) == at # Never /\ now >= at

deny(reason) == [decision |-> "deny", reason |-> reason]

(* evaluate from the capability on: the agent is bound, its contract live  *)
(* and within budget, and holds cap for the action.                        *)
evaluate_capability(r, cap, usage, now) ==
    LET violation == check_constraints(cap.constraints, r, usage.calls)
        target    == attr[r.arguments].to
    IN  IF cap.effect = "deny" THEN deny("EXPLICITLY_DENIED")
        ELSE IF expired(cap.expires_at, now) THEN deny("CAPABILITY_EXPIRED")
        ELSE IF violation # None THEN deny(violation)
        ELSE IF /\ r.action \in {MESSAGE_ACTION, DELEGATE_ACTION}
                /\ target = r.agent_id \/ target \notin BoundAgents
            THEN deny("TARGET_NOT_ALLOWED")
        ELSE IF cap.effect = "escalate"
            THEN [decision |-> "escalate", reason |-> "REQUIRES_APPROVAL"]
        ELSE [decision |-> "allow", reason |-> "CAPABILITY_GRANTED"]

(* evaluate.  usage is [steps, calls]: the contract's and the action's.    *)
evaluate(r, usage, now) ==
    IF problems(r) THEN deny("MALFORMED_REQUEST")
    ELSE IF r.agent_id \notin BoundAgents THEN deny("UNKNOWN_AGENT")
    ELSE IF r.contract_id \notin {None, bindings[r.agent_id]} THEN deny("CONTRACT_MISMATCH")
    ELSE IF expired(contract_of(r.agent_id).expires_at, now) THEN deny("CONTRACT_EXPIRED")
    ELSE IF usage.steps >= contract_of(r.agent_id).max_steps THEN deny("BUDGET_EXHAUSTED")
    ELSE IF r.action \in Reserved THEN deny("RESERVED_ACTION")
    ELSE IF r.action \notin DOMAIN capabilities_for(r.agent_id) THEN deny("TOOL_NOT_ALLOWED")
    ELSE evaluate_capability(r, capabilities_for(r.agent_id)[r.action], usage, now)
============================================================================
