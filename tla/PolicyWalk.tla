----------------------------- MODULE PolicyWalk -----------------------------
(***************************************************************************)
(* The policy engine over every request, as counters and time move on      *)
(* under it, beside what is shown of it and what a fetch makes of a URL.   *)
(***************************************************************************)
EXTENDS Views, HttpFetch

CONSTANTS
    MaxUse,      \* bound: steps and calls counted
    MaxMoment    \* bound: the clock

VARIABLES asked, spent, moment, edited

walk == <<asked, spent, moment, edited>>

(* What a resolver may say: no address, or some, public or not.            *)
Answers == UNION {[1..n -> BOOLEAN] : n \in 0..2}

WalkInit ==
    /\ asked \in Request
    /\ spent = [steps |-> 0, calls |-> 0]
    /\ moment = 0
    /\ edited \in DOMAIN Edits

WalkNext ==
    /\ UNCHANGED <<asked, edited>>
    /\ \/ spent.steps < MaxUse /\ spent' = [spent EXCEPT !.steps = @ + 1] /\ UNCHANGED moment
       \/ spent.calls < MaxUse /\ spent' = [spent EXCEPT !.calls = @ + 1] /\ UNCHANGED moment
       \/ moment < MaxMoment /\ moment' = moment + 1 /\ UNCHANGED spent

WalkSpec == WalkInit /\ [][WalkNext]_walk

----------------------------------------------------------------------------
(* docs/capabilities.md's table of constraints, one line each and in no    *)
(* particular order.  A host is under a domain if it ends in its labels.   *)
Under(host, domain) ==
    /\ ~host.ip
    /\ Len(domain) \in 1..Len(host.labels)
    /\ \A k \in 1..Len(domain) :
            domain[k] = host.labels[Len(host.labels) - Len(domain) + k]

PrivateName(host) ==
    IF host.ip THEN ~host.public
               ELSE \/ Len(host.labels) = 1
                    \/ \E s \in PrivateSuffixes : Len(s) < Len(host.labels) /\ Under(host, s)

Holds(name, cap, args, used) ==
    LET value == cap.constraints[name]
        url == args.urls[url_argument(cap.constraints)]
    IN  CASE name = "max_calls" -> used < value
          [] name = "allowed_arguments" -> args.names \subseteq value
          [] name = "required_arguments" -> value \subseteq args.names
          [] name = "max_argument_length" -> args.longest <= value
          [] name = "url_argument" -> TRUE
          [] name = "allowed_domains" -> url.kind = "host" /\ \E d \in value : Under(url, d)
          [] name = "blocked_domains" -> url.kind = "host" /\ \A d \in value : ~Under(url, d)
          [] name = "block_private_hosts" -> url.kind = "host" /\ (value => ~PrivateName(url))
          [] name = "allowed_targets" -> args.to \in value
          [] name = "allowed_actions" -> args.action \in value

(* The capability that some contract gives the agent for the action, if it *)
(* is live.                                                                *)
LiveCapabilities(r, t) ==
    {cap \in UNION {{contracts[k].agents[r.agent_id][r.action]} :
                     k \in {k \in ContractIds :
                                /\ r.agent_id \in DOMAIN contracts[k].agents
                                /\ r.action \in DOMAIN contracts[k].agents[r.agent_id]
                                /\ contracts[k].expires_at = Never \/ t < contracts[k].expires_at
                                /\ r.contract_id \in {None, k}
                                /\ spent.steps < contracts[k].max_steps}} :
        cap.effect # "deny" /\ (cap.expires_at = Never \/ t < cap.expires_at)}

(* evaluate says "allow" or "escalate" exactly when a live capability of   *)
(* the agent's own contract covers the action and every constraint on it   *)
(* holds, and a message or delegation goes to another registered agent:    *)
(* the ladder of early returns in policy.py drops no rule and adds none.   *)
EvaluateAgrees ==
    LET verdict == evaluate(asked, spent, moment).decision
        args == attr[asked.arguments]
        covering == {cap \in LiveCapabilities(asked, moment) :
            /\ \A name \in DOMAIN cap.constraints : Holds(name, cap, args, spent.calls)
            /\ asked.action \in {MESSAGE_ACTION, DELEGATE_ACTION} =>
                    args.to \in BoundAgents \ {asked.agent_id}}
    IN  /\ verdict = "deny" <=> covering = {}
        /\ \A cap \in covering : verdict = cap.effect

(* What is denied stays denied as budgets are spent and time passes: when  *)
(* approve judges a asked again it never finds more authority than the   *)
(* escalation had (policy.evaluate).                                       *)
AuthorityOnlyShrinks ==
    [][evaluate(asked, spent, moment).decision = "deny"
        => evaluate(asked', spent', moment').decision = "deny"]_walk

(* What an agent is listed, and what a person is told a proposal would     *)
(* hit, bound what can really be decided: spent budgets turn an answer of  *)
(* explain into "deny" and nothing else, and an action is listed exactly   *)
(* if explain does not put it down to the grant itself (_tools_list,       *)
(* explain).                                                               *)
ViewsBoundDecisions ==
    LET shown == explain(asked, moment)
    IN  /\ evaluate(asked, spent, moment).decision \in {"deny", shown.decision}
        /\ shown.decision # "deny" => asked.action \in _tools_list(asked.agent_id)
        /\ shown.reason \in {"TOOL_NOT_ALLOWED", "EXPLICITLY_DENIED"}
                => asked.action \notin _tools_list(asked.agent_id)

(* A decision that differs under the edited contracts is announced by a    *)
(* line of the diff, about that grant or about the agent's contract, and a *)
(* grant shown as removed or narrowed is allowed to nobody - as long as    *)
(* the edit leaves every agent in its contract: diff does not compare      *)
(* who is bound where (diff, _rank).                                       *)
DiffShowsEveryChange ==
    \A e \in DOMAIN Edits :
        edited = e /\ Edited(Edits[e])!bindings = bindings =>
            LET changes == diff(contracts, Edits[e])
                key     == <<asked.agent_id, asked.action>>
                after   == Edited(Edits[e])!evaluate(asked, spent, moment)
                unseen  == /\ \A g \in changes.grants : g.key # key
                           /\ asked.agent_id \in BoundAgents =>
                                bindings[asked.agent_id] \notin changes.contracts
            IN  /\ unseen => after = evaluate(asked, spent, moment)
                /\ \A g \in changes.grants :
                        g.key = key /\ g.status \in {"removed", "narrowed"} => after.decision # "allow"

(* Whatever the resolver answers, and whatever it would answer if asked    *)
(* again, a URL is fetched from a public address and an allowed port, even *)
(* where the capability sets no constraint on it (HttpFetchTool.__call__). *)
FetchStaysPublic ==
    LET url == attr[asked.arguments].urls["url"]
    IN  asked.action = "web.fetch" /\ url.kind = "host" =>
            \A given \in {0, 80, 8080}, first, second \in Answers :
                LET got == fetch(url, given, 443, <<first, second>>)
                IN  got.kind = "connected" => got.public /\ got.port \in AllowedPorts
============================================================================
