------------------------------ MODULE MCPolicy ------------------------------
(***************************************************************************)
(* A small vocabulary: the contracts exercise every constraint, effect and *)
(* expiry, and each edit of them one kind of change.                       *)
(***************************************************************************)
EXTENDS PolicyWalk, TLC

CONSTANTS a, b, c, h

Host(ip, public, labels) == [kind |-> "host", ip |-> ip, public |-> public, labels |-> labels]
NoUrl == [kind |-> "absent"]

Rec(names, longest, url, to, action) ==
    [names |-> names, longest |-> longest, urls |-> [n \in {"url", "link"} |-> url],
     to |-> to, action |-> action, inner |-> "empty"]

MCAttr ==
    "empty"   :> Rec({}, 0, NoUrl, None, None) @@
    "long"    :> Rec({"url"}, 9, NoUrl, None, None) @@
    "opaque"  :> Rec({"url"}, 2, [kind |-> "unusable"], None, None) @@
    "site"    :> Rec({"url"}, 2, Host(FALSE, TRUE, <<"arxiv", "org">>), None, None) @@
    "sub"     :> Rec({"url"}, 2, Host(FALSE, TRUE, <<"export", "arxiv", "org">>), None, None) @@
    "blocked" :> Rec({"url"}, 2, Host(FALSE, TRUE, <<"x", "ads", "arxiv", "org">>), None, None) @@
    "other"   :> Rec({"url"}, 2, Host(FALSE, TRUE, <<"notarxiv", "org">>), None, None) @@
    "intra"   :> Rec({"url"}, 2, Host(FALSE, TRUE, <<"db", "internal">>), None, None) @@
    "ip"      :> Rec({"url"}, 2, Host(TRUE, TRUE, << >>), None, None) @@
    "private" :> Rec({"url"}, 2, Host(TRUE, FALSE, << >>), None, None) @@
    "extra"   :> Rec({"url", "q"}, 2, Host(FALSE, TRUE, <<"arxiv", "org">>), None, None) @@
    "toB"     :> Rec({"to"}, 1, NoUrl, b, "web.fetch") @@
    "toSelf"  :> Rec({"to"}, 1, NoUrl, a, "web.fetch") @@
    "toC"     :> Rec({"to"}, 1, NoUrl, c, "db.drop")

Cap(effect, expires_at, constraints) ==
    [effect |-> effect, expires_at |-> expires_at, constraints |-> constraints]

MCContracts ==
    "c1" :> [max_steps |-> 2, expires_at |-> Never, approvers |-> {h},
             agents |-> a :> (
                "web.fetch" :> Cap("allow", Never,
                    [max_calls |-> 1, allowed_arguments |-> {"url"}, required_arguments |-> {"url"},
                     max_argument_length |-> 5, allowed_domains |-> {<<"arxiv", "org">>},
                     blocked_domains |-> {<<"ads", "arxiv", "org">>}]) @@
                "web.open" :> Cap("allow", Never,
                    [block_private_hosts |-> TRUE, url_argument |-> "link",
                     blocked_domains |-> {<<"ads", "arxiv", "org">>}]) @@
                "db.write" :> Cap("escalate", 2, << >>) @@
                "db.drop" :> Cap("deny", Never, << >>) @@
                MESSAGE_ACTION :> Cap("allow", Never, [allowed_targets |-> {a, b, c}]) @@
                DELEGATE_ACTION :> Cap("escalate", Never,
                    [allowed_targets |-> {b, c}, allowed_actions |-> {"web.fetch"}]))] @@
    "c2" :> [max_steps |-> 3, expires_at |-> 1, approvers |-> {},
             agents |-> b :> ("web.fetch" :> Cap("allow", 3, << >>))]

Recap(a0, x, cap) == [MCContracts EXCEPT !["c1"].agents[a0] = (x :> cap) @@ @]

MCEdits ==
    "constraints relaxed" :> Recap(a, "web.fetch", Cap("allow", Never, [max_calls |-> 2])) @@
    "grant lasts" :> Recap(a, "db.write", Cap("escalate", Never, << >>)) @@
    "more steps" :> [MCContracts EXCEPT !["c1"].max_steps = 3] @@
    "contract lasts" :> [MCContracts EXCEPT !["c2"].expires_at = Never] @@
    "one for another" :> [MCContracts EXCEPT !["c1"].agents[a] =
        [x \in (DOMAIN @ \ {"db.drop"}) \cup {"db.read"} |->
            IF x = "db.read" THEN Cap("allow", Never, << >>) ELSE @[x]]] @@
    "escalates freely" :> Recap(a, "web.fetch", Cap("escalate", Never, << >>)) @@
    "agent moves" :> [MCContracts EXCEPT
        !["c1"].agents = (b :> MCContracts["c2"].agents[b]) @@ @,
        !["c2"].agents = c :> << >>]

MCNames == {"web.fetch", "web.open", "db.write", "db.drop", "db.read", "contract.edit",
            MESSAGE_ACTION, DELEGATE_ACTION}
MCActions == MCNames \cup {"Bad Name"}
MCArguments == DOMAIN MCAttr
MCSuffixes == {<<"internal">>, <<"local">>, <<"home", "arpa">>}
============================================================================
