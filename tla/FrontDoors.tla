----------------------------- MODULE FrontDoors -----------------------------
(* What callers are told.  An agent proposes over HTTP (api.py, read with  *)
(* the SDK's Outcome) or over MCP (mcp/gateway.py), a human decides over   *)
(* HTTP, and the agent asks for the status of its escalation until it      *)
(* hears the result.                                                       *)
(*                                                                         *)
(* What the harness decides is taken as it comes: module Harness says      *)
(* which decisions are possible.  Here a decision is any of the three, and *)
(* the question is whether what is said of it is true.                     *)
EXTENDS Naturals, Sequences, FiniteSets

CONSTANTS
    Agents,
    Approvers,
    contract_approvers,    \* agent -> the approvers of its contract
    Threads,               \* threads of the API that serve approvers
    None,
    Raised,                \* what an accessor of the SDK has for a value when it raises
    MaxProposals,          \* bound: requests of agents
    MaxDecisions,          \* bound: decisions of the harness
    MaxFaults              \* bound: requests that end in an exception or a crash

Decisions == {"allow", "deny", "escalate"}

(* How harness.execute ends.  A tool that fails may have had its effect;   *)
(* an upstream MCP tool may return a result that says isError.             *)
Executions == {"succeeded", "says_error", "failed", "failed_late", "refused"}

Verdicts == {"granted", "superseded", "rejected"}

ASSUME Setting ==
    /\ contract_approvers \in [Agents -> SUBSET Approvers]
    /\ None \notin Nat \cup Decisions \cup Executions \cup Verdicts
    /\ Raised \notin Nat \cup Decisions \cup Executions \cup {None}

VARIABLES
    decisions,    \* every decision; its position is its decision_id, and its
                  \* approval_id if it escalates
    ran,          \* decisions whose tool took effect
    approvals,    \* the store's approval records, by approval_id
    replies,      \* what agents were told
    thread,       \* where each thread is in handle_approval
    abandoned,    \* approvals whose thread raised or died while deciding
    faults

vars == <<decisions, ran, approvals, replies, thread, abandoned, faults>>

Kinds == {"action", "message", "delegate"}
TookEffect(x) == x \in {"succeeded", "says_error", "failed_late"}

NoThread == [at |-> "idle", id |-> 0, made |-> 0, body |-> None]

Init ==
    /\ decisions = <<>>
    /\ ran = {}
    /\ approvals = <<>>
    /\ replies = {}
    /\ thread = [t \in Threads |-> NoThread]
    /\ abandoned = {}
    /\ faults = 0

----------------------------------------------------------------------------
(* The shape of a response.  A body is either one decision's payload or    *)
(* the payloads of the two stages of a delegation.                         *)

NoPayload == [decision |-> None, decision_id |-> None, approval_id |-> None, execution |-> None]

(* AuthorizationResult.to_dict *)
to_dict(id, d) ==
    [decision |-> d.decision, decision_id |-> id,
     approval_id |-> IF d.decision = "escalate" THEN id ELSE None, execution |-> None]

(* What a decision's own payload has under "action" is the action's name;  *)
(* what a delegation's body has there is the payload of its second stage.  *)
Plain(p) == [whole |-> p, delegation |-> NoPayload, action |-> NoPayload, blocked_at |-> None,
             names_action |-> p # NoPayload]
TwoStages(first, second, where) ==
    [whole |-> NoPayload, delegation |-> first, action |-> second, blocked_at |-> where,
     names_action |-> FALSE]

(* Mistake: every execution is reported as a success. *)
ReportedDone(x) == "succeeded"

Reported(x) == CASE x = "failed_late" -> "failed"
                 [] OTHER -> x

(* HarnessAPI.respond, x being how execute ends if it is called. *)
respond_payload(p, x) ==
    CASE p.decision = "escalate" -> [status |-> 202, payload |-> p]
      [] p.decision = "deny"     -> [status |-> 403, payload |-> p]
      [] OTHER                   -> [status |-> IF x = "refused" THEN 502 ELSE 200,
                                     payload |-> [p EXCEPT !.execution = Reported(x)]]

respond(p, x) ==
    LET r == respond_payload(p, x) IN [status |-> r.status, body |-> Plain(r.payload)]

(* HarnessAPI.respond_delegation; second is NoPayload when the first stage *)
(* did not allow.                                                          *)
respond_delegation(first, second, x) ==
    IF second = NoPayload
    THEN IF first.decision = "escalate"
         THEN [status |-> 202, body |-> TwoStages(first, NoPayload, None)]
         ELSE [status |-> 403, body |-> TwoStages(first, NoPayload, "sender")]
    ELSE LET r == respond_payload(second, x)
         IN  [status |-> r.status,
              body |-> TwoStages(first, r.payload, IF r.status = 403 THEN "recipient" ELSE None)]

(* HarnessAPI.handle_message: send_message has executed already and keeps  *)
(* the result to itself; a refusal is an exception and ends as 500.        *)
ServerError == [status |-> 500, body |-> Plain(NoPayload)]
respond_message(p, x) ==
    CASE p.decision = "escalate" -> [status |-> 202, body |-> Plain(p)]
      [] p.decision = "deny"     -> [status |-> 403, body |-> Plain(p)]
      [] OTHER                   -> IF x = "refused" THEN ServerError
                                    ELSE [status |-> 200, body |-> Plain(p)]

(* `a or b or ...` *)
FirstOf(a, b) == IF a # None THEN a ELSE b

(* The SDK's Outcome.  An accessor that gets as far as looking into the    *)
(* body's action raises AttributeError when that is a name: execution of   *)
(* a denial, an escalation or a message, approval_id of a call that does   *)
(* not wait, reason_code of a decision that allowed.                       *)
Outcome(r) ==
    LET b == r.body
        Blames(p) == p.decision \notin {None, "allow"}
        InAction(value) == IF b.names_action THEN Raised ELSE value
    IN  [allowed |-> r.status = 200,
         escalated |-> r.status = 202,
         decision |-> FirstOf(b.whole.decision,
                              FirstOf(InAction(b.action.decision), b.delegation.decision)),
         reason_of |-> IF Blames(b.whole) THEN b.whole.decision_id
                       ELSE InAction(IF Blames(b.action) THEN b.action.decision_id
                                     ELSE IF Blames(b.delegation) THEN b.delegation.decision_id
                                     ELSE b.whole.decision_id),
         approval_id |-> FirstOf(b.whole.approval_id,
                                 FirstOf(b.delegation.approval_id, InAction(b.action.approval_id))),
         execution |-> FirstOf(b.whole.execution, InAction(b.action.execution))]

(* The gateway's _decision_result.  For a delegation that stops at the     *)
(* sender, `final` is the envelope, which has no decision.                 *)
decision_result(r) ==
    LET b == r.body
        final == IF b.action # NoPayload THEN b.action ELSE b.whole
        approval_id == FirstOf(b.whole.approval_id, b.delegation.approval_id)
        Says(what, isError) ==
            [says |-> what, isError |-> isError, decision |-> final.decision,
             decision_id |-> final.decision_id, approval_id |-> approval_id, blocked_at |-> b.blocked_at]
        ran_says ==
            CASE final.execution = "failed" -> Says("tool failed", TRUE)
              [] final.execution = "says_error" -> Says("upstream result", TRUE)
              [] final.execution = None -> Says("delivered", FALSE)
              [] OTHER -> Says("output", FALSE)
    IN  CASE r.status = 500 -> Says("internal error", TRUE)
          [] r.status = 200 -> ran_says
          [] r.status = 202 -> Says("needs approval", TRUE)
          [] OTHER -> Says("denied", TRUE)

----------------------------------------------------------------------------
(* Agents propose. *)

Judged(a, kind, d, parent) == [agent |-> a, kind |-> kind, decision |-> d, parent |-> parent]

(* Harness._result_for puts an approval record for a decision that         *)
(* escalates.                                                              *)
Pending == [status |-> "pending", verdict |-> None, result |-> None]
PutApprovals(new) ==
    LET ids == {i \in DOMAIN new : new[i].decision = "escalate"}
    IN  approvals' = [i \in DOMAIN approvals \cup ids |->
                        IF i \in DOMAIN approvals THEN approvals[i] ELSE Pending]

Decide(new) == decisions' = decisions \o new /\ PutApprovals(decisions')

(* Room for n more decisions, beside the two a verdict in progress needs. *)
Room(n) ==
    Len(decisions) + n + 2 * Cardinality({t \in Threads : thread[t].at # "idle"}) <= MaxDecisions

Effect(id, d, x) == ran' = IF d = "allow" /\ TookEffect(x) THEN ran \cup {id} ELSE ran

(* A thread that raises tells the caller 500, whatever it has done. *)
Tell(a, kind, first, last, response, fails) ==
    /\ faults' = IF fails THEN faults + 1 ELSE faults
    /\ faults' <= MaxFaults
    /\ Cardinality(replies) < MaxProposals
    /\ replies' = replies \cup
          {[agent |-> a, kind |-> kind, first |-> first, last |-> last,
            response |-> IF fails THEN ServerError ELSE response]}

Next_id == Len(decisions) + 1

(* handle_action; and _identity_mismatch, which is one more denial. *)
HandleAction(a) ==
    \E d \in Decisions, x \in Executions, fails \in BOOLEAN :
       /\ Room(1)
       /\ Decide(<<Judged(a, "action", d, 0)>>)
       /\ Effect(Next_id, d, x)
       /\ Tell(a, "action", Next_id, Next_id, respond(to_dict(Next_id, decisions'[Next_id]), x), fails)
       /\ UNCHANGED <<thread, abandoned>>

HandleMessage(a) ==
    \E d \in Decisions, x \in Executions \ {"says_error"}, fails \in BOOLEAN :
       /\ Room(1)
       /\ Decide(<<Judged(a, "message", d, 0)>>)
       /\ Effect(Next_id, d, x)
       /\ Tell(a, "message", Next_id, Next_id,
               respond_message(to_dict(Next_id, decisions'[Next_id]), x), fails)
       /\ UNCHANGED <<thread, abandoned>>

(* handle_delegation: the second stage is the recipient's decision. *)
HandleDelegation(a, b) ==
    \E d \in Decisions, x \in Executions, fails \in BOOLEAN :
       /\ Room(2)
       /\ \/ /\ d # "allow"
             /\ Decide(<<Judged(a, "delegate", d, 0)>>)
             /\ UNCHANGED ran
             /\ Tell(a, "delegate", Next_id, Next_id,
                     respond_delegation(to_dict(Next_id, decisions'[Next_id]), NoPayload, x), fails)
          \/ /\ d = "allow"
             /\ \E e \in Decisions :
                   /\ Decide(<<Judged(a, "delegate", d, 0), Judged(b, "action", e, Next_id)>>)
                   /\ Effect(Next_id + 1, e, x)
             /\ Tell(a, "delegate", Next_id, Next_id + 1,
                     respond_delegation(to_dict(Next_id, decisions'[Next_id]),
                                        to_dict(Next_id + 1, decisions'[Next_id + 1]), x), fails)
       /\ UNCHANGED <<thread, abandoned>>

----------------------------------------------------------------------------
(* Approvers decide: handle_approval, step by step.  An approval that is   *)
(* not pending, or not this approver's, is answered 403.                   *)

Takes(t, ap, id) ==
    /\ thread[t].at = "idle"
    /\ Room(2)
    /\ approvals[id].status = "pending"
    /\ ap \in contract_approvers[decisions[id].agent]
    /\ approvals' = [approvals EXCEPT ![id].status = "decided"]

(* approve: take and decide in one transaction; granted or superseded. *)
Approve(t, ap, id) ==
    /\ Takes(t, ap, id)
    /\ \E d \in {"allow", "deny"} :
          decisions' = Append(decisions, Judged(decisions[id].agent, decisions[id].kind, d, id))
    /\ thread' = [thread EXCEPT ![t] = [NoThread EXCEPT !.at = "verdict", !.id = id, !.made = Next_id]]
    /\ UNCHANGED <<ran, replies, abandoned, faults>>

(* reject: take, then record. *)
Reject(t, ap, id) ==
    /\ Takes(t, ap, id)
    /\ thread' = [thread EXCEPT ![t] = [NoThread EXCEPT !.at = "reject", !.id = id]]
    /\ UNCHANGED <<decisions, ran, replies, abandoned, faults>>

RecordRejection(t) ==
    /\ thread[t].at = "reject"
    /\ LET was == decisions[thread[t].id]
       IN  decisions' = Append(decisions, Judged(was.agent, was.kind, "deny", thread[t].id))
    /\ thread' = [thread EXCEPT ![t].at = "rejected", ![t].made = Next_id]
    /\ UNCHANGED <<ran, approvals, replies, abandoned, faults>>

(* Mistake: the verdicts are swapped. *)
AnnotateOther(t) ==
    /\ thread[t].at \in {"verdict", "rejected"}
    /\ approvals' = [approvals EXCEPT ![thread[t].id].verdict =
                        IF thread[t].at = "rejected" THEN "granted" ELSE "rejected"]
    /\ thread' = [thread EXCEPT ![t].at = "respond"]
    /\ UNCHANGED <<decisions, ran, replies, abandoned, faults>>

(* annotate_approval with the verdict. *)
AnnotateVerdict(t) ==
    /\ thread[t].at \in {"verdict", "rejected"}
    /\ approvals' = [approvals EXCEPT ![thread[t].id].verdict =
                        IF thread[t].at = "rejected" THEN "rejected"
                        ELSE IF decisions[thread[t].made].decision = "allow" THEN "granted"
                        ELSE "superseded"]
    /\ thread' = [thread EXCEPT ![t].at = "respond"]
    /\ UNCHANGED <<decisions, ran, replies, abandoned, faults>>

(* The rest of approve, and respond: the second stage of a delegation that *)
(* was granted, or the execution.                                          *)
Respond(t) ==
    /\ thread[t].at = "respond"
    /\ LET id == thread[t].made
           d == decisions[id]
           p == to_dict(id, d)
       IN  \E x \in Executions :
             \/ /\ d.kind = "delegate" /\ d.decision = "allow"
                /\ \E b \in Agents, e \in Decisions :
                      /\ Decide(<<Judged(b, "action", e, id)>>)
                      /\ Effect(Next_id, e, x)
                      /\ thread' = [thread EXCEPT ![t].at = "annotate", ![t].body =
                            respond_delegation(p, to_dict(Next_id, decisions'[Next_id]), x).body]
             \/ /\ ~(d.kind = "delegate" /\ d.decision = "allow")
                /\ Effect(id, d.decision, x)
                /\ thread' = [thread EXCEPT ![t].at = "annotate", ![t].body = respond(p, x).body]
                /\ UNCHANGED <<decisions, approvals>>
    /\ UNCHANGED <<replies, abandoned, faults>>

Annotate(t, record) ==
    /\ thread[t].at = "annotate"
    /\ approvals' = [approvals EXCEPT ![thread[t].id] = record]
    /\ thread' = [thread EXCEPT ![t] = NoThread]
    /\ UNCHANGED <<decisions, ran, replies, abandoned, faults>>

(* Mistake: the record written back is the one of before the verdict. *)
AnnotateStale(t) == Annotate(t, [Pending EXCEPT !.status = "decided", !.result = thread[t].body])
(* Mistake: a result is kept only if something was executed. *)
AnnotateExecuted(t) ==
    Annotate(t, IF thread[t].body.whole.execution = None THEN approvals[thread[t].id]
                ELSE [approvals[thread[t].id] EXCEPT !.result = thread[t].body])

(* annotate_approval with the result, from the record as it is now. *)
AnnotateResult(t) == Annotate(t, [approvals[thread[t].id] EXCEPT !.result = thread[t].body])

(* An exception or a crash: the rest is never done. *)
Die(t) ==
    /\ thread[t].at # "idle"
    /\ faults < MaxFaults
    /\ faults' = faults + 1
    /\ abandoned' = abandoned \cup {thread[t].id}
    /\ thread' = [thread EXCEPT ![t] = NoThread]
    /\ UNCHANGED <<decisions, ran, approvals, replies>>

ThreadStep(t) ==
    \/ RecordRejection(t)
    \/ AnnotateVerdict(t)
    \/ Respond(t)
    \/ AnnotateResult(t)

Next ==
    \/ \E a, b \in Agents : HandleAction(a) \/ HandleMessage(a) \/ HandleDelegation(a, b)
    \/ \E t \in Threads :
          \/ \E ap \in Approvers, id \in DOMAIN approvals : Approve(t, ap, id) \/ Reject(t, ap, id)
          \/ ThreadStep(t)
          \/ Die(t)

(* A request that is being served is served to its end. *)
Spec == Init /\ [][Next]_vars /\ \A t \in Threads : WF_vars(ThreadStep(t))

----------------------------------------------------------------------------
(* HarnessAPI.approval_status, which the gateway's tool calls too: what an *)
(* agent that asks now would hear.                                         *)
Unknown == [found |-> FALSE]
approval_status(a, id) ==
    IF id \notin DOMAIN approvals \/ decisions[id].agent # a THEN Unknown
    ELSE [found |-> TRUE, status |-> approvals[id].status,
          verdict |-> approvals[id].verdict, result |-> approvals[id].result]

----------------------------------------------------------------------------
Payload == [decision : Decisions \cup {None}, decision_id : Nat \cup {None},
            approval_id : Nat \cup {None},
            execution : {None, "succeeded", "says_error", "failed", "refused"}]
Body == [whole : Payload, delegation : Payload, action : Payload,
         blocked_at : {None, "sender", "recipient"}, names_action : BOOLEAN]

TypeOK ==
    /\ decisions \in Seq([agent : Agents, kind : Kinds, decision : Decisions, parent : Nat])
    /\ ran \subseteq DOMAIN decisions
    /\ DOMAIN approvals = {i \in DOMAIN decisions : decisions[i].decision = "escalate"}
    /\ \A i \in DOMAIN approvals : approvals[i] \in
          [status : {"pending", "decided"}, verdict : Verdicts \cup {None},
           result : Body \cup {None}]
    /\ \A r \in replies : r.response.body \in Body
    /\ abandoned \subseteq DOMAIN approvals

(* What an agent is told of its call is what happened: an answer that      *)
(* says it ran, over HTTP or MCP, means that it ran, and one that says it  *)
(* was denied, refused, or needs approval, that it did not.  What the SDK  *)
(* reads is there where it matters: the decision that settled the call,    *)
(* its reason if it stopped the call, the execution of a call that was let *)
(* through, and the approval_id of one that waits, be it for the caller's  *)
(* approver or the recipient's, under which its agent may ask for the      *)
(* status (respond, respond_delegation, handle_message, _decision_result,  *)
(* Outcome, approval_status).  Three exceptions are as narrow as the code  *)
(* makes them: a failed delivery of a message is told as success, the      *)
(* SDK has no execution of a message (it raises), and the gateway gives    *)
(* the approval_id of the caller's own decision only (r.first = r.last).   *)
RepliesTellWhatRan ==
    \A r \in replies :
       LET status == r.response.status
           http == Outcome(r.response)
           mcp == decision_result(r.response)
       IN  /\ http.execution \in {"succeeded", "says_error"} => r.last \in ran
           /\ ~mcp.isError => r.last \in ran \/ r.kind = "message"
           /\ http.escalated \/ status \in {403, 502} => r.last \notin ran
           /\ mcp.says \in {"denied", "needs approval"} => r.last \notin ran
           /\ status # 500 => http.decision = decisions[r.last].decision
           /\ status \in {202, 403} => http.reason_of = r.last
           /\ http.allowed /\ r.kind # "message" => http.execution \notin {None, Raised}
           /\ http.escalated => /\ http.approval_id = r.last
                                /\ approval_status(decisions[r.last].agent, r.last).found
           /\ http.escalated /\ r.first = r.last =>
                 mcp.approval_id = r.last /\ decisions[r.last].agent = r.agent

(* The status of an escalation is true of what has run because of it, at   *)
(* every moment between the verdict, the execution and the annotations     *)
(* (handle_approval, annotate_approval, approval_status).                  *)
StatusTellsWhatRan ==
    \A a \in Agents, id \in DOMAIN decisions :
       LET s == approval_status(a, id)
           because == {i \in ran : decisions[i].parent = id}
           final == IF s.result.action # NoPayload THEN s.result.action ELSE s.result.whole
       IN  s.found =>
             /\ s.status = "pending" \/ s.verdict \in {"rejected", "superseded"} => because = {}
             /\ s.result # None =>
                   /\ final.execution \in {"succeeded", "says_error"} => final.decision_id \in ran
                   /\ final.execution \in {None, "refused"} => final.decision_id \notin ran

(* What an agent has heard of its escalation is never taken back: no later *)
(* annotation undoes a status, verdict or result (annotate_approval writes *)
(* the record back whole).                                                 *)
HeardStaysTrue ==
    [][\A id \in DOMAIN approvals :
          /\ approvals[id].status = "decided" => approvals'[id].status = "decided"
          /\ approvals[id].verdict # None => approvals'[id].verdict = approvals[id].verdict
          /\ approvals[id].result # None => approvals'[id].result = approvals[id].result]_vars

(* A human's verdict reaches the agent: an escalation that was decided     *)
(* eventually has its result, unless the deciding thread raised or died,   *)
(* in which case the agent asks in vain (handle_approval).  The fairness   *)
(* presumes that a thread gets the locks it waits for, as with a SQLite    *)
(* store; with the memory store or PostgreSQL two threads may wait for     *)
(* each other for ever (HarnessLocks, NoWaitCycle).                        *)
VerdictIsReported ==
    \A id \in 1 .. MaxDecisions :
       (id \in DOMAIN approvals /\ approvals[id].status = "decided")
          ~> \/ id \in abandoned
             \/ id \in DOMAIN approvals /\ approvals[id].result # None
============================================================================
