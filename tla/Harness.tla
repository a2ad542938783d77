------------------------------- MODULE Harness -------------------------------
(***************************************************************************)
(* The harness (core.py) with its interceptor (interceptor.py), executor   *)
(* (executor.py) and state store (state.py): threads, of one process or of *)
(* many replicas, that authorize proposals, execute grants, send messages, *)
(* delegate, and decide escalations over one shared store.                 *)
(*                                                                         *)
(* A step is one store transaction, one audit record or one tool call: the *)
(* points where another thread, a failure or a crash can come in between.  *)
(* A refusal that leaves only its own audit record (a grant that does not  *)
(* verify, an approval that is not pending) is a stuttering step.          *)
(***************************************************************************)
EXTENDS Policy

CONSTANTS
    Threads,      \* request threads of every replica
    host,         \* thread -> the replica it belongs to
    Proposals,    \* requests that clients send
    Unparsed,     \* agents that send requests refused before policy
    NoArguments,  \* the empty mapping, recorded for a request refused before policy
    Tools,        \* actions with a registered tool
    Simulate,     \* Mode.SIMULATE
    Durable,      \* the store outlives its process and undoes a failed transaction
                  \* (SQLite, PostgreSQL); FALSE for MemoryStateStore, which does neither
    GrantTTL,     \* grant_ttl_seconds
    PruneGrace,   \* how long past expiry prune keeps a used grant
    MaxIds,       \* bound: decisions taken
    MaxTime,      \* bound: the clock
    MaxFaults,    \* bound: failed audit writes, failed commits and crashes
    NoDecision,   \* no decision with this id was committed
    NoRequest

VARIABLES
    clock,
    steps, calls, used, approvals, mailbox,      \* the state store
    audited,       \* id -> the Decision its "decision" record in the trail tells
    executions,    \* ids with an "execution" record in the trail
    verdicts,      \* ids with an "approval" record in the trail
    ids,           \* decision ids handed out so far
    decisions,     \* id -> the Decision that record() returned
    minted,        \* id -> expires_at of the grant minted for it
    work,          \* thread -> what it is doing
    ran,           \* id -> requests the tool was called with under its grant
    received,      \* agent -> ids of messages that receive() handed out
    faults

store == <<steps, calls, used, approvals, mailbox>>
trail == <<audited, executions, verdicts>>
history == <<ids, decisions, minted, ran, received>>
vars == <<clock, store, trail, history, work, faults>>

Ids == 1..MaxIds

Decision ==
    [request: Request, decision: Effects, reason: ReasonCode,
     delegated_by: Agents \cup {None}, parent: Ids \cup {0},
     approved_by: Principals \cup {None}]

Approval ==
    [status: {"absent", "pending", "decided"}, verb: {"none", "approve", "reject"},
     approver: Principals \cup {None},
     verdict: {"none", "granted", "superseded", "rejected"}]

Pristine(status) ==
    [status |-> status, verb |-> "none", approver |-> None, verdict |-> "none"]
Absent == Pristine("absent")

Steps == {"idle", "result", "stage2", "claim", "tool", "record",
          "approval", "annotate", "reject", "rejected"}

Frame ==
    [pc: Steps, op: {"none", "authorize", "delegate", "stage2", "approve", "reject"},
     id: Ids \cup {0}, req: Request \cup {NoRequest}]

At(pc, op, i, r) == [pc |-> pc, op |-> op, id |-> i, req |-> r]
Idle == At("idle", "none", 0, NoRequest)
Move(w, pc) == [w EXCEPT !.pc = pc]

Keys == Agents \X Actions

ASSUME Deployment ==
    /\ IsFiniteSet(Threads)
    /\ Proposals \subseteq Request
    /\ Unparsed \subseteq Agents
    /\ NoArguments \in Arguments
    /\ Simulate \in BOOLEAN /\ Durable \in BOOLEAN
    /\ GrantTTL \in Nat \ {0} /\ PruneGrace \in Nat
    /\ MaxIds \in Nat /\ MaxTime \in Nat /\ MaxFaults \in Nat
    /\ Tools \cap {MESSAGE_ACTION, DELEGATE_ACTION} = {}
    /\ NoDecision \notin Decision /\ NoRequest \notin Request

Init ==
    /\ clock = 0
    /\ steps = [c \in ContractIds |-> 0]
    /\ calls = [k \in Keys |-> 0]
    /\ used = {}
    /\ approvals = [i \in Ids |-> Absent]
    /\ mailbox = [a \in Agents |-> {}]
    /\ audited = [i \in Ids |-> NoDecision]
    /\ executions = {} /\ verdicts = {}
    /\ ids = 0
    /\ decisions = [i \in Ids |-> NoDecision]
    /\ minted = [i \in Ids |-> Never]
    /\ ran = [i \in Ids |-> <<>>]
    /\ received = [a \in Agents |-> {}]
    /\ work = [t \in Threads |-> Idle]
    /\ faults = 0

----------------------------------------------------------------------------
(* Interceptor.usage_for: the counters a request is judged against.        *)
usage_for(r) ==
    IF problems(r) \/ r.agent_id \notin BoundAgents
        THEN [steps |-> 0, calls |-> 0]
        ELSE [steps |-> steps[bindings[r.agent_id]], calls |-> calls[<<r.agent_id, r.action>>]]

(* Mistakes: a step is given back; no call is counted.                     *)
add_step_refund(a) ==
    IF a \in BoundAgents THEN [steps EXCEPT ![bindings[a]] = @ - 1] ELSE steps

add_call_free(r, decision) == calls

(* StateStore.add_step and add_call, as the counters they leave behind.    *)
add_step(a) ==
    IF a \in BoundAgents THEN [steps EXCEPT ![bindings[a]] = @ + 1] ELSE steps

add_call(r, decision) ==
    IF decision = "allow" THEN [calls EXCEPT ![<<r.agent_id, r.action>>] = @ + 1] ELSE calls

(* One more failed write, failed commit or crash, within the bound.        *)
Fault == faults < MaxFaults /\ faults' = faults + 1

Goto(t, frame) == work' = [work EXCEPT ![t] = frame]

(***************************************************************************)
(* Interceptor.record, and the end of the transaction around it: decision  *)
(* d is audited as the last thing the transaction does, and the store then *)
(* holds steps1, calls1 and approvals1.  If the audit write fails, nothing *)
(* is returned, and a store that rolls back keeps none of it; if the write *)
(* raises after the record is in the trail, the process dies or COMMIT     *)
(* fails, the trail has a decision that was never returned.                *)
(***************************************************************************)
record(t, d, steps1, calls1, approvals1, frame) ==
    /\ ids < MaxIds
    /\ UNCHANGED <<clock, used, mailbox, executions, verdicts, minted, ran, received>>
    /\ \/ /\ steps' = steps1 /\ calls' = calls1 /\ approvals' = approvals1
          /\ ids' = ids + 1
          /\ audited' = [audited EXCEPT ![ids + 1] = d]
          /\ decisions' = [decisions EXCEPT ![ids + 1] = d]
          /\ Goto(t, frame)
          /\ UNCHANGED faults
       \/ /\ Fault
          /\ IF Durable
                THEN UNCHANGED <<steps, calls, approvals>>
                ELSE steps' = steps1 /\ calls' = calls1 /\ approvals' = approvals1
          /\ \/ UNCHANGED <<ids, audited>>
             \/ ids' = ids + 1 /\ audited' = [audited EXCEPT ![ids + 1] = d]
          /\ Goto(t, Idle)
          /\ UNCHANGED decisions

(* Interceptor.decide: judge a fresh proposal and charge one step for it.  *)
decide(t, r, op, by, parent) ==
    LET ev == evaluate(r, usage_for(r), clock)
        d  == [request |-> r, decision |-> ev.decision, reason |-> ev.reason,
               delegated_by |-> by, parent |-> parent, approved_by |-> None]
    IN  record(t, d, add_step(r.agent_id), add_call(r, ev.decision), approvals,
               At("result", op, ids + 1, NoRequest))

(* Harness.authorize_request, from authorize, send_message and (op =       *)
(* "delegate") the first stage of delegate.                                *)
Propose(t, r, op) ==
    /\ work[t] = Idle
    /\ op = "delegate" => r.action = DELEGATE_ACTION
    /\ decide(t, r, op, None, 0)

(* Interceptor.reject_before_policy: a request that cannot be parsed, or   *)
(* that claims another identity, is recorded as denied and charged to      *)
(* nobody; of its contents only the action is kept.                        *)
RejectBeforePolicy(t, r) ==
    /\ work[t] = Idle
    /\ r.agent_id \in Unparsed
    /\ \E reason \in {"MALFORMED_REQUEST", "IDENTITY_MISMATCH"} :
         record(t, [request |-> [r EXCEPT !.arguments = NoArguments, !.contract_id = None],
                    decision |-> "deny", reason |-> reason,
                    delegated_by |-> None, parent |-> 0, approved_by |-> None],
                steps, calls, approvals, Idle)

(* Mistake: an escalation of the second stage is not put up for approval.  *)
ResultForFirst(t) ==
    LET w == work[t]
        d == decisions[w.id]
        next == IF /\ d.decision = "allow"
                   /\ d.request.action = DELEGATE_ACTION
                   /\ w.op \in {"delegate", "approve"}
                    THEN Move(w, "stage2") ELSE Idle
    IN  /\ w.pc = "result"
        /\ approvals' = IF d.decision = "escalate" /\ w.op # "stage2"
                THEN [approvals EXCEPT ![w.id] = Pristine("pending")]
                ELSE approvals
        /\ minted' = IF d.decision = "allow" /\ ~Simulate
                THEN [minted EXCEPT ![w.id] = clock + GrantTTL]
                ELSE minted
        /\ Goto(t, next)
        /\ UNCHANGED <<clock, steps, calls, used, mailbox, trail, ids, decisions,
                       ran, received, faults>>

(* Harness._result_for: an escalation becomes a pending approval, an       *)
(* allowed decision a grant (unless simulating).  A delegation that was    *)
(* allowed, or approved, goes on to its second stage.                      *)
ResultFor(t) ==
    LET w == work[t]
        d == decisions[w.id]
        next == IF /\ d.decision = "allow"
                   /\ d.request.action = DELEGATE_ACTION
                   /\ w.op \in {"delegate", "approve"}
                    THEN Move(w, "stage2") ELSE Idle
    IN  /\ w.pc = "result"
        /\ approvals' = IF d.decision = "escalate"
                THEN [approvals EXCEPT ![w.id] = Pristine("pending")]
                ELSE approvals
        /\ minted' = IF d.decision = "allow" /\ ~Simulate
                THEN [minted EXCEPT ![w.id] = clock + GrantTTL]
                ELSE minted
        /\ Goto(t, next)
        /\ UNCHANGED <<clock, steps, calls, used, mailbox, trail, ids, decisions,
                       ran, received, faults>>

(* Harness._delegated_stage: the recipient's action, as its own proposal.  *)
DelegatedStage(t) ==
    LET w == work[t]
    IN  /\ w.pc = "stage2"
        /\ decide(t, delegated_action(decisions[w.id].request), "stage2",
                  decisions[w.id].request.agent_id, w.id)

----------------------------------------------------------------------------
(* GrantSigner.verify.  A grant is known by its decision, and its HMAC is  *)
(* unforgeable: a grant that was never minted does not verify.             *)
verify(i) == minted[i] # Never

(* Mistake: the grant is not compared with the arguments.                  *)
CheckGrantAnyArguments(t, i, r) ==
    LET granted == decisions[i].request
    IN  /\ work[t] = Idle
        /\ verify(i)
        /\ granted.agent_id = r.agent_id /\ granted.action = r.action
        /\ clock < minted[i]
        /\ r.action \in Tools \cup {MESSAGE_ACTION}
        /\ Goto(t, At("claim", "none", i, r))
        /\ UNCHANGED <<clock, store, trail, history, faults>>

(* Executor._check up to the claim.                                        *)
CheckGrant(t, i, r) ==
    LET granted == decisions[i].request
    IN  /\ work[t] = Idle
        /\ verify(i)
        /\ granted.agent_id = r.agent_id /\ granted.action = r.action
        /\ granted.arguments = r.arguments
        /\ clock < minted[i]
        /\ r.action \in Tools \cup {MESSAGE_ACTION}
        /\ Goto(t, At("claim", "none", i, r))
        /\ UNCHANGED <<clock, store, trail, history, faults>>

(* StateStore.claim_grant: the first claim wins, a later one is refused.   *)
ClaimGrant(t) ==
    LET w == work[t]
    IN  /\ w.pc = "claim"
        /\ used' = used \cup {w.id}
        /\ Goto(t, IF w.id \in used THEN Idle ELSE Move(w, "tool"))
        /\ UNCHANGED <<clock, steps, calls, approvals, mailbox, trail, history, faults>>

(* The tool call of Executor.execute.  A tool that raises is an outcome;   *)
(* the harness's own tool is _deliver, which pushes a message.             *)
RunTool(t) ==
    LET w == work[t]
        to == attr[w.req.arguments].to
    IN  /\ w.pc = "tool"
        /\ ran' = [ran EXCEPT ![w.id] = Append(@, w.req)]
        /\ Goto(t, Move(w, "record"))
        /\ \/ /\ mailbox' = IF w.req.action = MESSAGE_ACTION
                                THEN [mailbox EXCEPT ![to] = @ \cup {w.id}] ELSE mailbox
              /\ UNCHANGED faults
           \/ w.req.action = MESSAGE_ACTION /\ Fault /\ UNCHANGED mailbox
        /\ UNCHANGED <<clock, steps, calls, used, approvals, trail, ids, decisions,
                       minted, received>>

(* The audit record that Executor.execute writes after the tool call.      *)
RecordExecution(t) ==
    LET w == work[t]
    IN  /\ w.pc = "record"
        /\ \/ executions' = executions \cup {w.id} /\ UNCHANGED faults
           \/ Fault /\ UNCHANGED executions
        /\ Goto(t, Idle)
        /\ UNCHANGED <<clock, store, audited, verdicts, history>>

----------------------------------------------------------------------------
(* Mistake: any principal that is not an agent may decide.                 *)
may_decide_anyone(i, who) == approvals[i].status = "pending" /\ who \notin BoundAgents

(* Harness._take_approval's conditions.                                    *)
may_decide(i, who) ==
    /\ approvals[i].status = "pending"
    /\ who \notin BoundAgents
    /\ who \in contract_of(decisions[i].request.agent_id).approvers

(* Mistake: the approval stays pending.                                    *)
take_pending(i, who, verb) == [approvals EXCEPT ![i].verb = verb, ![i].approver = who]

take(i, who, verb) ==
    [approvals EXCEPT ![i] = [status |-> "decided", verb |-> verb, approver |-> who,
                              verdict |-> approvals[i].verdict]]

(* Mistake: an approval is judged against a usage of nothing.              *)
ApproveOnSnapshot(t, i, who) ==
    LET p  == decisions[i]
        ev == evaluate(p.request, [steps |-> 0, calls |-> 0], clock)
        d  == [request |-> p.request,
               decision |-> IF ev.decision # "deny" THEN "allow" ELSE "deny",
               reason |-> "APPROVED_BY_HUMAN", delegated_by |-> p.delegated_by, parent |-> i,
               approved_by |-> IF ev.decision # "deny" THEN who ELSE None]
    IN  /\ work[t] = Idle
        /\ may_decide(i, who)
        /\ record(t, d, steps, add_call(p.request, d.decision), take(i, who, "approve"),
                  At("approval", "approve", ids + 1, NoRequest))

(* Mistake: the take is a transaction of its own.                          *)
ApproveTakesFirst(t, i, who) ==
    /\ work[t] = Idle
    /\ may_decide(i, who)
    /\ approvals' = take(i, who, "approve")
    /\ UNCHANGED <<clock, steps, calls, used, mailbox, trail, history, work, faults>>

(* Mistake: an approval pays a step of its own, before it is judged.       *)
ApproveAsProposal(t, i, who) ==
    LET p  == decisions[i]
        u  == usage_for(p.request)
        ev == evaluate(p.request, [u EXCEPT !.steps = @ + 1], clock)
        allowed == ev.decision # "deny"
        d  == [request |-> p.request,
               decision |-> IF allowed THEN "allow" ELSE "deny",
               reason |-> IF ev.decision = "escalate" THEN "APPROVED_BY_HUMAN" ELSE ev.reason,
               delegated_by |-> p.delegated_by, parent |-> i,
               approved_by |-> IF allowed THEN who ELSE None]
    IN  /\ work[t] = Idle
        /\ may_decide(i, who)
        /\ record(t, d, add_step(p.request.agent_id), add_call(p.request, d.decision),
                  take(i, who, "approve"), At("approval", "approve", ids + 1, NoRequest))

(* The transaction of Harness.approve: take, judge again against what the  *)
(* counters and the clock are now, record.  No step is charged.            *)
Approve(t, i, who) ==
    LET p  == decisions[i]
        ev == evaluate(p.request, usage_for(p.request), clock)
        allowed == ev.decision # "deny"
        d  == [request |-> p.request,
               decision |-> IF allowed THEN "allow" ELSE "deny",
               reason |-> IF ev.decision = "escalate" THEN "APPROVED_BY_HUMAN" ELSE ev.reason,
               delegated_by |-> p.delegated_by, parent |-> i,
               approved_by |-> IF allowed THEN who ELSE None]
    IN  /\ work[t] = Idle
        /\ may_decide(i, who)
        /\ record(t, d, steps, add_call(p.request, d.decision), take(i, who, "approve"),
                  At("approval", "approve", ids + 1, NoRequest))

(* The "approval" audit record, written after approve's transaction and at *)
(* the end of reject.                                                      *)
RecordApproval(t) ==
    LET w == work[t]
    IN  /\ w.pc \in {"approval", "rejected"}
        /\ \/ /\ verdicts' = verdicts \cup {w.id}
              /\ Goto(t, IF w.pc = "approval" THEN Move(w, "annotate") ELSE Idle)
              /\ UNCHANGED faults
           \/ Fault /\ Goto(t, Idle) /\ UNCHANGED verdicts
        /\ UNCHANGED <<clock, store, audited, executions, history>>

(* Mistake: the verdict is written onto the record as it was when pending. *)
AnnotateStale(t) ==
    LET w == work[t]
    IN  /\ w.pc = "annotate"
        /\ approvals' = [approvals EXCEPT ![decisions[w.id].parent] =
                [Absent EXCEPT !.status = "pending", !.verdict = "granted"]]
        /\ Goto(t, Move(w, IF w.op = "reject" THEN "rejected" ELSE "result"))
        /\ UNCHANGED <<clock, steps, calls, used, mailbox, trail, history, faults>>

(* Harness.annotate_approval with the verdict, in a transaction of its own.*)
Annotate(t) ==
    LET w == work[t]
        d == decisions[w.id]
        verdict == IF w.op = "reject" THEN "rejected"
                   ELSE IF d.decision = "allow" THEN "granted" ELSE "superseded"
    IN  /\ w.pc = "annotate"
        /\ approvals' = [approvals EXCEPT ![d.parent].verdict = verdict]
        /\ Goto(t, Move(w, IF w.op = "reject" THEN "rejected" ELSE "result"))
        /\ UNCHANGED <<clock, steps, calls, used, mailbox, trail, history, faults>>

(* Harness.reject: the take is a transaction of its own ...                *)
RejectTake(t, i, who) ==
    /\ work[t] = Idle
    /\ may_decide(i, who)
    /\ approvals' = take(i, who, "reject")
    /\ Goto(t, At("reject", "reject", i, NoRequest))
    /\ UNCHANGED <<clock, steps, calls, used, mailbox, trail, history, faults>>

(* ... and the record of the denial another.                               *)
RejectRecord(t) ==
    LET w == work[t]
        p == decisions[w.id]
    IN  /\ w.pc = "reject"
        /\ record(t, [request |-> p.request, decision |-> "deny",
                      reason |-> "APPROVAL_REJECTED", delegated_by |-> p.delegated_by,
                      parent |-> w.id, approved_by |-> None],
                  steps, calls, approvals,
                  At("annotate", "reject", ids + 1, NoRequest))

----------------------------------------------------------------------------
(* Mistake: messages are handed out and kept.                              *)
ReceiveKeeping(t, a) ==
    /\ work[t] = Idle
    /\ mailbox[a] # {}
    /\ received' = [received EXCEPT ![a] = @ \cup mailbox[a]]
    /\ UNCHANGED <<clock, store, trail, ids, decisions, minted, work, ran, faults>>

(* Harness.receive: drain_messages hands out and forgets.                  *)
Receive(t, a) ==
    /\ work[t] = Idle
    /\ mailbox[a] # {}
    /\ received' = [received EXCEPT ![a] = @ \cup mailbox[a]]
    /\ mailbox' = [mailbox EXCEPT ![a] = {}]
    /\ UNCHANGED <<clock, steps, calls, used, approvals, trail, ids, decisions,
                   minted, work, ran, faults>>

(* A replica dies: its threads are gone, the store and the trail stay.     *)
Crash(h) ==
    /\ Durable
    /\ \E t \in Threads : host[t] = h /\ work[t] # Idle
    /\ Fault
    /\ work' = [t \in Threads |-> IF host[t] = h THEN Idle ELSE work[t]]
    /\ UNCHANGED <<clock, store, trail, history>>

(* Mistake: the grace is added to the wrong side.                          *)
PruneEarly ==
    /\ Durable
    /\ used' = {i \in used : ~(minted[i] < clock + PruneGrace)}
    /\ used' # used
    /\ UNCHANGED <<clock, steps, calls, approvals, mailbox, trail, history, work, faults>>

(* prune, which the in-memory store does not have: forget used grants that *)
(* expired long enough ago.                                                *)
Prune ==
    /\ Durable
    /\ used' = {i \in used : ~(minted[i] + PruneGrace < clock)}
    /\ used' # used
    /\ UNCHANGED <<clock, steps, calls, approvals, mailbox, trail, history, work, faults>>

(* Assumed of the environment: no thread waits between the expiry check    *)
(* and the claim of a grant for as long as prune's grace (an hour).        *)
ClaimsArePrompt ==
    \A t \in Threads :
        work[t].pc = "claim" => clock + 1 <= minted[work[t].id] + PruneGrace

Tick ==
    /\ clock < MaxTime
    /\ ClaimsArePrompt
    /\ clock' = clock + 1
    /\ UNCHANGED <<store, trail, history, work, faults>>

(* A thread may begin any operation when it has none.  The HTTP handlers   *)
(* (handle_action, handle_message, handle_delegation, handle_approval) and *)
(* the library's callers perform these in particular orders.               *)
Next ==
    \/ \E t \in Threads :
         \/ \E r \in Proposals :
              \/ \E op \in {"authorize", "delegate"} : Propose(t, r, op)
              \/ RejectBeforePolicy(t, r)
              \/ \E i \in Ids : CheckGrant(t, i, r)
         \/ ResultFor(t) \/ DelegatedStage(t)
         \/ ClaimGrant(t) \/ RunTool(t) \/ RecordExecution(t)
         \/ \E i \in Ids, who \in Principals : Approve(t, i, who) \/ RejectTake(t, i, who)
         \/ RecordApproval(t) \/ Annotate(t) \/ RejectRecord(t)
         \/ \E a \in Agents : Receive(t, a)
    \/ \E h \in {host[t] : t \in Threads} : Crash(h)
    \/ Prune
    \/ Tick

Spec == Init /\ [][Next]_vars

----------------------------------------------------------------------------
(* Properties                                                              *)

(* Every variable keeps its shape: counters are numbers, an approval is    *)
(* absent, pending or decided, and a thread past its first step holds a    *)
(* decision that record() returned to it.                                  *)
TypeOK ==
    /\ clock \in Nat /\ faults \in Nat
    /\ steps \in [ContractIds -> Nat]
    /\ calls \in [Keys -> Nat]
    /\ used \subseteq Ids
    /\ approvals \in [Ids -> Approval]
    /\ mailbox \in [Agents -> SUBSET Ids]
    /\ received \in [Agents -> SUBSET Ids]
    /\ audited \in [Ids -> Decision \cup {NoDecision}]
    /\ decisions \in [Ids -> Decision \cup {NoDecision}]
    /\ executions \subseteq Ids
    /\ verdicts \subseteq Ids
    /\ ids \in 0..MaxIds
    /\ minted \in [Ids -> Nat \cup {Never}]
    /\ ran \in [Ids -> Seq(Request)]
    /\ work \in [Threads -> Frame]

Executed(i) == ran[i] # <<>>

(* Two requests a grant does not tell apart (executor._check).             *)
SameCall(r, s) ==
    r.agent_id = s.agent_id /\ r.action = s.action /\ r.arguments = s.arguments

(* A grant runs its tool at most once, however many threads and replicas   *)
(* present it, replay it, or present it around its expiry, and although    *)
(* prune forgets old claims (claim_grant, executor._check).                *)
AtMostOnce == \A i \in Ids : Len(ran[i]) <= 1

(* Whatever a tool was called with is what an audited "allow" decision     *)
(* says: same agent, same action, same arguments, granted by that agent's  *)
(* own contract (executor.execute after interceptor.record).               *)
ExecutedAsAudited ==
    \A i \in Ids : \A k \in DOMAIN ran[i] :
        /\ audited[i] # NoDecision
        /\ audited[i].decision = "allow"
        /\ SameCall(ran[i][k], audited[i].request)
        /\ ran[i][k].agent_id \in BoundAgents
        /\ ran[i][k].action \in DOMAIN capabilities_for(ran[i][k].agent_id)
        /\ capabilities_for(ran[i][k].agent_id)[ran[i][k].action].effect # "deny"

(* An action whose capability says "escalate" runs only after a principal  *)
(* that the agent's contract designates has approved that very request     *)
(* (Harness.approve, _take_approval).                                      *)
EscalatedNeedsHuman ==
    \A i \in Ids : \A k \in DOMAIN ran[i] :
        capabilities_for(ran[i][k].agent_id)[ran[i][k].action].effect = "escalate" =>
            LET p == audited[i].parent
            IN  /\ audited[i].approved_by \in contract_of(ran[i][k].agent_id).approvers
                /\ p \in Ids
                /\ audited[p].decision = "escalate"
                /\ SameCall(audited[p].request, ran[i][k])
                /\ approvals[p].verb = "approve"
                /\ approvals[p].approver = audited[i].approved_by

(* Decisions under which agent a's action x was executed.                  *)
ExecutedCalls(a, x) ==
    {i \in Ids : \E k \in DOMAIN ran[i] : ran[i][k].agent_id = a /\ ran[i][k].action = x}

(* Decisions under which anything was executed for a contract.             *)
ExecutedUnder(c) ==
    {i \in Ids : \E k \in DOMAIN ran[i] : ran[i][k].agent_id \in DOMAIN contracts[c].agents}

(* No interleaving of proposals, approvals, replays and failures executes  *)
(* an action more often than its capability's max_calls, or more under a   *)
(* contract than its max_steps, approved executions included: each goes    *)
(* back to a proposal that paid a step (Interceptor.decide, approve).      *)
WithinBudget ==
    /\ \A a \in BoundAgents : \A x \in DOMAIN capabilities_for(a) :
          "max_calls" \in DOMAIN capabilities_for(a)[x].constraints =>
              Cardinality(ExecutedCalls(a, x)) <= capabilities_for(a)[x].constraints.max_calls
    /\ \A c \in ContractIds : Cardinality(ExecutedUnder(c)) <= contracts[c].max_steps

(* An escalation is decided once: whichever of several approvers, on       *)
(* whatever replicas, approve and reject it at the same time, at most one  *)
(* decision follows from it.                                               *)
DecidedOnce ==
    \A i, j \in Ids :
        /\ decisions[i] # NoDecision /\ decisions[j] # NoDecision
        /\ decisions[i].parent \in Ids /\ decisions[i].parent = decisions[j].parent
        /\ decisions[decisions[i].parent].decision = "escalate"
        => i = j

(* A decision on somebody's behalf goes back to an allowed agent.delegate  *)
(* of that somebody, whose capability names both the recipient and the     *)
(* action; and what is allowed is in the recipient's own contract.         *)
DelegationTraced ==
    \A i \in Ids :
        decisions[i] # NoDecision /\ decisions[i].delegated_by # None =>
            LET d == decisions[i]
            IN  /\ \E p \in Ids :
                     /\ decisions[p] # NoDecision
                     /\ decisions[p].decision = "allow"
                     /\ decisions[p].request.agent_id = d.delegated_by
                     /\ delegated_action(decisions[p].request) = d.request
                     /\ LET c == capabilities_for(d.delegated_by)[DELEGATE_ACTION].constraints
                        IN  /\ d.request.agent_id \in c.allowed_targets
                            /\ d.request.action \in c.allowed_actions
                /\ d.decision = "allow" =>
                     d.request.action \in DOMAIN capabilities_for(d.request.agent_id)

(* A message is in its recipient's mailbox or has been received, never     *)
(* both, and only after its sender's executed agent.message to it.         *)
MessagesAuthorized ==
    \A a \in Agents :
        /\ mailbox[a] \cap received[a] = {}
        /\ \A i \in mailbox[a] \cup received[a] :
             /\ Executed(i)
             /\ attr[audited[i].request.arguments].to = a
             /\ a \in capabilities_for(audited[i].request.agent_id)[MESSAGE_ACTION]
                        .constraints.allowed_targets

(* Taking an approval is not lost on failure: where an approval was taken  *)
(* to approve it, the decision that follows from it has been recorded      *)
(* (the transaction of Harness.approve).                                   *)
TakeNotLost ==
    \A i \in Ids : approvals[i].verb = "approve" =>
        \E j \in Ids : decisions[j] # NoDecision /\ decisions[j].parent = i

Of(c, i) == decisions[i] # NoDecision /\ decisions[i].request.agent_id \in DOMAIN contracts[c].agents

(* An approval is superseded for want of budget only if the contract had   *)
(* decisions of its own in between, or the escalation itself took the      *)
(* contract's last step: approving costs nothing that its escalation did   *)
(* not already pay (Harness.approve).                                      *)
SupersededOnlyBySpending ==
    \A p, j \in Ids :
        /\ approvals[p].verb = "approve"
        /\ decisions[j] # NoDecision
        /\ decisions[j].parent = p
        /\ decisions[j].reason = "BUDGET_EXHAUSTED"
        => LET c == bindings[decisions[p].request.agent_id]
           IN  \/ \E k \in Ids : p < k /\ k < j /\ Of(c, k)
               \/ Cardinality({k \in 1..p : Of(c, k)}) >= contracts[c].max_steps

(* Escalations nobody can approve or reject: the decision is recorded, its *)
(* approval is not, and no thread is about to write it.                    *)
Stranded ==
    {i \in Ids :
        /\ decisions[i] # NoDecision
        /\ decisions[i].decision = "escalate"
        /\ approvals[i].status = "absent"
        /\ \A t \in Threads : ~(work[t].pc = "result" /\ work[t].id = i)}

(* Only a failure strands an escalation, and with at most n threads on a   *)
(* replica at most n of them each (_result_for after decide's commit).     *)
EscalationsHeld ==
    \A n \in 0..Cardinality(Threads) :
        (\A t \in Threads : Cardinality({u \in Threads : host[u] = host[t]}) <= n)
            => Cardinality(Stranded) <= n * faults

(* A decided escalation stays decided: who decided it, and how, never      *)
(* changes, and a verdict once written is not written over.                *)
DecisionsAreFinal ==
    [][\A i \in Ids : approvals[i].status = "decided" =>
          /\ approvals'[i].status = "decided"
          /\ approvals'[i].verb = approvals[i].verb
          /\ approvals'[i].approver = approvals[i].approver
          /\ approvals[i].verdict # "none" => approvals'[i].verdict = approvals[i].verdict]_vars
============================================================================
