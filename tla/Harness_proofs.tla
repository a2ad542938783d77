--------------------------- MODULE Harness_proofs ---------------------------
(***************************************************************************)
(* What holds of the harness for any contracts, agents, threads, replicas, *)
(* requests, time limits and number of failures.  The inductive invariant  *)
(* comes in layers: each layer's proof uses the ones before it.            *)
(* First the facts about the policy engine, for every vocabulary, request, *)
(* usage and time; then the invariant; then on whose authority it acts; at *)
(* the end what the policy decides as a whole, and what is shown of it.    *)
(***************************************************************************)
EXTENDS Harness, PolicyWalk, FiniteSetTheorems, SequenceTheorems, TLAPS

----------------------------------------------------------------------------
(* The policy engine                                                       *)

Evaluation == [decision: Effects, reason: ReasonCode]

(* check_constraints gives a reason code or None.                          *)
LEMMA ConstraintReasons ==
    ASSUME NEW c, NEW r, NEW n
    PROVE  check_constraints(c, r, n) \in ReasonCode \cup {None}
BY Zenon DEF check_constraints, ReasonCode

(* evaluate gives a verdict with a reason code.                            *)
LEMMA EvaluateType ==
    ASSUME NEW r, NEW u, NEW now
    PROVE  evaluate(r, u, now) \in Evaluation
<1>1. ASSUME NEW x \in ReasonCode PROVE deny(x) \in Evaluation
  BY <1>1 DEF deny, Evaluation, Effects
<1>2. ASSUME NEW cap PROVE evaluate_capability(r, cap, u, now) \in Evaluation
  <2>1. check_constraints(cap.constraints, r, u.calls) # None
            => deny(check_constraints(cap.constraints, r, u.calls)) \in Evaluation
    BY <1>1, ConstraintReasons
  <2>2. deny("EXPLICITLY_DENIED") \in Evaluation /\ deny("CAPABILITY_EXPIRED") \in Evaluation
        /\ deny("TARGET_NOT_ALLOWED") \in Evaluation
    BY <1>1 DEF ReasonCode
  <2>3. /\ [decision |-> "escalate", reason |-> "REQUIRES_APPROVAL"] \in Evaluation
        /\ [decision |-> "allow", reason |-> "CAPABILITY_GRANTED"] \in Evaluation
    BY DEF Evaluation, Effects, ReasonCode
  <2> QED BY <2>1, <2>2, <2>3, Zenon DEF evaluate_capability
<1>3. /\ deny("MALFORMED_REQUEST") \in Evaluation /\ deny("UNKNOWN_AGENT") \in Evaluation
      /\ deny("CONTRACT_MISMATCH") \in Evaluation /\ deny("CONTRACT_EXPIRED") \in Evaluation
      /\ deny("BUDGET_EXHAUSTED") \in Evaluation /\ deny("RESERVED_ACTION") \in Evaluation
      /\ deny("TOOL_NOT_ALLOWED") \in Evaluation
  BY <1>1 DEF ReasonCode
<1> QED BY <1>2, <1>3, Zenon DEF evaluate

(* What is not denied is bound, within its contract's steps and within its *)
(* capability's calls, has a recipient and a delegated action that the     *)
(* capability names, and has the effect of that capability.                *)
LEMMA GrantedMeans ==
    ASSUME NEW r, NEW u, NEW now, evaluate(r, u, now).decision # "deny"
    PROVE  /\ ~problems(r)
           /\ r.agent_id \in BoundAgents
           /\ ~(u.steps >= contract_of(r.agent_id).max_steps)
           /\ r.action \in DOMAIN capabilities_for(r.agent_id)
           /\ LET cap == capabilities_for(r.agent_id)[r.action]
              IN  /\ cap.effect # "deny"
                  /\ evaluate(r, u, now).decision = "escalate" <=> cap.effect = "escalate"
                  /\ ~("max_calls" \in DOMAIN cap.constraints
                         /\ u.calls >= cap.constraints.max_calls)
                  /\ "allowed_targets" \in DOMAIN cap.constraints =>
                         attr[r.arguments].to \in cap.constraints.allowed_targets
                  /\ "allowed_actions" \in DOMAIN cap.constraints =>
                         attr[r.arguments].action \in cap.constraints.allowed_actions
<1>0. \A x : deny(x).decision = "deny"
  BY DEF deny
<1> DEFINE cap == capabilities_for(r.agent_id)[r.action]
<1>1. /\ ~problems(r)
      /\ r.agent_id \in BoundAgents
      /\ ~(u.steps >= contract_of(r.agent_id).max_steps)
      /\ r.action \in DOMAIN capabilities_for(r.agent_id)
      /\ evaluate(r, u, now) = evaluate_capability(r, cap, u, now)
  <2>1. ~problems(r)
    BY <1>0, Zenon DEF evaluate
  <2>2. r.agent_id \in BoundAgents
    BY <1>0, <2>1, Zenon DEF evaluate
  <2>3. /\ r.contract_id \in {None, bindings[r.agent_id]}
        /\ ~expired(contract_of(r.agent_id).expires_at, now)
    BY <1>0, <2>1, <2>2, Zenon DEF evaluate
  <2>4. ~(u.steps >= contract_of(r.agent_id).max_steps)
    BY <1>0, <2>1, <2>2, <2>3, Zenon DEF evaluate
  <2>5. r.action \notin Reserved /\ r.action \in DOMAIN capabilities_for(r.agent_id)
    BY <1>0, <2>1, <2>2, <2>3, <2>4, Zenon DEF evaluate
  <2> QED BY <2>1, <2>2, <2>3, <2>4, <2>5, Zenon DEF evaluate
<1>2. evaluate_capability(r, cap, u, now).decision # "deny"
  BY <1>1
<1> HIDE DEF cap
<1>3. /\ cap.effect # "deny"
      /\ check_constraints(cap.constraints, r, u.calls) = None
      /\ evaluate_capability(r, cap, u, now)
           = IF cap.effect = "escalate"
               THEN [decision |-> "escalate", reason |-> "REQUIRES_APPROVAL"]
               ELSE [decision |-> "allow", reason |-> "CAPABILITY_GRANTED"]
  <2>1. cap.effect # "deny"
    BY <1>0, <1>2, Zenon DEF evaluate_capability
  <2>2. ~expired(cap.expires_at, now)
    BY <1>0, <1>2, <2>1, Zenon DEF evaluate_capability
  <2>3. check_constraints(cap.constraints, r, u.calls) = None
    BY <1>0, <1>2, <2>1, <2>2, Zenon DEF evaluate_capability
  <2>4. ~(/\ r.action \in {MESSAGE_ACTION, DELEGATE_ACTION}
          /\ attr[r.arguments].to = r.agent_id \/ attr[r.arguments].to \notin BoundAgents)
    BY <1>0, <1>2, <2>1, <2>2, <2>3, Zenon DEF evaluate_capability
  <2> QED BY <2>1, <2>2, <2>3, <2>4, Zenon DEF evaluate_capability
<1>4. ~("max_calls" \in DOMAIN cap.constraints /\ u.calls >= cap.constraints.max_calls)
  <2>1. "BUDGET_EXHAUSTED" # None
    BY NoneIsNoReason DEF ReasonCode
  <2> QED BY <1>3, <2>1, Zenon DEF check_constraints
<1>5. evaluate_capability(r, cap, u, now).decision = "escalate" <=> cap.effect = "escalate"
  BY <1>3
<1>6. /\ "allowed_targets" \in DOMAIN cap.constraints =>
           attr[r.arguments].to \in cap.constraints.allowed_targets
      /\ "allowed_actions" \in DOMAIN cap.constraints =>
           attr[r.arguments].action \in cap.constraints.allowed_actions
  <2>1. /\ "BUDGET_EXHAUSTED" # None /\ "ARGUMENT_NOT_ALLOWED" # None
        /\ "ARGUMENT_MISSING" # None /\ "DOMAIN_NOT_ALLOWED" # None
        /\ "TARGET_NOT_ALLOWED" # None /\ "DELEGATED_ACTION_NOT_ALLOWED" # None
    BY NoneIsNoReason DEF ReasonCode
  <2> QED BY <1>3, <2>1, Zenon DEF check_constraints
<1> QED BY <1>1, <1>3, <1>4, <1>5, <1>6 DEF cap

(* What is live later was live earlier.                                    *)
LEMMA ExpiryLasts ==
    ASSUME NEW at \in Nat \cup {Never}, NEW now \in Nat, NEW later \in Nat,
           now <= later, expired(at, now)
    PROVE  expired(at, later)
BY Vocabulary DEF expired

(* A bound agent's contract is a loaded one, and declares the agent.       *)
LEMMA BoundContract ==
    ASSUME NEW a \in BoundAgents
    PROVE  /\ bindings[a] \in ContractIds
           /\ a \in DOMAIN contract_of(a).agents
           /\ ValidContract(contract_of(a))
<1>1. PICK c \in ContractIds : a \in DOMAIN contracts[c].agents
  BY DEF BoundAgents
<1>2. bindings[a] = CHOOSE k \in ContractIds : a \in DOMAIN contracts[k].agents
  BY DEF bindings
<1>3. bindings[a] \in ContractIds /\ a \in DOMAIN contracts[bindings[a]].agents
  BY <1>1, <1>2, Zenon
<1> QED BY <1>3, ContractsLoaded DEF contract_of

(* "BUDGET_EXHAUSTED" means what it says: the contract's steps are spent,  *)
(* or the action's calls.                                                  *)
LEMMA BudgetReason ==
    ASSUME NEW r, NEW u, NEW now, evaluate(r, u, now).reason = "BUDGET_EXHAUSTED"
    PROVE  /\ ~problems(r) /\ r.agent_id \in BoundAgents
           /\ \/ u.steps >= contract_of(r.agent_id).max_steps
              \/ LET cap == capabilities_for(r.agent_id)[r.action]
                 IN  /\ "max_calls" \in DOMAIN cap.constraints
                     /\ u.calls >= cap.constraints.max_calls
<1> DEFINE cap == capabilities_for(r.agent_id)[r.action]
           violation == check_constraints(cap.constraints, r, u.calls)
<1>1. \A x : deny(x).reason = x
  BY DEF deny
<1>2. violation = "BUDGET_EXHAUSTED" =>
        "max_calls" \in DOMAIN cap.constraints /\ u.calls >= cap.constraints.max_calls
  <2>1. None # "BUDGET_EXHAUSTED"
    BY NoneIsNoReason DEF ReasonCode
  <2> QED BY <2>1, Zenon DEF check_constraints
<1>3. evaluate_capability(r, cap, u, now).reason = "BUDGET_EXHAUSTED"
        => violation = "BUDGET_EXHAUSTED"
  <2>1. /\ [decision |-> "escalate", reason |-> "REQUIRES_APPROVAL"].reason = "REQUIRES_APPROVAL"
        /\ [decision |-> "allow", reason |-> "CAPABILITY_GRANTED"].reason = "CAPABILITY_GRANTED"
    OBVIOUS
  <2> HIDE DEF violation
  <2>2. \/ evaluate_capability(r, cap, u, now) \in
             {deny("EXPLICITLY_DENIED"), deny("CAPABILITY_EXPIRED"), deny(violation),
              deny("TARGET_NOT_ALLOWED"),
              [decision |-> "escalate", reason |-> "REQUIRES_APPROVAL"],
              [decision |-> "allow", reason |-> "CAPABILITY_GRANTED"]}
    BY Zenon DEF evaluate_capability, violation
  <2> QED BY <1>1, <2>1, <2>2
<1>4. \/ /\ ~problems(r) /\ r.agent_id \in BoundAgents
         /\ u.steps >= contract_of(r.agent_id).max_steps
      \/ /\ ~problems(r) /\ r.agent_id \in BoundAgents
         /\ evaluate(r, u, now) = evaluate_capability(r, cap, u, now)
      \/ evaluate(r, u, now) \in
           {deny("MALFORMED_REQUEST"), deny("UNKNOWN_AGENT"), deny("CONTRACT_MISMATCH"),
            deny("CONTRACT_EXPIRED"), deny("RESERVED_ACTION"), deny("TOOL_NOT_ALLOWED")}
  BY Zenon DEF evaluate
<1> HIDE DEF cap, violation
<1>5. evaluate(r, u, now).reason = "BUDGET_EXHAUSTED"
  OBVIOUS
<1>6. \/ /\ ~problems(r) /\ r.agent_id \in BoundAgents
         /\ u.steps >= contract_of(r.agent_id).max_steps
      \/ /\ ~problems(r) /\ r.agent_id \in BoundAgents
         /\ evaluate(r, u, now) = evaluate_capability(r, cap, u, now)
  BY <1>1, <1>4, <1>5
<1> QED BY <1>2, <1>3, <1>5, <1>6, Zenon DEF cap

(* A denial lasts: with as much of every budget spent, or more, and no     *)
(* earlier in time, a request that was denied is denied again.  So what    *)
(* Harness.approve judges anew has no more authority than the escalation.  *)
THEOREM DenialsLast ==
    ASSUME NEW r \in Request,
           NEW u \in [steps: Nat, calls: Nat], NEW v \in [steps: Nat, calls: Nat],
           u.steps <= v.steps, u.calls <= v.calls,
           NEW now \in Nat, NEW later \in Nat, now <= later,
           evaluate(r, u, now).decision = "deny"
    PROVE  evaluate(r, v, later).decision = "deny"
<1> DEFINE cap == capabilities_for(r.agent_id)[r.action]
           c   == contract_of(r.agent_id)
<1> SUFFICES ASSUME evaluate(r, v, later).decision # "deny"
             PROVE  evaluate(r, u, now).decision # "deny"
  OBVIOUS
<1>0. \A x : deny(x).decision = "deny"
  BY DEF deny
<1>1. /\ ~problems(r)
      /\ r.agent_id \in BoundAgents
      /\ ~(v.steps >= c.max_steps)
      /\ r.action \in DOMAIN capabilities_for(r.agent_id)
      /\ ~("max_calls" \in DOMAIN cap.constraints /\ v.calls >= cap.constraints.max_calls)
  BY GrantedMeans
<1>2. /\ r.contract_id \in {None, bindings[r.agent_id]}
      /\ ~expired(c.expires_at, later)
  BY <1>0, <1>1, Zenon DEF evaluate
<1>3. r.action \notin Reserved /\ evaluate(r, v, later) = evaluate_capability(r, cap, v, later)
  BY <1>0, <1>1, <1>2, Zenon DEF evaluate
<1>4. ValidContract(c) /\ r.agent_id \in DOMAIN c.agents
  BY <1>1, BoundContract
<1>5. ValidCapability(r.action, cap)
  BY <1>1, <1>4 DEF ValidContract, capabilities_for
<1>6. ~expired(c.expires_at, now) /\ ~(u.steps >= c.max_steps)
  <2>1. c.expires_at \in Nat \cup {Never} /\ c.max_steps \in Nat
    BY <1>4 DEF ValidContract
  <2>2. ~expired(c.expires_at, now)
    BY <1>2, <2>1, ExpiryLasts
  <2>3. ~(u.steps >= c.max_steps)
    <3> HIDE DEF c
    <3> QED BY <1>1, <2>1
  <2> QED BY <2>2, <2>3
<1>7. evaluate(r, u, now) = evaluate_capability(r, cap, u, now)
  BY <1>1, <1>2, <1>3, <1>6, Zenon DEF evaluate
<1>8. /\ cap.effect # "deny"
      /\ ~expired(cap.expires_at, later)
  BY <1>0, <1>3, Zenon DEF evaluate_capability
<1>9. check_constraints(cap.constraints, r, v.calls) = None
  BY <1>0, <1>3, <1>8, Zenon DEF evaluate_capability
<1>10. ~(/\ r.action \in {MESSAGE_ACTION, DELEGATE_ACTION}
         /\ attr[r.arguments].to = r.agent_id \/ attr[r.arguments].to \notin BoundAgents)
  BY <1>0, <1>3, <1>8, <1>9, Zenon DEF evaluate_capability
<1>11. ~expired(cap.expires_at, now)
  BY <1>5, <1>8, ExpiryLasts DEF ValidCapability
<1>12. ~("max_calls" \in DOMAIN cap.constraints /\ u.calls >= cap.constraints.max_calls)
  BY <1>1, <1>5 DEF ValidCapability, ValidConstraints
<1>13. check_constraints(cap.constraints, r, u.calls) = None
  BY <1>1, <1>9, <1>12, Zenon DEF check_constraints
<1>14. evaluate_capability(r, cap, u, now)
         = IF cap.effect = "escalate"
             THEN [decision |-> "escalate", reason |-> "REQUIRES_APPROVAL"]
             ELSE [decision |-> "allow", reason |-> "CAPABILITY_GRANTED"]
  BY <1>8, <1>10, <1>11, <1>13, Zenon DEF evaluate_capability
<1> QED BY <1>7, <1>14

----------------------------------------------------------------------------
(* The inductive invariant                                                 *)

(* Ids are handed out in order, and a thread past its first step holds a   *)
(* decision that record() returned.  Approvals and grants are only for     *)
(* such decisions.                                                         *)
Holding ==
    /\ \A i \in Ids : i > ids => decisions[i] = NoDecision
    /\ \A i \in Ids : minted[i] # Never \/ approvals[i].status # "absent"
                        => decisions[i] # NoDecision
    /\ \A t \in Threads :
         IF work[t].pc = "idle"
            THEN work[t] = Idle
            ELSE work[t].id \in Ids /\ decisions[work[t].id] # NoDecision
    /\ \A t \in Threads :
         work[t].pc \in {"claim", "tool", "record"} => work[t].req \in Request

(* A thread between the commit of its decision and _result_for.            *)
Early(t) == work[t].pc \in {"result", "approval", "annotate"}

(* Until then nobody else knows of the decision.                           *)
Private ==
    /\ \A t \in Threads : Early(t) =>
         minted[work[t].id] = Never /\ approvals[work[t].id].status = "absent"
    /\ \A t, u \in Threads :
         Early(t) /\ Early(u) /\ work[t].id = work[u].id => t = u

(* The grant for decision i has been claimed, or is too old to be claimed. *)
Claimed(i) == minted[i] # Never /\ (i \in used \/ minted[i] + PruneGrace < clock)

(* Why a grant is good for one tool call.                                  *)
OneClaim ==
    /\ \A t \in Threads : work[t].pc = "claim" =>
         minted[work[t].id] # Never /\ clock <= minted[work[t].id] + PruneGrace
    /\ \A t \in Threads : work[t].pc = "tool" =>
         ran[work[t].id] = <<>> /\ Claimed(work[t].id)
    /\ \A t, u \in Threads :
         work[t].pc = "tool" /\ work[u].pc = "tool" /\ work[t].id = work[u].id => t = u
    /\ \A i \in Ids : ran[i] # <<>> => Claimed(i)
    /\ \A i \in used : minted[i] # Never

(* Why an escalation is decided once.                                      *)
OneVerdict ==
    /\ \A i \in Ids : decisions[i] # NoDecision /\ decisions[i].parent # 0 =>
         decisions[decisions[i].parent] # NoDecision
    /\ \A i \in Ids : approvals[i].status # "absent" => decisions[i].decision = "escalate"
    /\ \A i \in Ids :
         /\ decisions[i] # NoDecision /\ decisions[i].parent # 0
         /\ decisions[decisions[i].parent].decision = "escalate"
         => /\ approvals[decisions[i].parent].status = "decided"
            /\ \A t \in Threads : ~(work[t].pc = "reject" /\ work[t].id = decisions[i].parent)
    /\ \A t \in Threads : work[t].pc = "reject" => approvals[work[t].id].status = "decided"
    /\ \A t, u \in Threads :
         work[t].pc = "reject" /\ work[u].pc = "reject" /\ work[t].id = work[u].id => t = u
    /\ \A t \in Threads : work[t].pc = "stage2" => decisions[work[t].id].decision = "allow"

----------------------------------------------------------------------------
(* The typed shape of the five actions that end in record(): the decision  *)
(* d, what it follows from, and what the thread does next.                 *)
RecordStep(t, d, s1, c1, a1, f) ==
    /\ record(t, d, s1, c1, a1, f)
    /\ f = Idle \/ (f.pc \in {"result", "approval", "annotate"} /\ f.id = ids + 1)
    /\ d.parent # 0 => decisions[d.parent] # NoDecision
    /\ \/ a1 = approvals /\ work[t] = Idle /\ d.parent = 0
       \/ a1 = approvals /\ work[t].pc \in {"stage2", "reject"} /\ d.parent = work[t].id
       \/ /\ work[t] = Idle
          /\ \E who \in Principals :
               may_decide(d.parent, who) /\ a1 = take(d.parent, who, "approve")

Records(t) ==
    \E d \in Decision, s1 \in [ContractIds -> Nat], c1 \in [Keys -> Nat],
       a1 \in [Ids -> Approval], f \in Frame : RecordStep(t, d, s1, c1, a1, f)

(* Frames are frames.                                                      *)
LEMMA AtFrame ==
    ASSUME NEW pc \in Steps,
           NEW op \in {"none", "authorize", "delegate", "stage2", "approve", "reject"},
           NEW i \in Ids \cup {0}, NEW r \in Request \cup {NoRequest}
    PROVE  /\ At(pc, op, i, r) \in Frame
           /\ At(pc, op, i, r).pc = pc /\ At(pc, op, i, r).op = op
           /\ At(pc, op, i, r).id = i /\ At(pc, op, i, r).req = r
BY DEF At, Frame

(* A thread between two requests is at a frame too.                        *)
LEMMA IdleFrame == Idle \in Frame /\ Idle.pc = "idle" /\ Idle.id = 0
BY AtFrame DEF Idle, Steps

(* A thread that goes on keeps its decision and its request.               *)
LEMMA Moves ==
    ASSUME NEW w \in Frame, NEW p \in Steps
    PROVE  /\ Move(w, p) \in Frame
           /\ Move(w, p).pc = p /\ Move(w, p).op = w.op
           /\ Move(w, p).id = w.id /\ Move(w, p).req = w.req
BY DEF Move, Frame

(* Counting one more of anything leaves a family of numbers.               *)
LEMMA Bump ==
    ASSUME NEW S, NEW f \in [S -> Nat], NEW k
    PROVE  [f EXCEPT ![k] = @ + 1] \in [S -> Nat]
<1>1. CASE k \in S
  BY <1>1
<1>2. CASE k \notin S
  BY <1>2
<1> QED BY <1>1, <1>2

(* What the store's counters become is a family of numbers again.          *)
LEMMA CountersType ==
    ASSUME TypeOK, NEW a, NEW r, NEW e
    PROVE  add_step(a) \in [ContractIds -> Nat] /\ add_call(r, e) \in [Keys -> Nat]
<1>1. steps \in [ContractIds -> Nat] /\ calls \in [Keys -> Nat]
  BY DEF TypeOK
<1>2. [steps EXCEPT ![bindings[a]] = @ + 1] \in [ContractIds -> Nat]
  BY <1>1, Bump
<1>3. [calls EXCEPT ![<<r.agent_id, r.action>>] = @ + 1] \in [Keys -> Nat]
  BY <1>1, Bump
<1> QED BY <1>1, <1>2, <1>3, Zenon DEF add_step, add_call

(* Taking an approval gives approvals again.                               *)
LEMMA TakeType ==
    ASSUME TypeOK, NEW i \in Ids, NEW who \in Principals, NEW verb \in {"approve", "reject"}
    PROVE  take(i, who, verb) \in [Ids -> Approval]
BY DEF TypeOK, take, Approval

(* A delegation asks its recipient for a request.                          *)
LEMMA DelegatedType ==
    ASSUME NEW r \in Request
    PROVE  delegated_action(r) \in Request
BY Vocabulary DEF delegated_action, Request

(* Interceptor.decide, in its typed shape.                                 *)
LEMMA DecideRecords ==
    ASSUME TypeOK, NEW t \in Threads, NEW r \in Request,
           NEW op \in {"authorize", "delegate", "stage2"},
           NEW by \in Agents \cup {None}, NEW parent \in Ids \cup {0},
           decide(t, r, op, by, parent),
           parent # 0 => decisions[parent] # NoDecision,
           \/ work[t] = Idle /\ parent = 0
           \/ work[t].pc = "stage2" /\ parent = work[t].id
    PROVE  Records(t)
<1> DEFINE ev == evaluate(r, usage_for(r), clock)
           d  == [request |-> r, decision |-> ev.decision, reason |-> ev.reason,
                  delegated_by |-> by, parent |-> parent, approved_by |-> None]
           f  == At("result", op, ids + 1, NoRequest)
<1>1. record(t, d, add_step(r.agent_id), add_call(r, ev.decision), approvals, f)
  BY Zenon DEF decide
<1>2. ev \in Evaluation
  BY EvaluateType
<1>3. d \in Decision
  <2> HIDE DEF ev
  <2> QED BY <1>2 DEF Decision, Evaluation
<1>4. ids + 1 \in Ids
  BY <1>1, Deployment DEF record, TypeOK, Ids
<1>5. f \in Frame /\ f.pc = "result" /\ f.id = ids + 1
  BY <1>4, AtFrame DEF Steps
<1>6. approvals \in [Ids -> Approval]
  BY DEF TypeOK
<1> HIDE DEF ev, f
<1>7. RecordStep(t, d, add_step(r.agent_id), add_call(r, ev.decision), approvals, f)
  BY <1>1, <1>5 DEF RecordStep
<1> QED BY <1>3, <1>5, <1>6, <1>7, CountersType DEF Records

(* Every action that records a decision does so in that shape.             *)
LEMMA ProposeRecords ==
    ASSUME TypeOK, NEW t \in Threads, NEW r \in Proposals,
           NEW op \in {"authorize", "delegate"}, Propose(t, r, op)
    PROVE  Records(t)
BY DecideRecords, Deployment DEF Propose

(* A refusal by reject_before_policy writes one denial without parent and  *)
(* leaves the budgets alone.                                               *)
LEMMA RejectBeforePolicyRecords ==
    ASSUME TypeOK, NEW t \in Threads, NEW r \in Proposals, RejectBeforePolicy(t, r)
    PROVE  Records(t)
<1> DEFINE q == [r EXCEPT !.arguments = NoArguments, !.contract_id = None]
           d(reason) == [request |-> q, decision |-> "deny", reason |-> reason,
                         delegated_by |-> None, parent |-> 0, approved_by |-> None]
<1>1. PICK reason \in {"MALFORMED_REQUEST", "IDENTITY_MISMATCH"} :
         record(t, d(reason), steps, calls, approvals, Idle)
  BY DEF RejectBeforePolicy
<1>2. q \in Request
  BY Deployment DEF Request
<1>3. d(reason) \in Decision /\ d(reason).parent = 0
  <2> HIDE DEF q
  <2> QED BY <1>2 DEF Decision, Effects, ReasonCode
<1>4. Idle \in Frame
  BY IdleFrame
<1> HIDE DEF d
<1>5. RecordStep(t, d(reason), steps, calls, approvals, Idle)
  BY <1>1, <1>3 DEF RecordStep, RejectBeforePolicy
<1> QED BY <1>3, <1>4, <1>5 DEF Records, TypeOK

(* _delegated_stage writes one decision about the recipient's action,      *)
(* with the thread's first stage as its parent.                            *)
LEMMA DelegatedStageRecords ==
    ASSUME TypeOK, Holding, NEW t \in Threads, DelegatedStage(t)
    PROVE  Records(t)
<1>1. work[t].pc = "stage2" /\ work[t].id \in Ids /\ decisions[work[t].id] # NoDecision
  BY DEF DelegatedStage, Holding
<1>2. decisions[work[t].id] \in Decision
  BY <1>1 DEF TypeOK
<1>3. decisions[work[t].id].request \in Request
  BY <1>2 DEF Decision
<1>4. delegated_action(decisions[work[t].id].request) \in Request
  BY <1>3, DelegatedType
<1>5. decisions[work[t].id].request.agent_id \in Agents \cup {None}
  BY <1>3 DEF Request
<1>6. decide(t, delegated_action(decisions[work[t].id].request), "stage2",
             decisions[work[t].id].request.agent_id, work[t].id)
  BY DEF DelegatedStage
<1> QED BY <1>1, <1>4, <1>5, <1>6, DecideRecords

(* approve writes one decision whose parent is the escalation it takes.    *)
LEMMA ApproveRecords ==
    ASSUME TypeOK, Holding, NEW t \in Threads, NEW i \in Ids, NEW who \in Principals,
           Approve(t, i, who)
    PROVE  Records(t)
<1> DEFINE p  == decisions[i]
           ev == evaluate(p.request, usage_for(p.request), clock)
           allowed == ev.decision # "deny"
           d  == [request |-> p.request,
                  decision |-> IF allowed THEN "allow" ELSE "deny",
                  reason |-> IF ev.decision = "escalate" THEN "APPROVED_BY_HUMAN" ELSE ev.reason,
                  delegated_by |-> p.delegated_by, parent |-> i,
                  approved_by |-> IF allowed THEN who ELSE None]
           f  == At("approval", "approve", ids + 1, NoRequest)
<1>1. /\ work[t] = Idle
      /\ may_decide(i, who)
      /\ record(t, d, steps, add_call(p.request, d.decision), take(i, who, "approve"), f)
  BY Zenon DEF Approve
<1>2. p # NoDecision
  BY <1>1 DEF may_decide, Holding
<1>3. p.request \in Request /\ p.delegated_by \in Agents \cup {None}
  BY <1>2 DEF TypeOK, Decision
<1>4. ev.decision \in Effects /\ ev.reason \in ReasonCode
  BY EvaluateType DEF Evaluation
<1>5. ids + 1 \in Ids
  BY <1>1, Deployment DEF record, TypeOK, Ids
<1>6. f \in Frame /\ f.pc = "approval" /\ f.id = ids + 1
  BY <1>5, AtFrame DEF Steps
<1>7. d \in Decision /\ d.parent = i
  <2> HIDE DEF ev, p
  <2> QED BY <1>3, <1>4 DEF Decision, Effects, ReasonCode
<1>8. take(i, who, "approve") \in [Ids -> Approval]
  BY TakeType
<1> HIDE DEF d, f
<1>9. RecordStep(t, d, steps, add_call(p.request, d.decision), take(i, who, "approve"), f)
  BY <1>1, <1>2, <1>6, <1>7 DEF RecordStep
<1> QED BY <1>6, <1>7, <1>8, <1>9, CountersType DEF Records, TypeOK

(* The second half of reject writes one denial whose parent is the         *)
(* escalation that was taken.                                              *)
LEMMA RejectRecordRecords ==
    ASSUME TypeOK, Holding, NEW t \in Threads, RejectRecord(t)
    PROVE  Records(t)
<1> DEFINE w == work[t]
           p == decisions[w.id]
           d == [request |-> p.request, decision |-> "deny",
                 reason |-> "APPROVAL_REJECTED", delegated_by |-> p.delegated_by,
                 parent |-> w.id, approved_by |-> None]
           f == At("annotate", "reject", ids + 1, NoRequest)
<1>1. w.pc = "reject" /\ record(t, d, steps, calls, approvals, f)
  BY DEF RejectRecord
<1>2. w.id \in Ids /\ p # NoDecision
  BY <1>1 DEF Holding
<1>3. p.request \in Request /\ p.delegated_by \in Agents \cup {None}
  BY <1>2 DEF TypeOK, Decision
<1>4. ids + 1 \in Ids
  BY <1>1, Deployment DEF record, TypeOK, Ids
<1>5. f \in Frame /\ f.pc = "annotate" /\ f.id = ids + 1
  BY <1>4, AtFrame DEF Steps
<1>6. d \in Decision /\ d.parent = w.id
  <2> HIDE DEF p, w
  <2> QED BY <1>2, <1>3 DEF Decision, Effects, ReasonCode
<1> HIDE DEF d, f
<1>7. RecordStep(t, d, steps, calls, approvals, f)
  BY <1>1, <1>2, <1>5, <1>6 DEF RecordStep
<1> QED BY <1>5, <1>6, <1>7 DEF Records, TypeOK

(* The steps of Next, those that record a decision taken together.         *)
LEMMA StepCases ==
    ASSUME TypeOK, Holding, [Next]_vars
    PROVE  \/ \E t \in Threads :
                \/ Records(t) \/ ResultFor(t) \/ ClaimGrant(t) \/ RunTool(t)
                \/ RecordExecution(t) \/ RecordApproval(t) \/ Annotate(t)
                \/ \E i \in Ids, r \in Proposals : CheckGrant(t, i, r)
                \/ \E i \in Ids, who \in Principals : RejectTake(t, i, who)
                \/ \E a \in Agents : Receive(t, a)
           \/ \E h : Crash(h)
           \/ Prune
           \/ Tick
           \/ UNCHANGED vars
BY ProposeRecords, RejectBeforePolicyRecords, DelegatedStageRecords, ApproveRecords,
   RejectRecordRecords, Zenon DEF Next

(* Only the thread that moves has a new frame.                             *)
LEMMA Moved ==
    ASSUME TypeOK, NEW t \in Threads, NEW g \in Frame, Goto(t, g)
    PROVE  /\ work' \in [Threads -> Frame]
           /\ work'[t] = g
           /\ \A u \in Threads : u # t => work'[u] = work[u]
BY DEF TypeOK, Goto

----------------------------------------------------------------------------
(* Layer 1: types, and who holds which decision                            *)

(* The stores start empty and of the right type.                           *)
LEMMA InitTyped == Init => TypeOK /\ Holding
<1> SUFFICES ASSUME Init PROVE TypeOK /\ Holding
  OBVIOUS
<1>1. Absent \in Approval /\ Absent.status = "absent"
  BY DEF Absent, Pristine, Approval
<1> QED BY <1>1, IdleFrame, Deployment DEF Init, TypeOK, Holding

(* Every caller of record keeps the types, and the thread it leaves        *)
(* behind holds the decision just written.                                 *)
LEMMA RecordsTyped ==
    ASSUME TypeOK, Holding, NEW t \in Threads, Records(t)
    PROVE  TypeOK' /\ Holding'
<1>1. PICK d \in Decision, s1 \in [ContractIds -> Nat], c1 \in [Keys -> Nat],
           a1 \in [Ids -> Approval], f \in Frame : RecordStep(t, d, s1, c1, a1, f)
  BY DEF Records
<1>2. ids \in Nat /\ ids + 1 \in Ids /\ ids + 1 \in 0..MaxIds
  BY <1>1, Deployment DEF RecordStep, record, TypeOK, Ids
<1>3. /\ UNCHANGED <<clock, used, mailbox, executions, verdicts, minted, ran, received>>
      /\ steps' = steps \/ steps' = s1
      /\ calls' = calls \/ calls' = c1
      /\ approvals' = approvals \/ approvals' = a1
      /\ audited' = audited \/ audited' = [audited EXCEPT ![ids + 1] = d]
      /\ faults' = faults \/ faults' = faults + 1
  BY <1>1, SMTT(30) DEF RecordStep, record, Fault
<1>4. \/ ids' = ids + 1 /\ decisions' = [decisions EXCEPT ![ids + 1] = d] /\ Goto(t, f)
      \/ (ids' = ids \/ ids' = ids + 1) /\ decisions' = decisions /\ Goto(t, Idle)
  BY <1>1 DEF RecordStep, record
<1>5. PICK g \in Frame : Goto(t, g) /\ (g = Idle \/ g = f)
  BY <1>4, IdleFrame
<1>6. /\ work' \in [Threads -> Frame]
      /\ work'[t] = g
      /\ \A u \in Threads : u # t => work'[u] = work[u]
  BY <1>5, Moved
<1>7. TypeOK'
  <2>1. decisions' \in [Ids -> Decision \cup {NoDecision}] /\ ids' \in 0..MaxIds
    BY <1>2, <1>4 DEF TypeOK
  <2>2. /\ steps' \in [ContractIds -> Nat] /\ calls' \in [Keys -> Nat]
        /\ approvals' \in [Ids -> Approval] /\ faults' \in Nat
        /\ audited' \in [Ids -> Decision \cup {NoDecision}]
    <3>1. steps' \in [ContractIds -> Nat] /\ calls' \in [Keys -> Nat]
      BY <1>3 DEF TypeOK
    <3>2. approvals' \in [Ids -> Approval] /\ faults' \in Nat
      BY <1>3 DEF TypeOK
    <3>3. audited' \in [Ids -> Decision \cup {NoDecision}]
      BY <1>2, <1>3 DEF TypeOK
    <3> QED BY <3>1, <3>2, <3>3
  <2> QED BY <1>3, <1>6, <2>1, <2>2 DEF TypeOK
<1>8. \A i \in Ids : a1[i].status # "absent" => approvals[i].status # "absent"
  BY <1>1 DEF RecordStep, may_decide, take, TypeOK
<1>9. \A i \in Ids : decisions[i] # NoDecision => decisions'[i] # NoDecision
  BY <1>2, <1>4, Deployment DEF TypeOK
<1>10. Holding'
  <2>1. \A i \in Ids : i > ids' => decisions'[i] = NoDecision
    <3>1. \A i \in Ids : i \in Nat /\ (i > ids => decisions[i] = NoDecision)
      BY DEF Holding, Ids
    <3>2. \A i \in Ids : i > ids + 1 => i > ids /\ i # ids + 1
      BY <1>2, <3>1
    <3>3. \A i \in Ids : decisions'[i] # decisions[i] => i = ids + 1 /\ ids' = ids + 1
      BY <1>2, <1>4 DEF TypeOK
    <3> QED BY <1>2, <1>4, <3>1, <3>2, <3>3
  <2>2. \A i \in Ids : minted'[i] # Never \/ approvals'[i].status # "absent"
                         => decisions'[i] # NoDecision
    BY <1>3, <1>8, <1>9 DEF Holding
  <2>3. IF g.pc = "idle" THEN g = Idle ELSE g.id \in Ids /\ decisions'[g.id] # NoDecision
    <3>1. CASE g = Idle
      BY <3>1, IdleFrame
    <3>2. CASE g # Idle
      <4>1. g = f /\ decisions' = [decisions EXCEPT ![ids + 1] = d]
        BY <1>4, <1>5, <3>2, <1>6, IdleFrame, Moved
      <4>2. f.pc # "idle" /\ f.id = ids + 1
        BY <1>1, <3>2, <4>1 DEF RecordStep
      <4> QED BY <1>2, <4>1, <4>2, Deployment DEF TypeOK
    <3> QED BY <3>1, <3>2
  <2>4. g.pc \notin {"claim", "tool", "record"}
    BY <1>1, <1>5, IdleFrame DEF RecordStep
  <2> QED BY <1>6, <1>9, <2>1, <2>2, <2>3, <2>4 DEF Holding
<1> QED BY <1>7, <1>10

(* A thread that records nothing holds what it held, or lets go of it.     *)
LEMMA HoldingMoves ==
    ASSUME TypeOK, Holding, NEW t \in Threads, NEW g \in Frame, Goto(t, g),
           UNCHANGED <<ids, decisions>>,
           \A i \in Ids : minted'[i] # Never \/ approvals'[i].status # "absent"
                            => decisions[i] # NoDecision,
           \/ g = Idle
           \/ /\ g.pc # "idle" /\ g.id \in Ids /\ decisions[g.id] # NoDecision
              /\ g.pc \in {"claim", "tool", "record"} => g.req \in Request
    PROVE  Holding'
BY IdleFrame, Moved DEF Holding

(* _result_for keeps the types.                                            *)
LEMMA ResultForTyped ==
    ASSUME TypeOK, Holding, NEW t \in Threads, ResultFor(t)
    PROVE  TypeOK' /\ Holding'
<1>1. work[t].pc = "result" /\ work[t].id \in Ids /\ decisions[work[t].id] # NoDecision
  BY DEF ResultFor, Holding
<1>2. PICK g \in Frame : Goto(t, g) /\ (g = Idle \/ (g.pc = "stage2" /\ g.id = work[t].id))
  <2>1. /\ Move(work[t], "stage2") \in Frame
        /\ Move(work[t], "stage2").pc = "stage2"
        /\ Move(work[t], "stage2").id = work[t].id
    BY Moves DEF TypeOK, Steps
  <2>2. Goto(t, Move(work[t], "stage2")) \/ Goto(t, Idle)
    BY Zenon DEF ResultFor
  <2> QED BY <2>1, <2>2, IdleFrame
<1>3. Pristine("pending") \in Approval
  BY DEF Pristine, Approval
<1>4. /\ approvals' \in [Ids -> Approval]
      /\ \A i \in Ids : i # work[t].id => approvals'[i] = approvals[i]
  BY <1>1, <1>3 DEF ResultFor, TypeOK
<1>5. /\ minted' \in [Ids -> Nat \cup {Never}]
      /\ \A i \in Ids : i # work[t].id => minted'[i] = minted[i]
  BY <1>1, Deployment DEF ResultFor, TypeOK
<1>6. TypeOK'
  BY <1>2, <1>4, <1>5, Moved DEF ResultFor, TypeOK, trail
<1>7. UNCHANGED <<ids, decisions>>
  BY DEF ResultFor
<1>8. \A i \in Ids : minted'[i] # Never \/ approvals'[i].status # "absent"
                       => decisions[i] # NoDecision
  BY <1>1, <1>4, <1>5 DEF Holding
<1>9. Holding'
  BY <1>1, <1>2, <1>7, <1>8, HoldingMoves
<1> QED BY <1>6, <1>9

(* The checks of Executor._check keep the types.                           *)
LEMMA CheckGrantTyped ==
    ASSUME TypeOK, Holding, NEW t \in Threads, NEW i \in Ids, NEW r \in Proposals,
           CheckGrant(t, i, r)
    PROVE  TypeOK' /\ Holding'
<1> DEFINE g == At("claim", "none", i, r)
<1>1. Goto(t, g) /\ minted[i] # Never /\ UNCHANGED <<clock, store, trail, history, faults>>
  BY DEF CheckGrant, verify
<1>2. g \in Frame /\ g.pc = "claim" /\ g.id = i /\ g.req \in Request
  BY AtFrame, Deployment DEF Steps
<1> HIDE DEF g
<1>3. TypeOK'
  BY <1>1, <1>2, Moved DEF TypeOK, store, trail, history
<1>4. Holding'
  <2>1. UNCHANGED <<ids, decisions, minted, approvals>>
    BY <1>1 DEF store, history
  <2> QED BY <1>1, <1>2, <2>1, HoldingMoves DEF Holding
<1> QED BY <1>3, <1>4

(* claim_grant keeps the types.                                            *)
LEMMA ClaimGrantTyped ==
    ASSUME TypeOK, Holding, NEW t \in Threads, ClaimGrant(t)
    PROVE  TypeOK' /\ Holding'
<1>1. /\ work[t].pc = "claim" /\ work[t].id \in Ids /\ decisions[work[t].id] # NoDecision
      /\ work[t].req \in Request
  BY DEF ClaimGrant, Holding
<1>2. PICK g \in Frame : /\ Goto(t, g)
                         /\ \/ g = Idle
                            \/ g.pc = "tool" /\ g.id = work[t].id /\ g.req = work[t].req
  <2>1. /\ Move(work[t], "tool") \in Frame
        /\ Move(work[t], "tool").pc = "tool"
        /\ Move(work[t], "tool").id = work[t].id
        /\ Move(work[t], "tool").req = work[t].req
    BY Moves DEF TypeOK, Steps
  <2>2. Goto(t, Move(work[t], "tool")) \/ Goto(t, Idle)
    BY Zenon DEF ClaimGrant
  <2> QED BY <2>1, <2>2, IdleFrame
<1>3. /\ used' = used \cup {work[t].id}
      /\ UNCHANGED <<clock, steps, calls, approvals, mailbox, trail, history, faults>>
  BY DEF ClaimGrant
<1>4. TypeOK'
  BY <1>1, <1>2, <1>3, Moved DEF TypeOK, trail, history
<1>5. Holding'
  <2>1. UNCHANGED <<ids, decisions, minted, approvals>>
    BY <1>3 DEF history
  <2> QED BY <1>1, <1>2, <2>1, HoldingMoves DEF Holding
<1> QED BY <1>4, <1>5

(* Calling the tool keeps the types; a delivered message names the         *)
(* decision that allowed it.                                               *)
LEMMA RunToolTyped ==
    ASSUME TypeOK, Holding, NEW t \in Threads, RunTool(t)
    PROVE  TypeOK' /\ Holding'
<1>1. /\ work[t].pc = "tool" /\ work[t].id \in Ids /\ decisions[work[t].id] # NoDecision
      /\ work[t].req \in Request
  BY DEF RunTool, Holding
<1> DEFINE g == Move(work[t], "record")
<1>2. g \in Frame /\ g.pc = "record" /\ g.id = work[t].id /\ g.req = work[t].req
  BY Moves DEF TypeOK, Steps
<1>3. Goto(t, g) /\ UNCHANGED <<clock, steps, calls, used, approvals, trail, ids, decisions,
                                minted, received>>
  BY DEF RunTool
<1>4. ran' \in [Ids -> Seq(Request)]
  <2>1. Append(ran[work[t].id], work[t].req) \in Seq(Request)
    BY <1>1 DEF TypeOK
  <2> QED BY <1>1, <2>1 DEF RunTool, TypeOK
<1>5. mailbox' \in [Agents -> SUBSET Ids] /\ faults' \in Nat
  <2> DEFINE to == attr[work[t].req.arguments].to
  <2>1. /\ mailbox' = mailbox \/ mailbox' = [mailbox EXCEPT ![to] = @ \cup {work[t].id}]
        /\ faults' = faults \/ faults' = faults + 1
    BY Zenon DEF RunTool, Fault
  <2> HIDE DEF to
  <2>2. CASE to \in Agents
    <3>1. mailbox[to] \cup {work[t].id} \in SUBSET Ids
      BY <1>1, <2>2 DEF TypeOK
    <3>2. [mailbox EXCEPT ![to] = @ \cup {work[t].id}] \in [Agents -> SUBSET Ids]
      BY <2>2, <3>1 DEF TypeOK
    <3>3. mailbox \in [Agents -> SUBSET Ids] /\ faults \in Nat
      BY DEF TypeOK
    <3>4. faults' \in Nat
      BY <2>1, <3>3
    <3> QED BY <2>1, <3>2, <3>3, <3>4, Zenon
  <2>3. CASE to \notin Agents
    BY <1>1, <2>1, <2>3 DEF TypeOK
  <2> QED BY <2>2, <2>3
<1> HIDE DEF g
<1>6. TypeOK'
  BY <1>2, <1>3, <1>4, <1>5, Moved DEF TypeOK, trail
<1>7. Holding'
  BY <1>1, <1>2, <1>3, HoldingMoves DEF Holding
<1> QED BY <1>6, <1>7

(* The execution record keeps the types.                                   *)
LEMMA RecordExecutionTyped ==
    ASSUME TypeOK, Holding, NEW t \in Threads, RecordExecution(t)
    PROVE  TypeOK' /\ Holding'
<1>1. work[t].pc = "record" /\ work[t].id \in Ids
  BY DEF RecordExecution, Holding
<1>2. /\ Goto(t, Idle)
      /\ executions' = executions \/ executions' = executions \cup {work[t].id}
      /\ faults' = faults \/ faults' = faults + 1
      /\ UNCHANGED <<clock, store, audited, verdicts, history>>
  BY Zenon DEF RecordExecution, Fault
<1>3. TypeOK'
  BY <1>1, <1>2, IdleFrame, Moved DEF TypeOK, store, history
<1>4. Holding'
  <2>1. UNCHANGED <<ids, decisions, minted, approvals>>
    BY <1>2 DEF store, history
  <2> QED BY <1>2, <2>1, IdleFrame, HoldingMoves DEF Holding
<1> QED BY <1>3, <1>4

(* The approval record and what follows it keep the types.                 *)
LEMMA RecordApprovalTyped ==
    ASSUME TypeOK, Holding, NEW t \in Threads, RecordApproval(t)
    PROVE  TypeOK' /\ Holding'
<1>1. /\ work[t].pc \in {"approval", "rejected"} /\ work[t].id \in Ids
      /\ decisions[work[t].id] # NoDecision
  BY DEF RecordApproval, Holding
<1>2. /\ verdicts' = verdicts \/ verdicts' = verdicts \cup {work[t].id}
      /\ faults' = faults \/ faults' = faults + 1
      /\ UNCHANGED <<clock, store, audited, executions, history>>
      /\ Goto(t, Move(work[t], "annotate")) \/ Goto(t, Idle)
  BY Zenon DEF RecordApproval, Fault
<1>3. PICK g \in Frame : Goto(t, g) /\ (g = Idle \/ (g.pc = "annotate" /\ g.id = work[t].id))
  <2>1. /\ Move(work[t], "annotate") \in Frame
        /\ Move(work[t], "annotate").pc = "annotate"
        /\ Move(work[t], "annotate").id = work[t].id
    BY Moves DEF TypeOK, Steps
  <2> QED BY <1>2, <2>1, IdleFrame
<1>4. TypeOK'
  BY <1>1, <1>2, <1>3, Moved DEF TypeOK, store, history
<1>5. Holding'
  <2>1. UNCHANGED <<ids, decisions, minted, approvals>>
    BY <1>2 DEF store, history
  <2> QED BY <1>1, <1>3, <2>1, HoldingMoves DEF Holding
<1> QED BY <1>4, <1>5

(* annotate_approval changes a verdict and nothing else of an approval.    *)
LEMMA AnnotateApprovals ==
    ASSUME TypeOK, NEW t \in Threads, Annotate(t)
    PROVE  /\ approvals' \in [Ids -> Approval]
           /\ \A i \in Ids : /\ approvals'[i].status = approvals[i].status
                             /\ approvals'[i].verb = approvals[i].verb
                             /\ approvals'[i].approver = approvals[i].approver
<1> DEFINE p == decisions[work[t].id].parent
<1>1. PICK v \in {"granted", "superseded", "rejected"} :
         approvals' = [approvals EXCEPT ![p].verdict = v]
  BY Zenon DEF Annotate
<1>2. approvals \in [Ids -> Approval]
  BY DEF TypeOK
<1> HIDE DEF p
<1>3. CASE p \in Ids
  BY <1>1, <1>2, <1>3 DEF Approval
<1>4. CASE p \notin Ids
  <2>1. approvals' = approvals
    BY <1>1, <1>2, <1>4
  <2> QED BY <1>2, <2>1
<1> QED BY <1>3, <1>4

(* annotate_approval keeps the types.                                      *)
LEMMA AnnotateTyped ==
    ASSUME TypeOK, Holding, NEW t \in Threads, Annotate(t)
    PROVE  TypeOK' /\ Holding'
<1>1. work[t].pc = "annotate" /\ work[t].id \in Ids /\ decisions[work[t].id] # NoDecision
  BY DEF Annotate, Holding
<1>2. /\ UNCHANGED <<clock, steps, calls, used, mailbox, trail, history, faults>>
      /\ Goto(t, Move(work[t], "rejected")) \/ Goto(t, Move(work[t], "result"))
  BY Zenon DEF Annotate
<1>3. PICK g \in Frame : Goto(t, g) /\ g.pc \in {"rejected", "result"} /\ g.id = work[t].id
  <2>1. \A p \in {"rejected", "result"} :
          /\ Move(work[t], p) \in Frame
          /\ Move(work[t], p).pc = p
          /\ Move(work[t], p).id = work[t].id
    BY Moves DEF TypeOK, Steps
  <2> QED BY <1>2, <2>1
<1>4. TypeOK'
  BY <1>2, <1>3, AnnotateApprovals, Moved DEF TypeOK, trail, history
<1>5. Holding'
  <2>1. UNCHANGED <<ids, decisions, minted>>
    BY <1>2 DEF history
  <2>2. \A i \in Ids : minted'[i] # Never \/ approvals'[i].status # "absent"
                         => decisions[i] # NoDecision
    BY <2>1, AnnotateApprovals DEF Holding
  <2> QED BY <1>1, <1>3, <2>1, <2>2, HoldingMoves
<1> QED BY <1>4, <1>5

(* The first half of reject keeps the types.                               *)
LEMMA RejectTakeTyped ==
    ASSUME TypeOK, Holding, NEW t \in Threads, NEW i \in Ids, NEW who \in Principals,
           RejectTake(t, i, who)
    PROVE  TypeOK' /\ Holding'
<1> DEFINE g == At("reject", "reject", i, NoRequest)
<1>1. /\ Goto(t, g) /\ may_decide(i, who) /\ approvals' = take(i, who, "reject")
      /\ UNCHANGED <<clock, steps, calls, used, mailbox, trail, history, faults>>
  BY DEF RejectTake
<1>2. g \in Frame /\ g.pc = "reject" /\ g.id = i
  BY AtFrame DEF Steps
<1> HIDE DEF g
<1>3. decisions[i] # NoDecision
  BY <1>1 DEF may_decide, Holding
<1>4. TypeOK'
  BY <1>1, <1>2, Moved, TakeType DEF TypeOK, trail, history
<1>5. Holding'
  <2>1. UNCHANGED <<ids, decisions, minted>>
    BY <1>1 DEF history
  <2>2. \A j \in Ids : j # i => approvals'[j] = approvals[j]
    BY <1>1 DEF take, TypeOK
  <2>3. \A j \in Ids : minted'[j] # Never \/ approvals'[j].status # "absent"
                         => decisions[j] # NoDecision
    BY <1>3, <2>1, <2>2 DEF Holding
  <2> QED BY <1>1, <1>2, <1>3, <2>1, <2>3, HoldingMoves
<1> QED BY <1>4, <1>5

(* What a step that leaves decisions alone and keeps or drops frames does. *)
LEMMA HoldingKept ==
    ASSUME Holding, UNCHANGED <<ids, decisions, minted, approvals>>,
           \A t \in Threads : work'[t] = work[t] \/ work'[t] = Idle
    PROVE  Holding'
BY IdleFrame DEF Holding

(* Draining a mailbox keeps the types.                                     *)
LEMMA ReceiveTyped ==
    ASSUME TypeOK, Holding, NEW t \in Threads, NEW a \in Agents, Receive(t, a)
    PROVE  TypeOK' /\ Holding'
<1>1. /\ received' = [received EXCEPT ![a] = @ \cup mailbox[a]]
      /\ mailbox' = [mailbox EXCEPT ![a] = {}]
      /\ UNCHANGED <<clock, steps, calls, used, approvals, trail, ids, decisions,
                     minted, work, ran, faults>>
  BY DEF Receive
<1>2. received' \in [Agents -> SUBSET Ids]
  <2>1. received[a] \cup mailbox[a] \in SUBSET Ids
    BY DEF TypeOK
  <2> QED BY <1>1, <2>1 DEF TypeOK
<1>3. mailbox' \in [Agents -> SUBSET Ids]
  BY <1>1 DEF TypeOK
<1> QED BY <1>1, <1>2, <1>3, HoldingKept DEF TypeOK, trail

(* A crash keeps the types: it forgets threads, never the store.           *)
LEMMA CrashTyped ==
    ASSUME TypeOK, Holding, NEW h, Crash(h)
    PROVE  TypeOK' /\ Holding'
<1>1. /\ work' = [t \in Threads |-> IF host[t] = h THEN Idle ELSE work[t]]
      /\ faults' = faults + 1
      /\ UNCHANGED <<clock, store, trail, history>>
  BY DEF Crash, Fault
<1>2. /\ work' \in [Threads -> Frame]
      /\ \A t \in Threads : work'[t] = work[t] \/ work'[t] = Idle
  BY <1>1, IdleFrame DEF TypeOK
<1>3. TypeOK'
  BY <1>1, <1>2 DEF TypeOK, store, trail, history
<1>4. Holding'
  BY <1>1, <1>2, HoldingKept DEF store, history
<1> QED BY <1>3, <1>4

(* prune keeps the types.                                                  *)
LEMMA PruneTyped ==
    ASSUME TypeOK, Holding, Prune
    PROVE  TypeOK' /\ Holding'
<1>1. /\ used' = {i \in used : ~(minted[i] + PruneGrace < clock)}
      /\ UNCHANGED <<clock, steps, calls, approvals, mailbox, trail, history, work, faults>>
  BY DEF Prune
<1>2. used' \subseteq used
  BY <1>1
<1>3. TypeOK'
  BY <1>1, <1>2 DEF TypeOK, trail, history
<1>4. Holding'
  BY <1>1, HoldingKept DEF history
<1> QED BY <1>3, <1>4

(* The passing of time keeps the types.                                    *)
LEMMA TickTyped ==
    ASSUME TypeOK, Holding, Tick \/ UNCHANGED vars
    PROVE  TypeOK' /\ Holding'
<1>1. /\ clock' = clock \/ clock' = clock + 1
      /\ UNCHANGED <<store, trail, history, work, faults>>
  BY DEF Tick, vars
<1>2. TypeOK'
  BY <1>1 DEF TypeOK, store, trail, history
<1>3. Holding'
  BY <1>1, HoldingKept DEF store, history
<1> QED BY <1>2, <1>3

(* Layer 1 is inductive.                                                   *)
LEMMA StepTyped ==
    ASSUME TypeOK, Holding, [Next]_vars
    PROVE  TypeOK' /\ Holding'
BY StepCases, RecordsTyped, ResultForTyped, CheckGrantTyped, ClaimGrantTyped, RunToolTyped,
   RecordExecutionTyped, RecordApprovalTyped, AnnotateTyped, RejectTakeTyped, ReceiveTyped,
   CrashTyped, PruneTyped, TickTyped, Zenon

(* Every variable of the harness keeps its shape, in any deployment: in    *)
(* particular whatever a thread goes on to do after it let go of the store *)
(* (mint, annotate, deliver, record) it does to a decision that the store  *)
(* has committed.                                                          *)
THEOREM HarnessTypes == Spec => [](TypeOK /\ Holding)
<1>1. Init => TypeOK /\ Holding
  BY InitTyped
<1>2. TypeOK /\ Holding /\ [Next]_vars => TypeOK' /\ Holding'
  BY StepTyped
<1> QED BY <1>1, <1>2, PTL DEF Spec

----------------------------------------------------------------------------
(* Where each action leads the thread that takes it                        *)

(* After record a thread holds a new decision, which no other thread       *)
(* holds and no claim or execution names.                                  *)
LEMMA RecordsMoves ==
    ASSUME TypeOK, Holding, NEW t \in Threads, Records(t)
    PROVE  /\ UNCHANGED <<clock, used, mailbox, executions, verdicts, minted, ran, received>>
           /\ ids + 1 \in Ids /\ decisions[ids + 1] = NoDecision
           /\ \A u \in Threads : u # t => work'[u] = work[u]
           /\ \/ work'[t] = Idle
              \/ work'[t].pc \in {"result", "approval", "annotate"} /\ work'[t].id = ids + 1
           /\ \A i \in Ids : approvals'[i].status # approvals[i].status
                => approvals[i].status = "pending" /\ approvals'[i].status = "decided"
<1>1. PICK d \in Decision, s1 \in [ContractIds -> Nat], c1 \in [Keys -> Nat],
           a1 \in [Ids -> Approval], f \in Frame : RecordStep(t, d, s1, c1, a1, f)
  BY DEF Records
<1>2. ids + 1 \in Ids /\ ids + 1 > ids
  BY <1>1, Deployment DEF RecordStep, record, TypeOK, Ids
<1>3. decisions[ids + 1] = NoDecision
  BY <1>2 DEF Holding
<1>4. PICK g \in Frame : Goto(t, g) /\ (g = Idle \/ g = f)
  BY <1>1, IdleFrame DEF RecordStep, record
<1>5. work'[t] = g /\ \A u \in Threads : u # t => work'[u] = work[u]
  BY <1>4, Moved
<1>6. g = Idle \/ (g.pc \in {"result", "approval", "annotate"} /\ g.id = ids + 1)
  BY <1>1, <1>4 DEF RecordStep
<1>7. \A i \in Ids : a1[i].status # approvals[i].status
                       => approvals[i].status = "pending" /\ a1[i].status = "decided"
  <2>1. CASE a1 = approvals
    BY <2>1
  <2>2. CASE \E who \in Principals :
               may_decide(d.parent, who) /\ a1 = take(d.parent, who, "approve")
    <3>1. PICK who \in Principals :
               may_decide(d.parent, who) /\ a1 = take(d.parent, who, "approve")
      BY <2>2
    <3>2. approvals[d.parent].status = "pending"
      BY <3>1 DEF may_decide
    <3>3. \A i \in Ids : IF i = d.parent THEN a1[i].status = "decided" ELSE a1[i] = approvals[i]
      BY <3>1 DEF take, TypeOK
    <3> QED BY <3>2, <3>3
  <2> QED BY <1>1, <2>1, <2>2 DEF RecordStep
<1>8. approvals' = approvals \/ approvals' = a1
  BY <1>1 DEF RecordStep, record
<1>9. UNCHANGED <<clock, used, mailbox, executions, verdicts, minted, ran, received>>
  BY <1>1 DEF RecordStep, record
<1>10. \A i \in Ids : approvals'[i].status # approvals[i].status
                => approvals[i].status = "pending" /\ approvals'[i].status = "decided"
  BY <1>7, <1>8
<1> QED BY <1>2, <1>3, <1>5, <1>6, <1>9, <1>10

(* _result_for moves only the thread that calls it.                        *)
LEMMA ResultForMoves ==
    ASSUME TypeOK, NEW t \in Threads, ResultFor(t)
    PROVE  /\ work[t].pc = "result"
           /\ \A u \in Threads : u # t => work'[u] = work[u]
           /\ \/ work'[t] = Idle
              \/ /\ work'[t].pc = "stage2" /\ work'[t].id = work[t].id
                 /\ decisions[work[t].id].decision = "allow"
<1>1. /\ Move(work[t], "stage2") \in Frame
      /\ Move(work[t], "stage2").pc = "stage2"
      /\ Move(work[t], "stage2").id = work[t].id
  BY Moves DEF TypeOK, Steps
<1>2. \/ Goto(t, Idle)
      \/ Goto(t, Move(work[t], "stage2")) /\ decisions[work[t].id].decision = "allow"
  BY Zenon DEF ResultFor
<1> QED BY <1>1, <1>2, IdleFrame, Moved DEF ResultFor

(* Executor._check moves only the thread that calls it.                    *)
LEMMA CheckGrantMoves ==
    ASSUME TypeOK, NEW t \in Threads, NEW i \in Ids, NEW r \in Proposals, CheckGrant(t, i, r)
    PROVE  /\ UNCHANGED <<clock, store, trail, history, faults>>
           /\ minted[i] # Never /\ clock < minted[i]
           /\ work'[t].pc = "claim" /\ work'[t].id = i /\ work'[t].req = r
           /\ \A u \in Threads : u # t => work'[u] = work[u]
<1>1. /\ At("claim", "none", i, r) \in Frame
      /\ At("claim", "none", i, r).pc = "claim"
      /\ At("claim", "none", i, r).id = i
      /\ At("claim", "none", i, r).req = r
  BY AtFrame, Deployment DEF Steps
<1>2. Goto(t, At("claim", "none", i, r))
  BY DEF CheckGrant, verify
<1>3. work'[t] = At("claim", "none", i, r) /\ \A u \in Threads : u # t => work'[u] = work[u]
  BY <1>1, <1>2, Moved
<1> QED BY <1>1, <1>3 DEF CheckGrant, verify

(* claim_grant moves only the thread that calls it, and only the winner    *)
(* goes on to the tool.                                                    *)
LEMMA ClaimGrantMoves ==
    ASSUME TypeOK, NEW t \in Threads, ClaimGrant(t)
    PROVE  /\ work[t].pc = "claim"
           /\ used' = used \cup {work[t].id}
           /\ UNCHANGED <<clock, steps, calls, approvals, mailbox, trail, history, faults>>
           /\ \A u \in Threads : u # t => work'[u] = work[u]
           /\ \/ work'[t] = Idle
              \/ /\ work'[t].pc = "tool" /\ work'[t].id = work[t].id
                 /\ work'[t].req = work[t].req /\ work[t].id \notin used
<1>1. /\ Move(work[t], "tool") \in Frame
      /\ Move(work[t], "tool").pc = "tool"
      /\ Move(work[t], "tool").id = work[t].id
      /\ Move(work[t], "tool").req = work[t].req
  BY Moves DEF TypeOK, Steps
<1>2. \/ Goto(t, Idle)
      \/ Goto(t, Move(work[t], "tool")) /\ work[t].id \notin used
  BY Zenon DEF ClaimGrant
<1> QED BY <1>1, <1>2, IdleFrame, Moved DEF ClaimGrant

(* The tool moves only the thread that calls it.                           *)
LEMMA RunToolMoves ==
    ASSUME TypeOK, NEW t \in Threads, RunTool(t)
    PROVE  /\ work[t].pc = "tool"
           /\ ran' = [ran EXCEPT ![work[t].id] = Append(@, work[t].req)]
           /\ UNCHANGED <<clock, steps, calls, used, approvals, trail, ids, decisions,
                          minted, received>>
           /\ work'[t].pc = "record" /\ work'[t].id = work[t].id
           /\ \A u \in Threads : u # t => work'[u] = work[u]
<1>1. /\ Move(work[t], "record") \in Frame
      /\ Move(work[t], "record").pc = "record"
      /\ Move(work[t], "record").id = work[t].id
  BY Moves DEF TypeOK, Steps
<1>2. Goto(t, Move(work[t], "record"))
  BY DEF RunTool
<1>3. work'[t] = Move(work[t], "record") /\ \A u \in Threads : u # t => work'[u] = work[u]
  BY <1>1, <1>2, Moved
<1> QED BY <1>1, <1>3 DEF RunTool

(* The execution record moves only the thread that writes it.              *)
LEMMA RecordExecutionMoves ==
    ASSUME TypeOK, NEW t \in Threads, RecordExecution(t)
    PROVE  /\ UNCHANGED <<clock, store, audited, verdicts, history>>
           /\ work'[t] = Idle
           /\ \A u \in Threads : u # t => work'[u] = work[u]
BY IdleFrame, Moved DEF RecordExecution

(* The approval record moves only the thread that writes it.               *)
LEMMA RecordApprovalMoves ==
    ASSUME TypeOK, NEW t \in Threads, RecordApproval(t)
    PROVE  /\ UNCHANGED <<clock, store, audited, executions, history>>
           /\ \A u \in Threads : u # t => work'[u] = work[u]
           /\ \/ work'[t] = Idle
              \/ /\ work[t].pc = "approval"
                 /\ work'[t].pc = "annotate" /\ work'[t].id = work[t].id
<1>1. /\ Move(work[t], "annotate") \in Frame
      /\ Move(work[t], "annotate").pc = "annotate"
      /\ Move(work[t], "annotate").id = work[t].id
  BY Moves DEF TypeOK, Steps
<1>2. \/ Goto(t, Idle)
      \/ Goto(t, Move(work[t], "annotate")) /\ work[t].pc = "approval"
  BY Zenon DEF RecordApproval
<1> QED BY <1>1, <1>2, IdleFrame, Moved DEF RecordApproval

(* annotate_approval moves only the thread that calls it.                  *)
LEMMA AnnotateMoves ==
    ASSUME TypeOK, NEW t \in Threads, Annotate(t)
    PROVE  /\ UNCHANGED <<clock, steps, calls, used, mailbox, trail, history, faults>>
           /\ work[t].pc = "annotate"
           /\ work'[t].pc \in {"rejected", "result"} /\ work'[t].id = work[t].id
           /\ \A u \in Threads : u # t => work'[u] = work[u]
<1>1. \A p \in {"rejected", "result"} :
        /\ Move(work[t], p) \in Frame
        /\ Move(work[t], p).pc = p
        /\ Move(work[t], p).id = work[t].id
  BY Moves DEF TypeOK, Steps
<1>2. Goto(t, Move(work[t], "rejected")) \/ Goto(t, Move(work[t], "result"))
  BY Zenon DEF Annotate
<1>3. PICK p \in {"rejected", "result"} : Goto(t, Move(work[t], p))
  BY <1>2
<1>4. work'[t] = Move(work[t], p) /\ \A u \in Threads : u # t => work'[u] = work[u]
  BY <1>1, <1>3, Moved
<1> QED BY <1>1, <1>4 DEF Annotate

(* The first half of reject moves only the thread that calls it.           *)
LEMMA RejectTakeMoves ==
    ASSUME TypeOK, NEW t \in Threads, NEW i \in Ids, NEW who \in Principals,
           RejectTake(t, i, who)
    PROVE  /\ UNCHANGED <<clock, steps, calls, used, mailbox, trail, history, faults>>
           /\ approvals[i].status = "pending" /\ approvals'[i].status = "decided"
           /\ \A j \in Ids : j # i => approvals'[j] = approvals[j]
           /\ work'[t].pc = "reject" /\ work'[t].id = i
           /\ \A u \in Threads : u # t => work'[u] = work[u]
<1>1. /\ At("reject", "reject", i, NoRequest) \in Frame
      /\ At("reject", "reject", i, NoRequest).pc = "reject"
      /\ At("reject", "reject", i, NoRequest).id = i
  BY AtFrame DEF Steps
<1>2. Goto(t, At("reject", "reject", i, NoRequest)) /\ approvals' = take(i, who, "reject")
  BY DEF RejectTake
<1>3. /\ work'[t] = At("reject", "reject", i, NoRequest)
      /\ \A u \in Threads : u # t => work'[u] = work[u]
  BY <1>1, <1>2, Moved
<1>4. approvals'[i].status = "decided" /\ \A j \in Ids : j # i => approvals'[j] = approvals[j]
  BY <1>2 DEF take, TypeOK
<1> QED BY <1>1, <1>3, <1>4 DEF RejectTake, may_decide

(* A crash leaves a thread where it was or idle.                           *)
LEMMA CrashMoves ==
    ASSUME TypeOK, NEW h, Crash(h)
    PROVE  /\ UNCHANGED <<clock, store, trail, history>>
           /\ \A t \in Threads : work'[t] = work[t] \/ work'[t] = Idle
BY DEF Crash

----------------------------------------------------------------------------
(* Layer 2: a decision is private until _result_for, a grant is good for   *)
(* one tool call                                                           *)

(* Nothing that is private is minted or put up for approval.               *)
LEMMA PrivateKept ==
    ASSUME Private,
           \A t \in Threads : Early(t)' =>
             /\ Early(t) /\ work'[t].id = work[t].id
             /\ minted'[work[t].id] = minted[work[t].id]
             /\ approvals'[work[t].id].status = approvals[work[t].id].status
    PROVE  Private'
BY DEF Private, Early

(* An idle thread holds no undisclosed decision.                           *)
LEMMA IdleIsNotEarly == \A t : work'[t] = Idle => ~Early(t)'
BY IdleFrame DEF Early

(* A decision just written belongs to the thread that wrote it alone.      *)
LEMMA RecordsPrivate ==
    ASSUME TypeOK, Holding, Private, NEW t \in Threads, Records(t)
    PROVE  Private'
<1>1. minted[ids + 1] = Never /\ approvals[ids + 1].status = "absent"
  BY RecordsMoves DEF Holding
<1>2. \A u \in Threads : Early(u) => work[u].id \in Ids /\ work[u].id # ids + 1
  BY RecordsMoves DEF Holding, Early
<1>3. minted'[ids + 1] = Never /\ approvals'[ids + 1].status = "absent"
  BY <1>1, RecordsMoves
<1>4. \A u \in Threads : u # t /\ Early(u)' =>
        /\ Early(u) /\ work'[u].id = work[u].id /\ work[u].id # ids + 1
        /\ minted'[work[u].id] = Never /\ approvals'[work[u].id].status = "absent"
  BY <1>2, RecordsMoves DEF Private, Early
<1>5. Early(t)' => work'[t].id = ids + 1
  BY RecordsMoves, IdleIsNotEarly
<1>6. \A u \in Threads : Early(u)' =>
        minted'[work'[u].id] = Never /\ approvals'[work'[u].id].status = "absent"
  BY <1>3, <1>4, <1>5
<1>7. \A u, v \in Threads : Early(u)' /\ Early(v)' /\ work'[u].id = work'[v].id => u = v
  BY <1>4, <1>5 DEF Private
<1> QED BY <1>6, <1>7 DEF Private, Early

(* Once _result_for has disclosed a decision no thread holds it as its     *)
(* own any more.                                                           *)
LEMMA ResultForPrivate ==
    ASSUME TypeOK, Holding, Private, NEW t \in Threads, ResultFor(t)
    PROVE  Private'
<1>1. ~Early(t)' /\ Early(t)
  BY ResultForMoves, IdleIsNotEarly DEF Early
<1>2. \A u \in Threads : Early(u)' => u # t /\ Early(u) /\ work'[u] = work[u]
  BY <1>1, ResultForMoves DEF Early
<1>3. \A u \in Threads : Early(u)' => work[u].id # work[t].id /\ work[u].id \in Ids
  BY <1>1, <1>2 DEF Private, Holding, Early
<1>4. \A i \in Ids : i # work[t].id => minted'[i] = minted[i] /\ approvals'[i] = approvals[i]
  BY DEF ResultFor, TypeOK
<1> QED BY <1>2, <1>3, <1>4, PrivateKept

(* Layer 2, first half, is inductive.                                      *)
LEMMA StepPrivate ==
    ASSUME TypeOK, Holding, Private, [Next]_vars
    PROVE  Private'
<1>1. ASSUME NEW t \in Threads, NEW i \in Ids, NEW r \in Proposals, CheckGrant(t, i, r)
      PROVE  Private'
  <2>1. UNCHANGED <<minted, approvals>>
    BY <1>1, CheckGrantMoves DEF store, history
  <2> QED BY <1>1, <2>1, CheckGrantMoves, PrivateKept DEF Early
<1>2. ASSUME NEW t \in Threads, ClaimGrant(t) PROVE Private'
  <2>1. UNCHANGED <<minted, approvals>>
    BY <1>2, ClaimGrantMoves DEF history
  <2> QED BY <1>2, <2>1, ClaimGrantMoves, IdleFrame, PrivateKept DEF Early
<1>3. ASSUME NEW t \in Threads, RunTool(t) PROVE Private'
  BY <1>3, RunToolMoves, PrivateKept DEF Early
<1>4. ASSUME NEW t \in Threads, RecordExecution(t) PROVE Private'
  <2>1. UNCHANGED <<minted, approvals>>
    BY <1>4, RecordExecutionMoves DEF store, history
  <2> QED BY <1>4, <2>1, RecordExecutionMoves, IdleFrame, PrivateKept DEF Early
<1>5. ASSUME NEW t \in Threads, RecordApproval(t) PROVE Private'
  <2>1. UNCHANGED <<minted, approvals>>
    BY <1>5, RecordApprovalMoves DEF store, history
  <2> QED BY <1>5, <2>1, RecordApprovalMoves, IdleFrame, PrivateKept DEF Early
<1>6. ASSUME NEW t \in Threads, Annotate(t) PROVE Private'
  <2>1. UNCHANGED minted /\ \A i \in Ids : approvals'[i].status = approvals[i].status
    BY <1>6, AnnotateMoves, AnnotateApprovals DEF history
  <2>2. \A u \in Threads : Early(u) => work[u].id \in Ids
    BY DEF Early, Holding
  <2> QED BY <1>6, <2>1, <2>2, AnnotateMoves, PrivateKept DEF Early
<1>7. ASSUME NEW t \in Threads, NEW i \in Ids, NEW who \in Principals, RejectTake(t, i, who)
      PROVE  Private'
  <2>1. UNCHANGED minted
    BY <1>7, RejectTakeMoves DEF history
  <2>2. \A u \in Threads : Early(u) => work[u].id \in Ids /\ work[u].id # i
    BY <1>7, RejectTakeMoves DEF Early, Holding, Private
  <2> QED BY <1>7, <2>1, <2>2, RejectTakeMoves, PrivateKept DEF Early
<1>8. ASSUME NEW h, Crash(h) PROVE Private'
  <2>1. UNCHANGED <<minted, approvals>>
    BY <1>8, CrashMoves DEF store, history
  <2> QED BY <1>8, <2>1, CrashMoves, IdleFrame, PrivateKept DEF Early
<1>9. ASSUME UNCHANGED <<minted, approvals, work>> PROVE Private'
  BY <1>9 DEF Private, Early
<1>10. ASSUME NEW t \in Threads, NEW a \in Agents, Receive(t, a) PROVE Private'
  BY <1>9, <1>10 DEF Receive
<1>11. ASSUME Prune \/ Tick \/ UNCHANGED vars PROVE Private'
  BY <1>9, <1>11 DEF Prune, Tick, vars, store, history
<1> QED BY <1>1, <1>2, <1>3, <1>4, <1>5, <1>6, <1>7, <1>8, <1>10, <1>11, StepCases,
           RecordsPrivate, ResultForPrivate, Zenon

(* A claim is never forgotten while the grant could still be presented.    *)
LEMMA ClaimedLasts ==
    ASSUME TypeOK, NEW i \in Ids, Claimed(i), minted'[i] = minted[i],
           clock' \in Nat, clock' >= clock,
           i \in used => i \in used' \/ minted[i] + PruneGrace < clock
    PROVE  Claimed(i)'
<1>1. minted[i] \in Nat /\ clock \in Nat /\ PruneGrace \in Nat
  BY Deployment DEF TypeOK, Claimed
<1> QED BY <1>1 DEF Claimed

(* A step that mints, claims, prunes and runs nothing.                     *)
LEMMA OneClaimKept ==
    ASSUME TypeOK, OneClaim, UNCHANGED <<clock, used, minted, ran>>,
           \A t \in Threads : work'[t].pc \in {"claim", "tool"} =>
                work'[t].pc = work[t].pc /\ work'[t].id = work[t].id
    PROVE  OneClaim'
BY DEF OneClaim, Claimed

(* A grant is minted before anybody can have claimed it.                   *)
LEMMA ResultForOneClaim ==
    ASSUME TypeOK, Holding, Private, OneClaim, NEW t \in Threads, ResultFor(t)
    PROVE  OneClaim'
<1>1. minted[work[t].id] = Never /\ work[t].id \in Ids
  BY ResultForMoves DEF Private, Early, Holding
<1>2. UNCHANGED <<clock, used, ran>>
  BY DEF ResultFor
<1>3. \A i \in Ids : minted[i] # Never => minted'[i] = minted[i]
  BY <1>1 DEF ResultFor, TypeOK
<1>4. \A i \in Ids : Claimed(i) => Claimed(i)'
  BY <1>2, <1>3 DEF Claimed
<1>5. \A u \in Threads : work'[u].pc \in {"claim", "tool"} =>
                work'[u].pc = work[u].pc /\ work'[u].id = work[u].id /\ work[u].id \in Ids
  BY ResultForMoves, IdleFrame DEF Holding
<1>6. \A i \in used : i \in Ids
  BY DEF TypeOK
<1> QED BY <1>2, <1>3, <1>4, <1>5, <1>6 DEF OneClaim

(* Checking a grant claims nothing.                                        *)
LEMMA CheckGrantOneClaim ==
    ASSUME TypeOK, OneClaim, NEW t \in Threads, NEW i \in Ids, NEW r \in Proposals,
           CheckGrant(t, i, r)
    PROVE  OneClaim'
<1>1. UNCHANGED <<clock, used, minted, ran>>
  BY CheckGrantMoves DEF store, history
<1>2. clock <= minted[i] + PruneGrace
  <2>1. minted[i] \in Nat /\ clock \in Nat /\ PruneGrace \in Nat
    BY CheckGrantMoves, Deployment DEF TypeOK
  <2> QED BY <2>1, CheckGrantMoves
<1>3. work'[t].pc = "claim" /\ work'[t].id = i /\ minted[i] # Never
  BY CheckGrantMoves
<1>4. \A u \in Threads : u # t => work'[u] = work[u]
  BY CheckGrantMoves
<1> QED BY <1>1, <1>2, <1>3, <1>4 DEF OneClaim, Claimed

(* claim_grant succeeds only for a grant that no thread has claimed.       *)
LEMMA ClaimGrantOneClaim ==
    ASSUME TypeOK, Holding, OneClaim, NEW t \in Threads, ClaimGrant(t)
    PROVE  OneClaim'
<1>0. PICK i \in Ids : i = work[t].id
  BY ClaimGrantMoves DEF Holding
<1>1. UNCHANGED <<clock, minted, ran>> /\ used' = used \cup {i}
  BY <1>0, ClaimGrantMoves DEF history
<1>2. minted[i] \in Nat /\ clock <= minted[i] + PruneGrace
  BY <1>0, ClaimGrantMoves DEF OneClaim, TypeOK
<1>3. \A j \in Ids : Claimed(j) => Claimed(j)'
  BY <1>1 DEF Claimed
<1>4. Claimed(i)'
  BY <1>1, <1>2, Vocabulary DEF Claimed
<1>5. i \notin used => ~Claimed(i)
  <2>1. clock \in Nat /\ PruneGrace \in Nat
    BY Deployment DEF TypeOK
  <2> QED BY <1>2, <2>1 DEF Claimed
<1>6. /\ \A u \in Threads : u # t => work'[u] = work[u]
      /\ \/ work'[t] = Idle
         \/ work'[t].pc = "tool" /\ work'[t].id = i /\ i \notin used
  BY <1>0, ClaimGrantMoves
<1>7. \A u \in Threads : work[u].pc \in {"claim", "tool"} => work[u].id \in Ids
  BY DEF Holding
<1>8. \A u \in Threads : work'[u].pc = "claim" =>
         minted'[work'[u].id] # Never /\ clock' <= minted'[work'[u].id] + PruneGrace
  BY <1>1, <1>6, IdleFrame DEF OneClaim
<1>9. \A u \in Threads : \A j \in Ids : work'[u].pc = "tool" /\ work'[u].id = j =>
         ran'[j] = <<>> /\ Claimed(j)'
  <2> SUFFICES ASSUME NEW u \in Threads, NEW j \in Ids, work'[u].pc = "tool", work'[u].id = j
               PROVE  ran'[j] = <<>> /\ Claimed(j)'
    OBVIOUS
  <2>1. CASE u = t
    <3>1. j = i /\ i \notin used
      BY <1>6, <2>1, IdleFrame
    <3>2. ran[i] = <<>>
      BY <1>5, <3>1 DEF OneClaim
    <3> QED BY <1>1, <1>4, <3>1, <3>2
  <2>2. CASE u # t
    <3>1. Claimed(j) /\ ran[j] = <<>>
      BY <1>6, <2>2 DEF OneClaim
    <3> QED BY <1>1, <1>3, <3>1
  <2> QED BY <2>1, <2>2
<1>10. \A u, v \in Threads :
         work'[u].pc = "tool" /\ work'[v].pc = "tool" /\ work'[u].id = work'[v].id => u = v
  BY <1>5, <1>6, IdleFrame DEF OneClaim
<1>11. (\A j \in Ids : ran'[j] # <<>> => Claimed(j)') /\ (\A j \in used' : minted'[j] # Never)
  BY <1>1, <1>2, <1>3, Vocabulary DEF OneClaim
<1>12. \A u \in Threads : work'[u].pc = "tool" => work'[u].id \in Ids
  BY <1>6, <1>7, IdleFrame
<1> QED BY <1>8, <1>9, <1>10, <1>11, <1>12 DEF OneClaim, Claimed

(* The one claimant becomes the one execution.                             *)
LEMMA RunToolOneClaim ==
    ASSUME TypeOK, Holding, OneClaim, NEW t \in Threads, RunTool(t)
    PROVE  OneClaim'
<1> DEFINE i == work[t].id
<1>1. /\ UNCHANGED <<clock, used, minted>>
      /\ \A u \in Threads : u # t => work'[u] = work[u]
      /\ work'[t].pc = "record"
  BY RunToolMoves
<1>2. work[t].pc = "tool" /\ i \in Ids /\ Claimed(i)
  BY RunToolMoves DEF OneClaim, Holding
<1>3. \A j \in Ids : j # i => ran'[j] = ran[j]
  BY RunToolMoves DEF TypeOK
<1>4. \A j \in Ids : Claimed(j) => Claimed(j)'
  BY <1>1 DEF Claimed
<1>5. \A u \in Threads : work'[u].pc = "tool" => work'[u] = work[u] /\ work[u].id # i
                                                  /\ work[u].id \in Ids
  BY <1>1, <1>2 DEF OneClaim, Holding
<1> HIDE DEF i
<1> QED BY <1>1, <1>2, <1>3, <1>4, <1>5 DEF OneClaim

(* prune forgets claims of expired grants only, which no thread can        *)
(* present successfully any more.                                          *)
LEMMA PruneOneClaim ==
    ASSUME TypeOK, Holding, OneClaim, Prune
    PROVE  OneClaim'
<1>1. /\ UNCHANGED <<clock, minted, ran, work>>
      /\ used' = {i \in used : ~(minted[i] + PruneGrace < clock)}
  BY DEF Prune, history
<1>2. \A i \in Ids : Claimed(i) => Claimed(i)'
  BY <1>1 DEF Claimed
<1>3. \A u \in Threads : work[u].pc = "tool" => work[u].id \in Ids
  BY DEF Holding
<1> QED BY <1>1, <1>2, <1>3 DEF OneClaim

(* Time leaves every thread that is about to claim a grant within the      *)
(* grace of prune, so no claim that still matters can have been            *)
(* forgotten.                                                              *)
LEMMA TickOneClaim ==
    ASSUME TypeOK, Holding, OneClaim, Tick
    PROVE  OneClaim'
<1>1. /\ UNCHANGED <<used, minted, ran, work>> /\ clock' = clock + 1 /\ ClaimsArePrompt
      /\ clock \in Nat
  BY DEF Tick, history, store, TypeOK
<1>2. \A i \in Ids : Claimed(i) => Claimed(i)'
  BY <1>1, ClaimedLasts
<1>3. \A u \in Threads : work[u].pc = "tool" => work[u].id \in Ids
  BY DEF Holding
<1>4. \A u \in Threads : work'[u].pc = "claim" => clock' <= minted'[work'[u].id] + PruneGrace
  BY <1>1 DEF ClaimsArePrompt
<1> QED BY <1>1, <1>2, <1>3, <1>4 DEF OneClaim

(* Layer 2, second half, is inductive.                                     *)
LEMMA StepOneClaim ==
    ASSUME TypeOK, Holding, Private, OneClaim, [Next]_vars
    PROVE  OneClaim'
<1>1. ASSUME NEW t \in Threads, Records(t) PROVE OneClaim'
  BY <1>1, RecordsMoves, IdleFrame, OneClaimKept
<1>2. ASSUME NEW t \in Threads, RecordExecution(t) PROVE OneClaim'
  <2>1. UNCHANGED <<clock, used, minted, ran>>
    BY <1>2, RecordExecutionMoves DEF store, history
  <2> QED BY <1>2, <2>1, RecordExecutionMoves, IdleFrame, OneClaimKept
<1>3. ASSUME NEW t \in Threads, RecordApproval(t) PROVE OneClaim'
  <2>1. UNCHANGED <<clock, used, minted, ran>>
    BY <1>3, RecordApprovalMoves DEF store, history
  <2> QED BY <1>3, <2>1, RecordApprovalMoves, IdleFrame, OneClaimKept
<1>4. ASSUME NEW t \in Threads, Annotate(t) PROVE OneClaim'
  <2>1. UNCHANGED <<clock, used, minted, ran>>
    BY <1>4, AnnotateMoves DEF history
  <2> QED BY <1>4, <2>1, AnnotateMoves, OneClaimKept
<1>5. ASSUME NEW t \in Threads, NEW i \in Ids, NEW who \in Principals, RejectTake(t, i, who)
      PROVE  OneClaim'
  <2>1. UNCHANGED <<clock, used, minted, ran>>
    BY <1>5, RejectTakeMoves DEF history
  <2> QED BY <1>5, <2>1, RejectTakeMoves, OneClaimKept
<1>6. ASSUME NEW h, Crash(h) PROVE OneClaim'
  <2>1. UNCHANGED <<clock, used, minted, ran>>
    BY <1>6, CrashMoves DEF store, history
  <2> QED BY <1>6, <2>1, CrashMoves, IdleFrame, OneClaimKept
<1>7. ASSUME NEW t \in Threads, NEW a \in Agents, Receive(t, a) PROVE OneClaim'
  BY <1>7, OneClaimKept DEF Receive
<1>8. ASSUME UNCHANGED vars PROVE OneClaim'
  BY <1>8, OneClaimKept DEF vars, store, history
<1> QED BY <1>1, <1>2, <1>3, <1>4, <1>5, <1>6, <1>7, <1>8, StepCases, ResultForOneClaim,
           CheckGrantOneClaim, ClaimGrantOneClaim, RunToolOneClaim, PruneOneClaim,
           TickOneClaim, Zenon

(* Only the executor calls tools.                                          *)
LEMMA OnlyRunToolRuns ==
    ASSUME TypeOK, Holding, [Next]_vars, \A t \in Threads : ~RunTool(t)
    PROVE  ran' = ran
<1>1. ASSUME NEW t \in Threads, Records(t) PROVE ran' = ran
  BY <1>1, RecordsMoves
<1>2. ASSUME NEW t \in Threads,
             \/ ResultFor(t) \/ ClaimGrant(t) \/ RecordExecution(t) \/ RecordApproval(t)
             \/ Annotate(t)
             \/ \E i \in Ids, r \in Proposals : CheckGrant(t, i, r)
             \/ \E i \in Ids, who \in Principals : RejectTake(t, i, who)
             \/ \E a \in Agents : Receive(t, a)
      PROVE  ran' = ran
  BY <1>2, Zenon DEF ResultFor, ClaimGrant, RecordExecution, RecordApproval, Annotate,
                     CheckGrant, RejectTake, Receive, history
<1>3. ASSUME (\E h : Crash(h)) \/ Prune \/ Tick \/ UNCHANGED vars PROVE ran' = ran
  BY <1>3, Zenon DEF Crash, Prune, Tick, vars, history
<1> QED BY <1>1, <1>2, <1>3, StepCases, Zenon

(* No step executes a decision for the second time.                        *)
LEMMA StepAtMostOnce ==
    ASSUME TypeOK, Holding, OneClaim, AtMostOnce, [Next]_vars
    PROVE  AtMostOnce'
<1>1. ASSUME NEW t \in Threads, RunTool(t) PROVE AtMostOnce'
  <2>1. /\ work[t].id \in Ids /\ work[t].req \in Request /\ ran[work[t].id] = <<>>
        /\ ran' = [ran EXCEPT ![work[t].id] = Append(@, work[t].req)]
    BY <1>1, RunToolMoves DEF Holding, OneClaim
  <2>2. Len(Append(ran[work[t].id], work[t].req)) = 1
    BY <2>1
  <2>3. \A i \in Ids : IF i = work[t].id THEN Len(ran'[i]) = 1 ELSE ran'[i] = ran[i]
    BY <2>1, <2>2 DEF TypeOK
  <2>4. ASSUME NEW i \in Ids PROVE Len(ran'[i]) <= 1
    <3>1. CASE i = work[t].id
      <4>1. ran'[i] = Append(ran[i], work[t].req)
        BY <2>1, <3>1 DEF TypeOK
      <4> QED BY <2>2, <3>1, <4>1
    <3>2. CASE i # work[t].id
      <4>1. ran'[i] = ran[i]
        BY <2>3, <3>2
      <4> QED BY <4>1, Zenon DEF AtMostOnce
    <3> QED BY <3>1, <3>2
  <2> QED BY <2>4 DEF AtMostOnce
<1>2. ASSUME ran' = ran PROVE AtMostOnce'
  BY <1>2 DEF AtMostOnce
<1> QED BY <1>1, <1>2, OnlyRunToolRuns

----------------------------------------------------------------------------
(* Layer 3: one verdict for an escalation                                  *)

(* A decision that follows an escalation takes it out of the pending       *)
(* approvals in the same step, or had been announced by reject.            *)
LEMMA RecordsOneVerdict ==
    ASSUME TypeOK, Holding, OneVerdict, DecidedOnce, NEW t \in Threads, Records(t)
    PROVE  OneVerdict' /\ DecidedOnce'
<1>1. PICK d \in Decision, s1 \in [ContractIds -> Nat], c1 \in [Keys -> Nat],
           a1 \in [Ids -> Approval], f \in Frame : RecordStep(t, d, s1, c1, a1, f)
  BY DEF Records
<1>2. PICK m \in Ids : m = ids + 1 /\ decisions[m] = NoDecision
  BY <1>1, RecordsMoves
<1>3. /\ d.parent \in Ids \cup {0} /\ d # NoDecision
      /\ d.parent # 0 => decisions[d.parent] # NoDecision /\ d.parent # m
  BY <1>1, <1>2, Deployment DEF RecordStep, Decision
<1>4. \/ decisions' = [decisions EXCEPT ![m] = d] /\ approvals' = a1
      \/ decisions' = decisions
  BY <1>1, <1>2 DEF RecordStep, record
<1>5. /\ \A i \in Ids : i # m => decisions'[i] = decisions[i]
      /\ decisions'[m] = NoDecision \/ (decisions'[m] = d /\ approvals' = a1)
  BY <1>2, <1>4 DEF TypeOK
<1>6. \A u \in Threads : work'[u].pc \in {"reject", "stage2"} =>
         u # t /\ work'[u] = work[u] /\ work[u].id \in Ids /\ work[u].id # m
  <2>1. \A u \in Threads : work'[u].pc \in {"reject", "stage2"} => u # t /\ work'[u] = work[u]
    BY RecordsMoves, IdleFrame
  <2> QED BY <1>2, <2>1 DEF Holding
<1>7. \A i \in Ids : /\ approvals'[i].status # "absent" => approvals[i].status # "absent" /\ i # m
                     /\ approvals[i].status = "decided" => approvals'[i].status = "decided"
  BY <1>2, RecordsMoves DEF Holding
(* the case of a verdict: nobody else has given one, and none can follow *)
<1>8. ASSUME d.parent # 0, decisions[d.parent].decision = "escalate"
      PROVE  /\ a1[d.parent].status = "decided"
             /\ \A u \in Threads : ~(u # t /\ work[u].pc = "reject" /\ work[u].id = d.parent)
             /\ \A i \in Ids : decisions[i] # NoDecision => decisions[i].parent # d.parent
  <2>1. CASE a1 = approvals /\ work[t].pc \in {"stage2", "reject"} /\ d.parent = work[t].id
    <3>1. work[t].pc = "reject"
      BY <1>8, <2>1 DEF OneVerdict
    <3> QED BY <1>8, <2>1, <3>1 DEF OneVerdict
  <2>2. CASE \E who \in Principals :
               may_decide(d.parent, who) /\ a1 = take(d.parent, who, "approve")
    <3>1. approvals[d.parent].status = "pending"
      BY <2>2 DEF may_decide
    <3>2. a1[d.parent].status = "decided"
      BY <1>3, <1>8, <2>2 DEF take, TypeOK
    <3> QED BY <1>8, <3>1, <3>2 DEF OneVerdict
  <2> QED BY <1>1, <1>8, <2>1, <2>2 DEF RecordStep
<1>9. \A i \in Ids : decisions[i] # NoDecision /\ decisions[i].parent # 0 =>
         decisions[i].parent \in Ids /\ decisions[i].parent # m
  BY <1>2 DEF OneVerdict, TypeOK, Decision
<1>10. \A i \in Ids : decisions'[i] # NoDecision /\ decisions'[i].parent # 0 =>
         /\ decisions'[i].parent \in Ids
         /\ decisions'[decisions'[i].parent] = decisions[decisions'[i].parent]
         /\ decisions[decisions'[i].parent] # NoDecision
  BY <1>3, <1>5, <1>9 DEF OneVerdict
<1>11. \A i \in Ids : approvals'[i].status # "absent" => decisions'[i].decision = "escalate"
  BY <1>5, <1>7 DEF OneVerdict
<1>12. \A i \in Ids :
         /\ decisions'[i] # NoDecision /\ decisions'[i].parent # 0
         /\ decisions'[decisions'[i].parent].decision = "escalate"
         => /\ approvals'[decisions'[i].parent].status = "decided"
            /\ \A u \in Threads : ~(work'[u].pc = "reject" /\ work'[u].id = decisions'[i].parent)
  <2> SUFFICES ASSUME NEW i \in Ids, decisions'[i] # NoDecision, decisions'[i].parent # 0,
                      decisions'[decisions'[i].parent].decision = "escalate"
               PROVE  /\ approvals'[decisions'[i].parent].status = "decided"
                      /\ \A u \in Threads :
                           ~(work'[u].pc = "reject" /\ work'[u].id = decisions'[i].parent)
    OBVIOUS
  <2>1. CASE i = m
    BY <1>5, <1>6, <1>8, <1>10, <2>1
  <2>2. CASE i # m
    BY <1>5, <1>6, <1>7, <1>10, <2>2 DEF OneVerdict
  <2> QED BY <2>1, <2>2
<1>13. \A u \in Threads : work'[u].pc = "reject" => approvals'[work'[u].id].status = "decided"
  BY <1>6, <1>7 DEF OneVerdict
<1>14. \A u, v \in Threads :
         work'[u].pc = "reject" /\ work'[v].pc = "reject" /\ work'[u].id = work'[v].id => u = v
  BY <1>6 DEF OneVerdict
<1>15. \A u \in Threads : work'[u].pc = "stage2" => decisions'[work'[u].id].decision = "allow"
  BY <1>5, <1>6 DEF OneVerdict
<1>16. OneVerdict'
  BY <1>10, <1>11, <1>12, <1>13, <1>14, <1>15 DEF OneVerdict
<1>17. \A i, j \in Ids :
         /\ decisions'[i] # NoDecision /\ decisions'[j] # NoDecision
         /\ decisions'[i].parent \in Ids /\ decisions'[i].parent = decisions'[j].parent
         /\ decisions'[decisions'[i].parent].decision = "escalate"
         => i = j
  <2>1. 0 \notin Ids
    BY DEF Ids
  <2>2. \A i, j \in Ids :
          /\ decisions[i] # NoDecision /\ decisions[j] # NoDecision
          /\ decisions[i].parent \in Ids /\ decisions[i].parent = decisions[j].parent
          /\ decisions[decisions[i].parent].decision = "escalate"
          => i = j
    BY DEF DecidedOnce
  <2> QED BY <1>5, <1>8, <1>10, <2>1, <2>2
<1>18. DecidedOnce'
  BY <1>17 DEF DecidedOnce
<1> QED BY <1>16, <1>18

(* A step that records no decision gives no verdict.                       *)
LEMMA OneVerdictKept ==
    ASSUME TypeOK, Holding, OneVerdict, DecidedOnce, UNCHANGED decisions,
           \A i \in Ids : approvals'[i].status = approvals[i].status,
           \A t \in Threads : work'[t].pc \in {"reject", "stage2"} =>
                work'[t].pc = work[t].pc /\ work'[t].id = work[t].id
    PROVE  OneVerdict' /\ DecidedOnce'
<1>1. \A t \in Threads : work'[t].pc \in {"reject", "stage2"} =>
                work'[t].pc = work[t].pc /\ work'[t].id = work[t].id /\ work[t].id \in Ids
  BY DEF Holding
<1>2. \A i \in Ids : decisions[i] # NoDecision => decisions[i].parent \in Ids \cup {0}
  BY DEF TypeOK, Decision
<1>3. OneVerdict'
  BY <1>1, <1>2 DEF OneVerdict
<1>4. DecidedOnce'
  BY DEF DecidedOnce
<1> QED BY <1>3, <1>4

(* A new pending approval has no verdict yet.                              *)
LEMMA ResultForOneVerdict ==
    ASSUME TypeOK, Holding, Private, OneVerdict, DecidedOnce, NEW t \in Threads, ResultFor(t)
    PROVE  OneVerdict' /\ DecidedOnce'
<1>1. PICK m \in Ids : m = work[t].id /\ approvals[m].status = "absent"
  BY ResultForMoves DEF Private, Early, Holding
<1>2. UNCHANGED decisions
  BY DEF ResultFor
<1>3. /\ \A i \in Ids : i # m => approvals'[i] = approvals[i]
      /\ \/ approvals'[m] = approvals[m]
         \/ decisions[m].decision = "escalate"
  BY <1>1 DEF ResultFor, TypeOK
<1>4. \A i \in Ids : approvals[i].status = "decided" => approvals'[i].status = "decided"
  BY <1>1, <1>3
<1>5. \A u \in Threads : work'[u].pc = "reject" => work'[u] = work[u] /\ work[u].id \in Ids
  BY ResultForMoves, IdleFrame DEF Holding
<1>6. \A u \in Threads : work'[u].pc = "stage2" => decisions[work'[u].id].decision = "allow"
  BY ResultForMoves, IdleFrame DEF OneVerdict
<1>7. \A i \in Ids : decisions[i] # NoDecision => decisions[i].parent \in Ids \cup {0}
  BY DEF TypeOK, Decision
<1>8. \A i \in Ids : approvals'[i].status # "absent" => decisions[i].decision = "escalate"
  BY <1>3 DEF OneVerdict
<1>9. OneVerdict'
  BY <1>2, <1>4, <1>5, <1>6, <1>7, <1>8 DEF OneVerdict
<1>10. DecidedOnce'
  BY <1>2 DEF DecidedOnce
<1> QED BY <1>9, <1>10

(* reject takes only a pending approval, which no other verdict follows.   *)
LEMMA RejectTakeOneVerdict ==
    ASSUME TypeOK, Holding, OneVerdict, DecidedOnce, NEW t \in Threads, NEW i \in Ids,
           NEW who \in Principals, RejectTake(t, i, who)
    PROVE  OneVerdict' /\ DecidedOnce'
<1>1. UNCHANGED decisions
  BY RejectTakeMoves DEF history
<1>2. /\ approvals[i].status = "pending" /\ approvals'[i].status = "decided"
      /\ \A j \in Ids : j # i => approvals'[j] = approvals[j]
      /\ work'[t].pc = "reject" /\ work'[t].id = i
      /\ \A u \in Threads : u # t => work'[u] = work[u]
  BY RejectTakeMoves
<1>3. \A j \in Ids : decisions[j] # NoDecision => decisions[j].parent \in Ids \cup {0}
  BY DEF TypeOK, Decision
<1>4. \A u \in Threads : work[u].pc \in {"reject", "stage2"} => work[u].id \in Ids
  BY DEF Holding
<1>5. \A u \in Threads : work[u].pc = "reject" => work[u].id # i
  BY <1>2 DEF OneVerdict
<1>6. \A j \in Ids : /\ decisions[j] # NoDecision /\ decisions[j].parent # 0
                     /\ decisions[decisions[j].parent].decision = "escalate"
                     => decisions[j].parent # i
  BY <1>2 DEF OneVerdict
<1>7. \A j \in Ids :
         /\ decisions[j] # NoDecision /\ decisions[j].parent # 0
         /\ decisions[decisions[j].parent].decision = "escalate"
         => /\ approvals'[decisions[j].parent].status = "decided"
            /\ \A u \in Threads : ~(work'[u].pc = "reject" /\ work'[u].id = decisions[j].parent)
  BY <1>2, <1>3, <1>6 DEF OneVerdict
<1>8. /\ \A u \in Threads : work'[u].pc = "reject" => approvals'[work'[u].id].status = "decided"
      /\ \A u, v \in Threads :
         work'[u].pc = "reject" /\ work'[v].pc = "reject" /\ work'[u].id = work'[v].id => u = v
  BY <1>2, <1>4, <1>5 DEF OneVerdict
<1>9. \A u \in Threads : work'[u].pc = "stage2" => decisions[work'[u].id].decision = "allow"
  BY <1>2 DEF OneVerdict
<1>10. \A j \in Ids : approvals'[j].status # "absent" => decisions[j].decision = "escalate"
  BY <1>2 DEF OneVerdict
<1>11. OneVerdict'
  BY <1>1, <1>7, <1>8, <1>9, <1>10 DEF OneVerdict
<1>12. DecidedOnce'
  BY <1>1 DEF DecidedOnce
<1> QED BY <1>11, <1>12

(* Layer 3 is inductive.                                                   *)
LEMMA StepOneVerdict ==
    ASSUME TypeOK, Holding, Private, OneVerdict, DecidedOnce, [Next]_vars
    PROVE  OneVerdict' /\ DecidedOnce'
<1>1. ASSUME NEW t \in Threads, NEW i \in Ids, NEW r \in Proposals, CheckGrant(t, i, r)
      PROVE  OneVerdict' /\ DecidedOnce'
  <2>1. UNCHANGED <<decisions, approvals>>
    BY <1>1, CheckGrantMoves DEF store, history
  <2> QED BY <1>1, <2>1, CheckGrantMoves, OneVerdictKept
<1>2. ASSUME NEW t \in Threads, ClaimGrant(t) PROVE OneVerdict' /\ DecidedOnce'
  <2>1. UNCHANGED <<decisions, approvals>>
    BY <1>2, ClaimGrantMoves DEF history
  <2> QED BY <1>2, <2>1, ClaimGrantMoves, IdleFrame, OneVerdictKept
<1>3. ASSUME NEW t \in Threads, RunTool(t) PROVE OneVerdict' /\ DecidedOnce'
  BY <1>3, RunToolMoves, OneVerdictKept
<1>4. ASSUME NEW t \in Threads, RecordExecution(t) PROVE OneVerdict' /\ DecidedOnce'
  <2>1. UNCHANGED <<decisions, approvals>>
    BY <1>4, RecordExecutionMoves DEF store, history
  <2> QED BY <1>4, <2>1, RecordExecutionMoves, IdleFrame, OneVerdictKept
<1>5. ASSUME NEW t \in Threads, RecordApproval(t) PROVE OneVerdict' /\ DecidedOnce'
  <2>1. UNCHANGED <<decisions, approvals>>
    BY <1>5, RecordApprovalMoves DEF store, history
  <2> QED BY <1>5, <2>1, RecordApprovalMoves, IdleFrame, OneVerdictKept
<1>6. ASSUME NEW t \in Threads, Annotate(t) PROVE OneVerdict' /\ DecidedOnce'
  <2>1. UNCHANGED decisions /\ \A i \in Ids : approvals'[i].status = approvals[i].status
    BY <1>6, AnnotateMoves, AnnotateApprovals DEF history
  <2> QED BY <1>6, <2>1, AnnotateMoves, OneVerdictKept
<1>7. ASSUME NEW h, Crash(h) PROVE OneVerdict' /\ DecidedOnce'
  <2>1. UNCHANGED <<decisions, approvals>>
    BY <1>7, CrashMoves DEF store, history
  <2> QED BY <1>7, <2>1, CrashMoves, IdleFrame, OneVerdictKept
<1>8. ASSUME UNCHANGED <<decisions, approvals, work>> PROVE OneVerdict' /\ DecidedOnce'
  BY <1>8, OneVerdictKept
<1>9. ASSUME NEW t \in Threads, NEW a \in Agents, Receive(t, a)
      PROVE  OneVerdict' /\ DecidedOnce'
  BY <1>8, <1>9 DEF Receive
<1>10. ASSUME Prune \/ Tick \/ UNCHANGED vars PROVE OneVerdict' /\ DecidedOnce'
  BY <1>8, <1>10 DEF Prune, Tick, vars, store, history
<1> QED BY <1>1, <1>2, <1>3, <1>4, <1>5, <1>6, <1>7, <1>9, <1>10, StepCases,
           RecordsOneVerdict, ResultForOneVerdict, RejectTakeOneVerdict, Zenon

----------------------------------------------------------------------------
(* The inductive invariant as a whole, and what it implies                 *)

IInv == TypeOK /\ Holding /\ Private /\ OneClaim /\ AtMostOnce /\ OneVerdict /\ DecidedOnce

(* The invariant holds of the empty stores.                                *)
LEMMA InitIInv == Init => IInv
<1> SUFFICES ASSUME Init PROVE IInv
  OBVIOUS
<1>1. \A t \in Threads : work[t] = Idle
  BY DEF Init
<1>2. \A i \in Ids : /\ decisions[i] = NoDecision /\ minted[i] = Never /\ ran[i] = <<>>
                     /\ approvals[i].status = "absent"
  BY DEF Init, Absent, Pristine
<1>3. used = {}
  BY DEF Init
<1>4. Private
  BY <1>1, IdleFrame DEF Private, Early
<1>5. OneClaim
  BY <1>1, <1>2, <1>3, IdleFrame DEF OneClaim
<1>6. AtMostOnce
  BY <1>2 DEF AtMostOnce
<1>7. OneVerdict /\ DecidedOnce
  BY <1>1, <1>2, IdleFrame DEF OneVerdict, DecidedOnce
<1> QED BY <1>4, <1>5, <1>6, <1>7, InitTyped DEF IInv

(* The whole inductive invariant: the types, what a thread may hold, that  *)
(* an undisclosed decision is held by one thread, that a grant has one     *)
(* claimant, and that an escalation has one verdict (core.py, executor.py  *)
(* and interceptor.py on a store with transactions).                       *)
THEOREM HarnessInvariant == Spec => []IInv
<1>1. Init => IInv
  BY InitIInv
<1>2. IInv /\ [Next]_vars => IInv'
  BY StepTyped, StepPrivate, StepOneClaim, StepAtMostOnce, StepOneVerdict DEF IInv
<1> QED BY <1>1, <1>2, PTL DEF Spec

(* A grant runs its tool at most once: for any number of threads and       *)
(* replicas that present it or replay it, any number of failed writes and  *)
(* crashes, and although prune forgets old claims, as long as no thread    *)
(* stalls for prune's grace between the expiry check and the claim.        *)
THEOREM GrantsRunOnce == Spec => []AtMostOnce
BY HarnessInvariant, PTL DEF IInv

(* An escalation is decided at most once, whoever approves and rejects it  *)
(* at the same time on whatever replicas, and whatever fails in between.   *)
THEOREM EscalationsDecidedOnce == Spec => []DecidedOnce
BY HarnessInvariant, PTL DEF IInv

----------------------------------------------------------------------------
(* On whose authority the harness acts, for any deployment: what a tool is *)
(* called with was decided, audited, within its contract and, where the    *)
(* contract asks for it, approved by a human; messages and delegations go  *)
(* back to a capability that names them; verdicts are final; budgets hold. *)
(* The layers here build on the inductive invariant IInv.                  *)

(* What a decision rests on, by the five actions that take one.            *)

(* decide: the policy's verdict on the counters and the clock as they are, *)
(* a step for the contract and, if allowed, a call for the action.         *)
Judges(d, s1, c1) ==
    LET ev == evaluate(d.request, usage_for(d.request), clock)
    IN  /\ d.decision = ev.decision /\ d.reason = ev.reason /\ d.approved_by = None
        /\ s1 = add_step(d.request.agent_id)
        /\ c1 = add_call(d.request, d.decision)

Proposes(t, d, s1, c1, a1, f) ==
    /\ Judges(d, s1, c1) /\ a1 = approvals
    /\ work[t] = Idle /\ f.pc = "result"
    /\ d.parent = 0 /\ d.delegated_by = None

Delegates(t, d, s1, c1, a1, f) ==
    /\ Judges(d, s1, c1) /\ a1 = approvals
    /\ work[t].pc = "stage2" /\ f.pc = "result"
    /\ d.parent = work[t].id
    /\ d.request = delegated_action(decisions[work[t].id].request)
    /\ d.delegated_by = decisions[work[t].id].request.agent_id

Refuses(t, d, s1, c1, a1, f) ==
    /\ s1 = steps /\ c1 = calls /\ a1 = approvals
    /\ work[t] = Idle /\ f = Idle
    /\ d.decision = "deny" /\ d.reason \in {"MALFORMED_REQUEST", "IDENTITY_MISMATCH"}
    /\ d.parent = 0 /\ d.delegated_by = None /\ d.approved_by = None

Denies(t, d, s1, c1, a1, f) ==
    /\ s1 = steps /\ c1 = calls /\ a1 = approvals
    /\ work[t].pc = "reject" /\ f.pc = "annotate"
    /\ d.decision = "deny" /\ d.reason = "APPROVAL_REJECTED"
    /\ d.parent = work[t].id /\ d.approved_by = None
    /\ d.request = decisions[work[t].id].request
    /\ d.delegated_by = decisions[work[t].id].delegated_by

Approves(t, d, s1, c1, a1, f) ==
    LET ev == evaluate(d.request, usage_for(d.request), clock)
    IN  /\ s1 = steps /\ c1 = add_call(d.request, d.decision)
        /\ work[t] = Idle /\ f.pc = "approval"
        /\ d.parent \in Ids
        /\ d.request = decisions[d.parent].request
        /\ d.delegated_by = decisions[d.parent].delegated_by
        /\ d.reason = IF ev.decision = "escalate" THEN "APPROVED_BY_HUMAN" ELSE ev.reason
        /\ \E who \in Principals :
             /\ may_decide(d.parent, who) /\ a1 = take(d.parent, who, "approve")
             /\ \/ ev.decision # "deny" /\ d.decision = "allow" /\ d.approved_by = who
                \/ ev.decision = "deny" /\ d.decision = "deny" /\ d.approved_by = None

Decides(t, d, s1, c1, a1, f) ==
    /\ record(t, d, s1, c1, a1, f)
    /\ f = Idle \/ f.id = ids + 1
    /\ \/ Proposes(t, d, s1, c1, a1, f)
       \/ Delegates(t, d, s1, c1, a1, f)
       \/ Refuses(t, d, s1, c1, a1, f)
       \/ Denies(t, d, s1, c1, a1, f)
       \/ Approves(t, d, s1, c1, a1, f)

SomeDecision(t) ==
    \E d \in Decision, s1 \in [ContractIds -> Nat], c1 \in [Keys -> Nat],
       a1 \in [Ids -> Approval], f \in Frame : Decides(t, d, s1, c1, a1, f)

(* decide, with what it judges by.                                         *)
LEMMA DecideDecides ==
    ASSUME TypeOK, NEW t \in Threads, NEW r \in Request,
           NEW op \in {"authorize", "delegate", "stage2"},
           NEW by \in Agents \cup {None}, NEW parent \in Ids \cup {0},
           decide(t, r, op, by, parent),
           \/ work[t] = Idle /\ parent = 0 /\ by = None
           \/ /\ work[t].pc = "stage2" /\ parent = work[t].id
              /\ r = delegated_action(decisions[work[t].id].request)
              /\ by = decisions[work[t].id].request.agent_id
    PROVE  SomeDecision(t)
<1> DEFINE ev == evaluate(r, usage_for(r), clock)
           d  == [request |-> r, decision |-> ev.decision, reason |-> ev.reason,
                  delegated_by |-> by, parent |-> parent, approved_by |-> None]
           f  == At("result", op, ids + 1, NoRequest)
<1>1. record(t, d, add_step(r.agent_id), add_call(r, ev.decision), approvals, f)
  BY Zenon DEF decide
<1>2. ev \in Evaluation
  BY EvaluateType
<1>3. d \in Decision
  <2> HIDE DEF ev
  <2> QED BY <1>2 DEF Decision, Evaluation
<1>4. ids + 1 \in Ids
  BY <1>1, Deployment DEF record, TypeOK, Ids
<1>5. f \in Frame /\ f.pc = "result" /\ f.id = ids + 1
  BY <1>4, AtFrame DEF Steps
<1>6. approvals \in [Ids -> Approval]
  BY DEF TypeOK
<1>7. /\ d.request = r /\ d.decision = ev.decision /\ d.reason = ev.reason
      /\ d.delegated_by = by /\ d.parent = parent /\ d.approved_by = None
  BY Zenon
<1> HIDE DEF d
<1>8. Judges(d, add_step(r.agent_id), add_call(r, ev.decision))
  BY <1>7 DEF Judges
<1> HIDE DEF ev, f
<1>9. Decides(t, d, add_step(r.agent_id), add_call(r, ev.decision), approvals, f)
  <2>1. record(t, d, add_step(r.agent_id), add_call(r, ev.decision), approvals, f)
    BY <1>1 DEF d
  <2> QED BY <1>5, <1>7, <1>8, <2>1, Zenon DEF Decides, Proposes, Delegates
<1> QED BY <1>3, <1>5, <1>6, <1>9, CountersType DEF SomeDecision

(* A proposal, as a decision.                                              *)
LEMMA ProposeDecides ==
    ASSUME TypeOK, NEW t \in Threads, NEW r \in Proposals,
           NEW op \in {"authorize", "delegate"}, Propose(t, r, op)
    PROVE  SomeDecision(t)
BY DecideDecides, Deployment DEF Propose

(* reject_before_policy, as a decision.                                    *)
LEMMA RejectBeforePolicyDecides ==
    ASSUME TypeOK, NEW t \in Threads, NEW r \in Proposals, RejectBeforePolicy(t, r)
    PROVE  SomeDecision(t)
<1> DEFINE q == [r EXCEPT !.arguments = NoArguments, !.contract_id = None]
           d(reason) == [request |-> q, decision |-> "deny", reason |-> reason,
                         delegated_by |-> None, parent |-> 0, approved_by |-> None]
<1>1. PICK reason \in {"MALFORMED_REQUEST", "IDENTITY_MISMATCH"} :
         record(t, d(reason), steps, calls, approvals, Idle)
  BY DEF RejectBeforePolicy
<1>2. q \in Request
  BY Deployment DEF Request
<1>3. /\ d(reason) \in Decision /\ d(reason).parent = 0 /\ d(reason).decision = "deny"
      /\ d(reason).reason = reason
      /\ d(reason).delegated_by = None /\ d(reason).approved_by = None
  <2> HIDE DEF q
  <2> QED BY <1>2 DEF Decision, Effects, ReasonCode
<1>4. Idle \in Frame
  BY IdleFrame
<1> HIDE DEF d
<1>5. Decides(t, d(reason), steps, calls, approvals, Idle)
  BY <1>1, <1>3 DEF Decides, Refuses, RejectBeforePolicy
<1> QED BY <1>3, <1>4, <1>5 DEF SomeDecision, TypeOK

(* The second stage of a delegation, as a decision.                        *)
LEMMA DelegatedStageDecides ==
    ASSUME TypeOK, Holding, NEW t \in Threads, DelegatedStage(t)
    PROVE  SomeDecision(t)
<1>1. work[t].pc = "stage2" /\ work[t].id \in Ids /\ decisions[work[t].id] # NoDecision
  BY DEF DelegatedStage, Holding
<1>2. decisions[work[t].id] \in Decision
  BY <1>1 DEF TypeOK
<1>3. decisions[work[t].id].request \in Request
  BY <1>2 DEF Decision
<1>4. delegated_action(decisions[work[t].id].request) \in Request
  BY <1>3, DelegatedType
<1>5. decisions[work[t].id].request.agent_id \in Agents \cup {None}
  BY <1>3 DEF Request
<1>6. decide(t, delegated_action(decisions[work[t].id].request), "stage2",
             decisions[work[t].id].request.agent_id, work[t].id)
  BY DEF DelegatedStage
<1> QED BY <1>1, <1>4, <1>5, <1>6, DecideDecides

(* approve's transaction, as a decision.                                   *)
LEMMA ApproveDecides ==
    ASSUME TypeOK, Holding, NEW t \in Threads, NEW i \in Ids, NEW who \in Principals,
           Approve(t, i, who)
    PROVE  SomeDecision(t)
<1> DEFINE p  == decisions[i]
           ev == evaluate(p.request, usage_for(p.request), clock)
           allowed == ev.decision # "deny"
           d  == [request |-> p.request,
                  decision |-> IF allowed THEN "allow" ELSE "deny",
                  reason |-> IF ev.decision = "escalate" THEN "APPROVED_BY_HUMAN" ELSE ev.reason,
                  delegated_by |-> p.delegated_by, parent |-> i,
                  approved_by |-> IF allowed THEN who ELSE None]
           f  == At("approval", "approve", ids + 1, NoRequest)
<1>1. /\ work[t] = Idle
      /\ may_decide(i, who)
      /\ record(t, d, steps, add_call(p.request, d.decision), take(i, who, "approve"), f)
  BY Zenon DEF Approve
<1>2. p # NoDecision
  BY <1>1 DEF may_decide, Holding
<1>3. p.request \in Request /\ p.delegated_by \in Agents \cup {None}
  BY <1>2 DEF TypeOK, Decision
<1>4. ev.decision \in Effects /\ ev.reason \in ReasonCode
  BY EvaluateType DEF Evaluation
<1>5. ids + 1 \in Ids
  BY <1>1, Deployment DEF record, TypeOK, Ids
<1>6. f \in Frame /\ f.pc = "approval" /\ f.id = ids + 1
  BY <1>5, AtFrame DEF Steps
<1>7. d \in Decision
  <2> HIDE DEF ev, p
  <2> QED BY <1>3, <1>4 DEF Decision, Effects, ReasonCode
<1>8. /\ d.request = p.request /\ d.delegated_by = p.delegated_by /\ d.parent = i
      /\ d.reason = IF ev.decision = "escalate" THEN "APPROVED_BY_HUMAN" ELSE ev.reason
      /\ \/ ev.decision # "deny" /\ d.decision = "allow" /\ d.approved_by = who
         \/ ev.decision = "deny" /\ d.decision = "deny" /\ d.approved_by = None
  <2> HIDE DEF ev, p
  <2> QED OBVIOUS
<1>9. take(i, who, "approve") \in [Ids -> Approval]
  BY TakeType
<1> HIDE DEF d, f
<1>10. Approves(t, d, steps, add_call(p.request, d.decision), take(i, who, "approve"), f)
  BY <1>1, <1>6, <1>8, Zenon DEF Approves
<1>11. Decides(t, d, steps, add_call(p.request, d.decision), take(i, who, "approve"), f)
  BY <1>1, <1>6, <1>10, Zenon DEF Decides
<1> QED BY <1>6, <1>7, <1>9, <1>11, CountersType DEF SomeDecision, TypeOK

(* The second half of reject, as a decision.                               *)
LEMMA RejectRecordDecides ==
    ASSUME TypeOK, Holding, NEW t \in Threads, RejectRecord(t)
    PROVE  SomeDecision(t)
<1> DEFINE w == work[t]
           p == decisions[w.id]
           d == [request |-> p.request, decision |-> "deny",
                 reason |-> "APPROVAL_REJECTED", delegated_by |-> p.delegated_by,
                 parent |-> w.id, approved_by |-> None]
           f == At("annotate", "reject", ids + 1, NoRequest)
<1>1. w.pc = "reject" /\ record(t, d, steps, calls, approvals, f)
  BY DEF RejectRecord
<1>2. w.id \in Ids /\ p # NoDecision
  BY <1>1 DEF Holding
<1>3. p.request \in Request /\ p.delegated_by \in Agents \cup {None}
  BY <1>2 DEF TypeOK, Decision
<1>4. ids + 1 \in Ids
  BY <1>1, Deployment DEF record, TypeOK, Ids
<1>5. f \in Frame /\ f.pc = "annotate" /\ f.id = ids + 1
  BY <1>4, AtFrame DEF Steps
<1>6. d \in Decision
  <2> HIDE DEF p, w
  <2> QED BY <1>2, <1>3 DEF Decision, Effects, ReasonCode
<1>7. /\ d.request = p.request /\ d.delegated_by = p.delegated_by /\ d.parent = w.id
      /\ d.decision = "deny" /\ d.reason = "APPROVAL_REJECTED" /\ d.approved_by = None
  BY Zenon
<1> HIDE DEF d, f
<1>8. Decides(t, d, steps, calls, approvals, f)
  BY <1>1, <1>5, <1>7, Zenon DEF Decides, Denies
<1> QED BY <1>5, <1>6, <1>8 DEF SomeDecision, TypeOK

(* The steps of Next, with what each decision rests on.                    *)
LEMMA AuthorityCases ==
    ASSUME TypeOK, Holding, [Next]_vars
    PROVE  \/ \E t \in Threads :
                \/ SomeDecision(t) /\ Records(t)
                \/ ResultFor(t) \/ ClaimGrant(t) \/ RunTool(t)
                \/ RecordExecution(t) \/ RecordApproval(t) \/ Annotate(t)
                \/ \E i \in Ids, r \in Proposals : CheckGrant(t, i, r)
                \/ \E i \in Ids, who \in Principals : RejectTake(t, i, who)
                \/ \E a \in Agents : Receive(t, a)
           \/ \E h : Crash(h)
           \/ Prune
           \/ Tick
           \/ UNCHANGED vars
BY ProposeRecords, RejectBeforePolicyRecords, DelegatedStageRecords, ApproveRecords,
   RejectRecordRecords, ProposeDecides, RejectBeforePolicyDecides, DelegatedStageDecides,
   ApproveDecides, RejectRecordDecides, Zenon DEF Next

(* What one thread does moves no other.                                    *)
LEMMA OtherThread ==
    ASSUME TypeOK, Holding, NEW t \in Threads, NEW u \in Threads, t # u,
           \/ Records(t) \/ ResultFor(t) \/ ClaimGrant(t) \/ RunTool(t)
           \/ RecordExecution(t) \/ RecordApproval(t) \/ Annotate(t)
           \/ \E i \in Ids, r \in Proposals : CheckGrant(t, i, r)
           \/ \E i \in Ids, who \in Principals : RejectTake(t, i, who)
    PROVE  work'[u] = work[u]
<1>1. CASE Records(t) \/ ResultFor(t)
  BY <1>1, RecordsMoves, ResultForMoves
<1>2. CASE ClaimGrant(t) \/ RunTool(t) \/ RecordExecution(t)
  BY <1>2, ClaimGrantMoves, RunToolMoves, RecordExecutionMoves
<1>3. CASE RecordApproval(t) \/ Annotate(t)
  BY <1>3, RecordApprovalMoves, AnnotateMoves
<1>4. CASE \/ \E i \in Ids, r \in Proposals : CheckGrant(t, i, r)
           \/ \E i \in Ids, who \in Principals : RejectTake(t, i, who)
  BY <1>4, CheckGrantMoves, RejectTakeMoves
<1> QED BY <1>1, <1>2, <1>3, <1>4, Zenon

(* Where a thread may go in one step.                                      *)
LEMMA ThreadSteps ==
    ASSUME TypeOK, Holding, [Next]_vars, NEW u \in Threads
    PROVE  \/ work'[u] = work[u] \/ work'[u] = Idle
           \/ SomeDecision(u) /\ Records(u)
           \/ ResultFor(u) \/ ClaimGrant(u) \/ RunTool(u) \/ RecordApproval(u) \/ Annotate(u)
           \/ \E i \in Ids, r \in Proposals : CheckGrant(u, i, r)
           \/ \E i \in Ids, who \in Principals : RejectTake(u, i, who)
<1>1. ASSUME RecordExecution(u) PROVE work'[u] = Idle
  BY <1>1, RecordExecutionMoves
<1>2. ASSUME NEW h, Crash(h) PROVE work'[u] = work[u] \/ work'[u] = Idle
  BY <1>2, CrashMoves
<1>3. ASSUME Prune \/ Tick \/ UNCHANGED vars \/ \E t \in Threads, a \in Agents : Receive(t, a)
      PROVE  work' = work
  BY <1>3, Zenon DEF Prune, Tick, vars, Receive
<1> QED BY <1>1, <1>2, <1>3, AuthorityCases, OtherThread, Zenon

----------------------------------------------------------------------------
(* What a step leaves alone                                                *)

Taken(i) == decisions[i] # NoDecision

(* A decision is committed, with everything its transaction does, or lost: *)
(* then only the trail may have it, and only a store that does not roll    *)
(* back keeps the rest.                                                    *)
Committed(t, d, s1, c1, a1, f) ==
    /\ decisions'[ids + 1] = d /\ audited'[ids + 1] = d /\ ids' = ids + 1
    /\ steps' = s1 /\ calls' = c1 /\ approvals' = a1
    /\ work'[t] = f /\ faults' = faults

Lost(t, s1, c1, a1) ==
    /\ decisions' = decisions /\ ids' \in {ids, ids + 1}
    /\ \/ UNCHANGED <<steps, calls, approvals>>
       \/ ~Durable /\ steps' = s1 /\ calls' = c1 /\ approvals' = a1
    /\ work'[t] = Idle /\ faults' = faults + 1

(* record, seen from the decisions there are: the earlier ones stay.       *)
LEMMA DecisionOutcome ==
    ASSUME TypeOK, Holding, NEW t \in Threads, NEW d \in Decision, NEW s1, NEW c1, NEW a1,
           NEW f \in Frame, Decides(t, d, s1, c1, a1, f)
    PROVE  /\ ids \in Nat /\ ids + 1 \in Ids /\ decisions[ids + 1] = NoDecision
           /\ UNCHANGED <<clock, used, mailbox, executions, verdicts, minted, ran, received>>
           /\ \A i \in Ids : i # ids + 1 => decisions'[i] = decisions[i]
           /\ \A i \in Ids : i # ids + 1 => audited'[i] = audited[i]
           /\ \A u \in Threads : u # t => work'[u] = work[u]
           /\ Committed(t, d, s1, c1, a1, f) \/ Lost(t, s1, c1, a1)
<1>1. record(t, d, s1, c1, a1, f)
  BY DEF Decides
<1>2. ids \in Nat /\ ids + 1 \in Ids /\ ids + 1 > ids
  BY <1>1, Deployment DEF record, TypeOK, Ids
<1>3. decisions[ids + 1] = NoDecision
  BY <1>2 DEF Holding
<1>4. UNCHANGED <<clock, used, mailbox, executions, verdicts, minted, ran, received>>
  BY <1>1 DEF record
<1>5. CASE /\ steps' = s1 /\ calls' = c1 /\ approvals' = a1
           /\ ids' = ids + 1
           /\ audited' = [audited EXCEPT ![ids + 1] = d]
           /\ decisions' = [decisions EXCEPT ![ids + 1] = d]
           /\ Goto(t, f)
           /\ UNCHANGED faults
  <2>1. work'[t] = f /\ \A u \in Threads : u # t => work'[u] = work[u]
    BY <1>5, Moved
  <2>2. decisions'[ids + 1] = d /\ \A i \in Ids : i # ids + 1 => decisions'[i] = decisions[i]
    BY <1>2, <1>5 DEF TypeOK
  <2>3. audited'[ids + 1] = d /\ \A i \in Ids : i # ids + 1 => audited'[i] = audited[i]
    BY <1>2, <1>5 DEF TypeOK
  <2> QED BY <1>2, <1>3, <1>4, <1>5, <2>1, <2>2, <2>3, Zenon DEF Committed
<1>6. CASE /\ Fault
           /\ IF Durable
                 THEN UNCHANGED <<steps, calls, approvals>>
                 ELSE steps' = s1 /\ calls' = c1 /\ approvals' = a1
           /\ \/ UNCHANGED <<ids, audited>>
              \/ ids' = ids + 1 /\ audited' = [audited EXCEPT ![ids + 1] = d]
           /\ Goto(t, Idle)
           /\ UNCHANGED decisions
  <2>1. work'[t] = Idle /\ \A u \in Threads : u # t => work'[u] = work[u]
    BY <1>6, Moved, IdleFrame
  <2>2. \A i \in Ids : i # ids + 1 => audited'[i] = audited[i]
    BY <1>2, <1>6 DEF TypeOK
  <2>3. Lost(t, s1, c1, a1)
    BY <1>6, <2>1, Zenon DEF Lost, Fault
  <2> QED BY <1>2, <1>3, <1>4, <1>6, <2>1, <2>2, <2>3, Zenon
<1> QED BY <1>1, <1>5, <1>6, Zenon DEF record

(* Any other step decides, counts and audits nothing.                      *)
Quiet == UNCHANGED <<steps, calls, audited, ids, decisions>>

(* A step of a thread either takes one of the decisions or is quiet.        *)
LEMMA DecidesOrQuiet ==
    ASSUME TypeOK, Holding, [Next]_vars
    PROVE  Quiet \/ \E t \in Threads : SomeDecision(t) /\ Records(t)
<1>1. ASSUME NEW t \in Threads,
             \/ ResultFor(t) \/ ClaimGrant(t) \/ RunTool(t)
             \/ RecordExecution(t) \/ RecordApproval(t) \/ Annotate(t)
             \/ \E i \in Ids, r \in Proposals : CheckGrant(t, i, r)
             \/ \E i \in Ids, who \in Principals : RejectTake(t, i, who)
             \/ \E a \in Agents : Receive(t, a)
      PROVE  Quiet
  BY <1>1, Zenon DEF ResultFor, ClaimGrant, RunTool, RecordExecution, RecordApproval,
       Annotate, CheckGrant, RejectTake, Receive, store, trail, history, Quiet
<1>2. ASSUME (\E h : Crash(h)) \/ Prune \/ Tick \/ UNCHANGED vars PROVE Quiet
  BY <1>2, Zenon DEF Crash, Prune, Tick, vars, store, trail, history, Quiet
<1> QED BY <1>1, <1>2, AuthorityCases, Zenon

(* A decision, once taken, and its record stay as they are.                *)
LEMMA TakenStays ==
    ASSUME TypeOK, Holding, [Next]_vars, NEW i \in Ids, Taken(i)
    PROVE  decisions'[i] = decisions[i] /\ audited'[i] = audited[i]
<1>1. ASSUME NEW t \in Threads, SomeDecision(t)
      PROVE  decisions'[i] = decisions[i] /\ audited'[i] = audited[i]
  BY <1>1, DecisionOutcome DEF SomeDecision, Taken
<1> QED BY <1>1, DecidesOrQuiet DEF Quiet

(* What becomes of the approvals in a decision's transaction.              *)
LEMMA DecisionTakes ==
    ASSUME TypeOK, NEW t \in Threads, NEW d \in Decision, NEW s1, NEW c1, NEW a1,
           NEW f \in Frame, Decides(t, d, s1, c1, a1, f)
    PROVE  \A i \in Ids :
             \/ a1[i] = approvals[i]
             \/ /\ i = d.parent /\ approvals[i].status = "pending"
                /\ a1[i].status = "decided" /\ a1[i].verb = "approve"
                /\ a1[i].verdict = approvals[i].verdict
<1>1. ASSUME NEW who \in Principals, may_decide(d.parent, who), d.parent \in Ids,
             a1 = take(d.parent, who, "approve"), NEW i \in Ids
      PROVE  \/ a1[i] = approvals[i]
             \/ /\ i = d.parent /\ approvals[i].status = "pending"
                /\ a1[i].status = "decided" /\ a1[i].verb = "approve"
                /\ a1[i].verdict = approvals[i].verdict
  BY <1>1 DEF may_decide, take, TypeOK
<1>2. CASE a1 = approvals
  BY <1>2
<1> QED BY <1>1, <1>2, Zenon DEF Decides, Proposes, Delegates, Refuses, Denies, Approves

(* A taken approval keeps who took it, and how, for ever.                  *)
LEMMA DecidedStays ==
    ASSUME TypeOK, Holding, Private, [Next]_vars, NEW i \in Ids,
           approvals[i].status = "decided"
    PROVE  /\ approvals'[i].status = "decided"
           /\ approvals'[i].verb = approvals[i].verb
           /\ approvals'[i].approver = approvals[i].approver
<1> DEFINE Same == /\ approvals'[i].status = "decided"
                   /\ approvals'[i].verb = approvals[i].verb
                   /\ approvals'[i].approver = approvals[i].approver
<1>1. ASSUME NEW t \in Threads, SomeDecision(t) PROVE Same
  <2>1. PICK d \in Decision, s1 \in [ContractIds -> Nat], c1 \in [Keys -> Nat],
             a1 \in [Ids -> Approval], f \in Frame : Decides(t, d, s1, c1, a1, f)
    BY <1>1 DEF SomeDecision
  <2>2. approvals' = approvals \/ approvals' = a1
    BY <2>1, DecisionOutcome DEF Committed, Lost
  <2> QED BY <2>1, <2>2, DecisionTakes
<1>2. ASSUME NEW t \in Threads, ResultFor(t) PROVE Same
  <2>1. work[t].pc = "result" /\ work[t].id \in Ids /\ approvals[work[t].id].status = "absent"
    BY <1>2 DEF ResultFor, Holding, Private, Early
  <2>2. \/ approvals' = approvals
        \/ approvals' = [approvals EXCEPT ![work[t].id] = Pristine("pending")]
    BY <1>2, Zenon DEF ResultFor
  <2> QED BY <2>1, <2>2 DEF TypeOK
<1>3. ASSUME NEW t \in Threads, Annotate(t) PROVE Same
  BY <1>3, AnnotateApprovals
<1>4. ASSUME NEW t \in Threads, NEW j \in Ids, NEW who \in Principals, RejectTake(t, j, who)
      PROVE  Same
  BY <1>4, RejectTakeMoves
<1>5. ASSUME NEW t \in Threads,
             \/ ClaimGrant(t) \/ RunTool(t) \/ RecordExecution(t) \/ RecordApproval(t)
             \/ \E j \in Ids, r \in Proposals : CheckGrant(t, j, r)
             \/ \E a \in Agents : Receive(t, a)
      PROVE  approvals' = approvals
  BY <1>5, Zenon DEF ClaimGrant, RunTool, RecordExecution, RecordApproval, CheckGrant,
       Receive, store
<1>6. ASSUME (\E h : Crash(h)) \/ Prune \/ Tick \/ UNCHANGED vars PROVE approvals' = approvals
  BY <1>6, Zenon DEF Crash, Prune, Tick, vars, store
<1> QED BY <1>1, <1>2, <1>3, <1>4, <1>5, <1>6, AuthorityCases

----------------------------------------------------------------------------
(* Layer 4: decisions, grants and tool calls have a warrant                *)

CapabilityOf(r) == capabilities_for(r.agent_id)[r.action]

(* The agent's contract names the action, and what it asks for is within   *)
(* the targets and the actions that the capability names.                  *)
Authorized(r) ==
    /\ r.agent_id \in BoundAgents
    /\ r.action \in DOMAIN capabilities_for(r.agent_id)
    /\ CapabilityOf(r).effect # "deny"
    /\ "allowed_targets" \in DOMAIN CapabilityOf(r).constraints =>
           attr[r.arguments].to \in CapabilityOf(r).constraints.allowed_targets
    /\ "allowed_actions" \in DOMAIN CapabilityOf(r).constraints =>
           attr[r.arguments].action \in CapabilityOf(r).constraints.allowed_actions

(* What is decided is audited; what is not denied is authorized, and       *)
(* without an approver it is what the capability says.                     *)
Warranted ==
    \A i \in Ids : Taken(i) =>
        /\ audited[i] = decisions[i]
        /\ decisions[i].decision # "deny" => Authorized(decisions[i].request)
        /\ decisions[i].approved_by = None /\ decisions[i].decision # "deny" =>
               decisions[i].decision = CapabilityOf(decisions[i].request).effect

(* An approver's name is on an allowed decision that repeats an escalation *)
(* of the policy's, taken by that approver, whom the contract designates.  *)
ConsentedBy(d, p) ==
    /\ d.decision = "allow" /\ p \in Ids /\ Taken(p)
    /\ decisions[p].decision = "escalate" /\ decisions[p].request = d.request
    /\ decisions[p].approved_by = None
    /\ d.approved_by \in contract_of(d.request.agent_id).approvers
    /\ approvals[p].status = "decided"
    /\ approvals[p].verb = "approve" /\ approvals[p].approver = d.approved_by

Consented ==
    \A i \in Ids : Taken(i) /\ decisions[i].approved_by # None =>
        ConsentedBy(decisions[i], decisions[i].parent)

(* Only allowed decisions are granted, and only what was granted is run.   *)
Granted ==
    /\ \A i \in Ids : minted[i] # Never => decisions[i].decision = "allow"
    /\ \A t \in Threads : work[t].pc \in {"claim", "tool"} =>
         /\ minted[work[t].id] # Never
         /\ SameCall(work[t].req, decisions[work[t].id].request)
    /\ \A i \in Ids : \A k \in DOMAIN ran[i] :
         minted[i] # Never /\ SameCall(ran[i][k], decisions[i].request)

(* A capability that is not a denial either allows or escalates.           *)
LEMMA EffectOfCapability ==
    ASSUME NEW a \in BoundAgents, NEW x \in DOMAIN capabilities_for(a)
    PROVE  /\ ValidCapability(x, capabilities_for(a)[x])
           /\ capabilities_for(a)[x].effect \in Effects
<1>1. ValidContract(contract_of(a)) /\ a \in DOMAIN contract_of(a).agents
  BY BoundContract
<1>2. ValidCapability(x, capabilities_for(a)[x])
  BY <1>1, Zenon DEF ValidContract, capabilities_for
<1> QED BY <1>2 DEF ValidCapability

(* What the policy does not deny is authorized, with the capability's own  *)
(* effect.                                                                 *)
LEMMA NotDenied ==
    ASSUME NEW r, NEW u, NEW now, evaluate(r, u, now).decision # "deny"
    PROVE  Authorized(r) /\ evaluate(r, u, now).decision = CapabilityOf(r).effect
<1> DEFINE cap == CapabilityOf(r)
<1>1. /\ r.agent_id \in BoundAgents
      /\ r.action \in DOMAIN capabilities_for(r.agent_id)
      /\ cap.effect # "deny"
      /\ evaluate(r, u, now).decision = "escalate" <=> cap.effect = "escalate"
      /\ "allowed_targets" \in DOMAIN cap.constraints =>
             attr[r.arguments].to \in cap.constraints.allowed_targets
      /\ "allowed_actions" \in DOMAIN cap.constraints =>
             attr[r.arguments].action \in cap.constraints.allowed_actions
  BY GrantedMeans, Zenon DEF CapabilityOf
<1>2. cap.effect \in Effects
  BY <1>1, EffectOfCapability DEF CapabilityOf
<1>3. evaluate(r, u, now).decision \in Effects
  BY EvaluateType DEF Evaluation
<1>4. evaluate(r, u, now).decision = cap.effect
  BY <1>1, <1>2, <1>3 DEF Effects
<1> QED BY <1>1, <1>4, Zenon DEF Authorized

(* So is what any of the five actions decides.                             *)
LEMMA DecisionWarranted ==
    ASSUME NEW t \in Threads, NEW d, NEW s1, NEW c1, NEW a1, NEW f,
           Decides(t, d, s1, c1, a1, f), d.decision # "deny"
    PROVE  /\ Authorized(d.request)
           /\ d.approved_by = None => d.decision = CapabilityOf(d.request).effect
<1> DEFINE ev == evaluate(d.request, usage_for(d.request), clock)
<1>1. CASE Judges(d, s1, c1)
  BY <1>1, NotDenied DEF Judges
<1>2. CASE Approves(t, d, s1, c1, a1, f)
  <2>1. ev.decision # "deny" /\ d.approved_by \in Principals
    BY <1>2, Zenon DEF Approves
  <2>2. d.approved_by # None
    BY <2>1, Vocabulary
  <2> QED BY <2>1, <2>2, NotDenied
<1> QED BY <1>1, <1>2, Zenon DEF Decides, Proposes, Delegates, Refuses, Denies

(* Every step keeps decisions warranted.                                   *)
LEMMA StepWarranted ==
    ASSUME TypeOK, Holding, Warranted, [Next]_vars
    PROVE  Warranted'
<1>1. CASE Quiet
  BY <1>1 DEF Quiet, Warranted, Taken
<1>2. ASSUME NEW t \in Threads, NEW d \in Decision, NEW s1, NEW c1, NEW a1,
             NEW f \in Frame, Decides(t, d, s1, c1, a1, f)
      PROVE  Warranted'
  <2>1. /\ decisions[ids + 1] = NoDecision
        /\ \A i \in Ids : i # ids + 1 => decisions'[i] = decisions[i]
        /\ \A i \in Ids : i # ids + 1 => audited'[i] = audited[i]
        /\ \/ decisions'[ids + 1] = d /\ audited'[ids + 1] = d
           \/ decisions' = decisions
    BY <1>2, DecisionOutcome DEF Committed, Lost
  <2>2. d.decision # "deny" =>
           /\ Authorized(d.request)
           /\ d.approved_by = None => d.decision = CapabilityOf(d.request).effect
    BY <1>2, DecisionWarranted
  <2>3. ASSUME NEW i \in Ids, i # ids + 1, Taken(i)'
        PROVE  /\ audited'[i] = decisions'[i]
               /\ decisions'[i].decision # "deny" => Authorized(decisions'[i].request)
               /\ decisions'[i].approved_by = None /\ decisions'[i].decision # "deny" =>
                      decisions'[i].decision = CapabilityOf(decisions'[i].request).effect
    BY <2>1, <2>3, Zenon DEF Warranted, Taken
  <2>4. ASSUME NEW i \in Ids, i = ids + 1, Taken(i)'
        PROVE  /\ audited'[i] = decisions'[i]
               /\ decisions'[i].decision # "deny" => Authorized(decisions'[i].request)
               /\ decisions'[i].approved_by = None /\ decisions'[i].decision # "deny" =>
                      decisions'[i].decision = CapabilityOf(decisions'[i].request).effect
    BY <2>1, <2>2, <2>4, Zenon DEF Taken
  <2> QED BY <2>3, <2>4, Zenon DEF Warranted
<1> QED BY <1>1, <1>2, DecidesOrQuiet DEF SomeDecision

(* Every step keeps approvers' names on what they approved.                *)
LEMMA StepConsented ==
    ASSUME TypeOK, Holding, Private, OneVerdict, Consented, [Next]_vars
    PROVE  Consented'
<1>1. ASSUME NEW d, NEW p, ConsentedBy(d, p)
      PROVE  ConsentedBy(d, p)'
  <2>1. p \in Ids /\ Taken(p) /\ approvals[p].status = "decided"
    BY <1>1 DEF ConsentedBy
  <2>2. decisions'[p] = decisions[p]
    BY <2>1, TakenStays
  <2>3. /\ approvals'[p].status = "decided"
        /\ approvals'[p].verb = approvals[p].verb
        /\ approvals'[p].approver = approvals[p].approver
    BY <2>1, DecidedStays
  <2> QED BY <1>1, <2>1, <2>2, <2>3, Zenon DEF ConsentedBy, Taken
<1>2. ASSUME NEW i \in Ids, Taken(i), decisions[i].approved_by # None
      PROVE  decisions'[i] = decisions[i] /\ ConsentedBy(decisions[i], decisions[i].parent)'
  BY <1>1, <1>2, TakenStays DEF Consented
<1>3. CASE Quiet
  BY <1>2, <1>3, Zenon DEF Quiet, Consented, Taken
<1>4. ASSUME NEW t \in Threads, NEW d \in Decision, NEW s1, NEW c1, NEW a1,
             NEW f \in Frame, Decides(t, d, s1, c1, a1, f)
      PROVE  Consented'
  <2>1. /\ ids + 1 \in Ids /\ decisions[ids + 1] = NoDecision
        /\ \A i \in Ids : i # ids + 1 => decisions'[i] = decisions[i]
        /\ Committed(t, d, s1, c1, a1, f) \/ decisions' = decisions
    BY <1>4, DecisionOutcome DEF Lost
  <2>2. ASSUME Committed(t, d, s1, c1, a1, f), d.approved_by # None
        PROVE  ConsentedBy(d, d.parent)'
    <3>1. Approves(t, d, s1, c1, a1, f)
      BY <1>4, <2>2, Zenon DEF Decides, Proposes, Delegates, Refuses, Denies, Judges
    <3>2. PICK who \in Principals :
             /\ may_decide(d.parent, who) /\ a1 = take(d.parent, who, "approve")
             /\ d.decision = "allow" /\ d.approved_by = who
      BY <2>2, <3>1, Zenon DEF Approves
    <3>3. d.parent \in Ids /\ d.request = decisions[d.parent].request
      BY <3>1, Zenon DEF Approves
    <3>4. /\ approvals[d.parent].status = "pending"
          /\ who \in contract_of(decisions[d.parent].request.agent_id).approvers
      BY <3>2 DEF may_decide
    <3>5. Taken(d.parent) /\ decisions[d.parent].decision = "escalate"
      BY <3>3, <3>4 DEF Holding, OneVerdict, Taken
    <3>6. decisions[d.parent].approved_by = None
      BY <3>3, <3>5 DEF Consented, ConsentedBy
    <3>7. /\ approvals'[d.parent].status = "decided"
          /\ approvals'[d.parent].verb = "approve" /\ approvals'[d.parent].approver = who
      BY <2>2, <3>2, <3>3 DEF Committed, take, TypeOK
    <3>8. decisions'[d.parent] = decisions[d.parent]
      BY <3>3, <3>5, TakenStays
    <3> QED BY <3>2, <3>3, <3>4, <3>5, <3>6, <3>7, <3>8, Zenon DEF ConsentedBy, Taken
  <2>3. ASSUME NEW i \in Ids, Taken(i)', decisions'[i].approved_by # None
        PROVE  ConsentedBy(decisions[i], decisions[i].parent)'
    <3>1. CASE decisions'[i] = decisions[i]
      BY <1>2, <2>3, <3>1, Zenon DEF Taken
    <3>2. CASE decisions'[i] # decisions[i]
      <4>1. i = ids + 1 /\ Committed(t, d, s1, c1, a1, f)
        BY <2>1, <3>2
      <4>2. decisions'[i] = d
        BY <4>1 DEF Committed
      <4> QED BY <2>2, <2>3, <4>1, <4>2, Zenon DEF ConsentedBy
    <3> QED BY <3>1, <3>2
  <2> QED BY <2>3, Zenon DEF Consented
<1> QED BY <1>3, <1>4, DecidesOrQuiet DEF SomeDecision

(* A grant is minted by _result_for alone, for an allowed decision, and is *)
(* not taken back.                                                         *)
LEMMA MintedSteps ==
    ASSUME TypeOK, Holding, [Next]_vars, NEW i \in Ids, minted'[i] # minted[i]
    PROVE  minted'[i] # Never /\ Taken(i) /\ decisions[i].decision = "allow"
<1>1. ASSUME NEW t \in Threads, ResultFor(t)
      PROVE  minted'[i] # Never /\ Taken(i) /\ decisions[i].decision = "allow"
  <2>1. /\ decisions[work[t].id].decision = "allow"
        /\ minted' = [minted EXCEPT ![work[t].id] = clock + GrantTTL]
    BY <1>1, Zenon DEF ResultFor
  <2>2. i = work[t].id /\ minted'[i] = clock + GrantTTL
    BY <2>1 DEF TypeOK
  <2>3. clock + GrantTTL \in Nat
    BY Deployment DEF TypeOK
  <2>4. Taken(i)
    BY <1>1, <2>2 DEF ResultFor, Holding, Taken
  <2> QED BY <2>1, <2>2, <2>3, <2>4, Vocabulary
<1>2. ASSUME NEW t \in Threads, Records(t) PROVE FALSE
  BY <1>2, RecordsMoves
<1>3. ASSUME NEW t \in Threads,
             \/ ClaimGrant(t) \/ RunTool(t) \/ RecordExecution(t) \/ RecordApproval(t)
             \/ Annotate(t)
             \/ \E j \in Ids, r \in Proposals : CheckGrant(t, j, r)
             \/ \E j \in Ids, who \in Principals : RejectTake(t, j, who)
             \/ \E a \in Agents : Receive(t, a)
      PROVE  FALSE
  BY <1>3, Zenon DEF ClaimGrant, RunTool, RecordExecution, RecordApproval, Annotate,
       CheckGrant, RejectTake, Receive, history
<1>4. ASSUME (\E h : Crash(h)) \/ Prune \/ Tick \/ UNCHANGED vars PROVE FALSE
  BY <1>4, Zenon DEF Crash, Prune, Tick, vars, history
<1> QED BY <1>1, <1>2, <1>3, <1>4, StepCases, Zenon

(* A thread that is about to claim or to call has checked the grant.       *)
LEMMA ClaimingSteps ==
    ASSUME TypeOK, Holding, [Next]_vars, NEW u \in Threads, work'[u].pc \in {"claim", "tool"}
    PROVE  \/ /\ work[u].pc \in {"claim", "tool"}
              /\ work'[u].id = work[u].id /\ work'[u].req = work[u].req
           \/ \E i \in Ids, r \in Proposals :
                CheckGrant(u, i, r) /\ work'[u].id = i /\ work'[u].req = r
<1>1. ASSUME NEW i \in Ids, NEW r \in Proposals, CheckGrant(u, i, r)
      PROVE  work'[u].id = i /\ work'[u].req = r
  BY <1>1, CheckGrantMoves
<1>2. CASE ClaimGrant(u)
  BY <1>2, ClaimGrantMoves, IdleFrame
<1>3. CASE \/ ResultFor(u) \/ RunTool(u) \/ RecordApproval(u) \/ Annotate(u)
           \/ \E i \in Ids, who \in Principals : RejectTake(u, i, who)
  BY <1>3, ResultForMoves, RunToolMoves, RecordApprovalMoves, AnnotateMoves, RejectTakeMoves,
     IdleFrame
<1>4. CASE Records(u)
  BY <1>4, RecordsMoves, IdleFrame
<1> QED BY <1>1, <1>2, <1>3, <1>4, ThreadSteps, IdleFrame

(* Every step runs only what was granted.                                  *)
LEMMA StepGranted ==
    ASSUME TypeOK, Holding, OneClaim, Granted, [Next]_vars
    PROVE  Granted'
<1>1. ASSUME NEW i \in Ids, minted'[i] # Never
      PROVE  /\ decisions'[i] = decisions[i]
             /\ decisions[i].decision = "allow"
  <2>1. Taken(i) /\ decisions[i].decision = "allow"
    BY <1>1, MintedSteps DEF Granted, Holding, Taken
  <2> QED BY <2>1, TakenStays
<1>2. ASSUME NEW i \in Ids, minted[i] # Never
      PROVE  minted'[i] # Never /\ decisions'[i] = decisions[i]
  BY <1>1, <1>2, MintedSteps
<1>3. ASSUME NEW u \in Threads, work'[u].pc \in {"claim", "tool"}
      PROVE  /\ minted'[work'[u].id] # Never
             /\ SameCall(work'[u].req, decisions'[work'[u].id].request)
  <2>1. CASE /\ work[u].pc \in {"claim", "tool"}
             /\ work'[u].id = work[u].id /\ work'[u].req = work[u].req
    <3>1. work[u].id \in Ids
      BY <2>1 DEF Holding
    <3>2. /\ minted[work[u].id] # Never
          /\ SameCall(work[u].req, decisions[work[u].id].request)
      BY <2>1 DEF Granted
    <3> QED BY <1>2, <2>1, <3>1, <3>2
  <2>2. ASSUME NEW i \in Ids, NEW r \in Proposals,
               CheckGrant(u, i, r), work'[u].id = i, work'[u].req = r
        PROVE  /\ minted'[work'[u].id] # Never
               /\ SameCall(work'[u].req, decisions'[work'[u].id].request)
    <3>1. minted[i] # Never /\ SameCall(r, decisions[i].request)
      BY <2>2 DEF CheckGrant, verify, SameCall
    <3> QED BY <1>2, <2>2, <3>1
  <2> QED BY <1>3, <2>1, <2>2, ClaimingSteps
<1>4. ASSUME NEW i \in Ids, NEW k \in DOMAIN ran'[i]
      PROVE  minted'[i] # Never /\ SameCall(ran'[i][k], decisions'[i].request)
  <2>1. CASE ran'[i] = ran[i]
    BY <1>2, <1>4, <2>1 DEF Granted
  <2>2. CASE ran'[i] # ran[i]
    <3>1. PICK t \in Threads : RunTool(t)
      BY <2>2, OnlyRunToolRuns
    <3>2. work[t].pc = "tool" /\ ran' = [ran EXCEPT ![work[t].id] = Append(@, work[t].req)]
      BY <3>1, RunToolMoves
    <3>3. i = work[t].id
      BY <2>2, <3>2 DEF TypeOK
    <3>4. ran[i] = <<>> /\ work[t].req \in Request
      BY <3>2, <3>3 DEF OneClaim, Holding
    <3>5. ran'[i] = <<work[t].req>>
      BY <3>2, <3>3, <3>4 DEF TypeOK
    <3>6. ran'[i][k] = work[t].req
      BY <1>4, <3>5
    <3>7. minted[i] # Never /\ SameCall(work[t].req, decisions[i].request)
      BY <3>2, <3>3 DEF Granted
    <3> QED BY <1>2, <3>6, <3>7
  <2> QED BY <2>1, <2>2
<1> QED BY <1>1, <1>3, <1>4 DEF Granted

(* Decisions, approvals and grants together.                               *)
AInv == IInv /\ Warranted /\ Consented /\ Granted

(* With no decision taken there is nothing to warrant.                     *)
LEMMA InitAInv == Init => AInv
<1> SUFFICES ASSUME Init PROVE AInv
  OBVIOUS
<1>1. IInv
  BY InitIInv
<1>2. \A i \in Ids : decisions[i] = NoDecision /\ minted[i] = Never /\ ran[i] = <<>>
  BY DEF Init
<1>3. \A t \in Threads : work[t].pc = "idle"
  BY IdleFrame DEF Init
<1>4. Warranted /\ Consented
  BY <1>2 DEF Warranted, Consented, Taken
<1>5. Granted
  BY <1>2, <1>3 DEF Granted
<1> QED BY <1>1, <1>4, <1>5 DEF AInv

(* The inductive invariant of Harness_proofs with the warrants added.      *)
THEOREM HarnessAuthority == Spec => []AInv
<1>1. Init => AInv
  BY InitAInv
<1>2. AInv /\ [Next]_vars => Warranted' /\ Consented' /\ Granted'
  BY StepWarranted, StepConsented, StepGranted DEF AInv, IInv
<1>3. AInv => Warranted /\ Consented /\ Granted
  BY DEF AInv
<1>4. Warranted /\ Consented /\ Granted /\ IInv => AInv
  BY DEF AInv
<1> QED BY <1>1, <1>2, <1>3, <1>4, HarnessInvariant, PTL DEF Spec

(* Whatever a tool is called with is what an audited "allow" decision      *)
(* says, within the agent's own contract: for any contracts, threads,      *)
(* replicas, replays, failed writes and crashes.                           *)
THEOREM ToolsRunAsAudited == Spec => []ExecutedAsAudited
<1>1. ASSUME AInv PROVE ExecutedAsAudited
  <2> SUFFICES ASSUME NEW i \in Ids, NEW k \in DOMAIN ran[i]
               PROVE  /\ audited[i] # NoDecision
                      /\ audited[i].decision = "allow"
                      /\ SameCall(ran[i][k], audited[i].request)
                      /\ ran[i][k].agent_id \in BoundAgents
                      /\ ran[i][k].action \in DOMAIN capabilities_for(ran[i][k].agent_id)
                      /\ capabilities_for(ran[i][k].agent_id)[ran[i][k].action].effect # "deny"
    BY DEF ExecutedAsAudited
  <2>1. minted[i] # Never /\ SameCall(ran[i][k], decisions[i].request)
    BY <1>1 DEF AInv, Granted
  <2>2. Taken(i) /\ decisions[i].decision = "allow"
    BY <1>1, <2>1 DEF AInv, IInv, Granted, Holding, Taken
  <2>3. audited[i] = decisions[i] /\ Authorized(decisions[i].request)
    BY <1>1, <2>2 DEF AInv, Warranted
  <2> QED BY <2>1, <2>2, <2>3 DEF Authorized, CapabilityOf, SameCall, Taken
<1> QED BY <1>1, HarnessAuthority, PTL

(* An action whose capability says "escalate" runs only under the approval *)
(* of a principal that the agent's contract designates, of that request.   *)
THEOREM EscalationsNeedAHuman == Spec => []EscalatedNeedsHuman
<1>1. ASSUME AInv PROVE EscalatedNeedsHuman
  <2> SUFFICES ASSUME NEW i \in Ids, NEW k \in DOMAIN ran[i],
                      capabilities_for(ran[i][k].agent_id)[ran[i][k].action].effect = "escalate"
               PROVE  LET p == audited[i].parent
                      IN  /\ audited[i].approved_by \in contract_of(ran[i][k].agent_id).approvers
                          /\ p \in Ids
                          /\ audited[p].decision = "escalate"
                          /\ SameCall(audited[p].request, ran[i][k])
                          /\ approvals[p].verb = "approve"
                          /\ approvals[p].approver = audited[i].approved_by
    BY DEF EscalatedNeedsHuman
  <2>1. minted[i] # Never /\ SameCall(ran[i][k], decisions[i].request)
    BY <1>1 DEF AInv, Granted
  <2>2. Taken(i) /\ decisions[i].decision = "allow"
    BY <1>1, <2>1 DEF AInv, IInv, Granted, Holding, Taken
  <2>3. audited[i] = decisions[i]
    BY <1>1, <2>2 DEF AInv, Warranted
  <2>4. decisions[i].approved_by # None
    BY <1>1, <2>1, <2>2 DEF AInv, Warranted, CapabilityOf, SameCall
  <2>5. ConsentedBy(decisions[i], decisions[i].parent)
    BY <1>1, <2>2, <2>4 DEF AInv, Consented
  <2>6. audited[decisions[i].parent] = decisions[decisions[i].parent]
    BY <1>1, <2>5 DEF AInv, Warranted, ConsentedBy
  <2> QED BY <2>1, <2>3, <2>5, <2>6 DEF ConsentedBy, SameCall
<1> QED BY <1>1, HarnessAuthority, PTL

----------------------------------------------------------------------------
(* Layer 5: delegations and messages go back to a capability               *)

(* Decision d is on behalf of whoever was allowed delegation p.            *)
TracedTo(d, p) ==
    /\ Taken(p) /\ decisions[p].decision = "allow"
    /\ decisions[p].request.agent_id = d.delegated_by
    /\ decisions[p].request.action = DELEGATE_ACTION
    /\ delegated_action(decisions[p].request) = d.request

Traced ==
    /\ \A t \in Threads : work[t].pc = "stage2" =>
         decisions[work[t].id].request.action = DELEGATE_ACTION
    /\ \A i \in Ids : Taken(i) /\ decisions[i].delegated_by # None =>
         \E p \in Ids : TracedTo(decisions[i], p)

(* A second stage begins only in _result_for of an allowed delegation.     *)
LEMMA Stage2Steps ==
    ASSUME TypeOK, Holding, [Next]_vars, NEW u \in Threads, work'[u].pc = "stage2"
    PROVE  \/ work'[u] = work[u]
           \/ /\ work'[u].id = work[u].id /\ work[u].id \in Ids /\ Taken(work[u].id)
              /\ decisions[work[u].id].request.action = DELEGATE_ACTION
<1>1. CASE ResultFor(u)
  <2>1. work'[u].id = work[u].id /\ work[u].pc = "result"
    BY <1>1, ResultForMoves, IdleFrame
  <2>2. work[u].id \in Ids /\ Taken(work[u].id)
    BY <2>1 DEF Holding, Taken
  <2>3. Goto(u, Idle) \/ decisions[work[u].id].request.action = DELEGATE_ACTION
    BY <1>1, Zenon DEF ResultFor
  <2>4. ~Goto(u, Idle)
    BY IdleFrame, Moved
  <2> QED BY <2>1, <2>2, <2>3, <2>4
<1>2. CASE \/ ClaimGrant(u) \/ RunTool(u)
           \/ \E i \in Ids, r \in Proposals : CheckGrant(u, i, r)
  BY <1>2, ClaimGrantMoves, RunToolMoves, CheckGrantMoves, IdleFrame
<1>3. CASE \/ RecordApproval(u) \/ Annotate(u)
           \/ \E i \in Ids, who \in Principals : RejectTake(u, i, who)
  BY <1>3, RecordApprovalMoves, AnnotateMoves, RejectTakeMoves, IdleFrame
<1>4. CASE Records(u)
  BY <1>4, RecordsMoves, IdleFrame
<1> QED BY <1>1, <1>2, <1>3, <1>4, ThreadSteps, IdleFrame

(* Every step keeps the delegations behind decisions on behalf of others.  *)
LEMMA StepTraced ==
    ASSUME TypeOK, Holding, OneVerdict, Traced, [Next]_vars
    PROVE  Traced'
<1>1. ASSUME NEW d, NEW p \in Ids, TracedTo(d, p)
      PROVE  TracedTo(d, p)'
  <2>1. decisions'[p] = decisions[p]
    BY <1>1, TakenStays DEF TracedTo
  <2> QED BY <1>1, <2>1, Zenon DEF TracedTo, Taken
<1>2. ASSUME NEW u \in Threads, work'[u].pc = "stage2"
      PROVE  decisions'[work'[u].id].request.action = DELEGATE_ACTION
  <2>1. CASE work'[u] = work[u]
    <3>1. /\ work[u].id \in Ids /\ Taken(work[u].id)
          /\ decisions[work[u].id].request.action = DELEGATE_ACTION
      BY <1>2, <2>1 DEF Holding, Traced, Taken
    <3> QED BY <2>1, <3>1, TakenStays
  <2>2. CASE /\ work'[u].id = work[u].id /\ work[u].id \in Ids /\ Taken(work[u].id)
             /\ decisions[work[u].id].request.action = DELEGATE_ACTION
    BY <2>2, TakenStays
  <2> QED BY <1>2, <2>1, <2>2, Stage2Steps
<1>3. ASSUME NEW d, \E p \in Ids : TracedTo(d, p)
      PROVE  \E p \in Ids : TracedTo(d, p)'
  BY <1>1, <1>3
<1>4. ASSUME NEW i \in Ids, Taken(i)', decisions'[i].delegated_by # None
      PROVE  \E p \in Ids : TracedTo(decisions[i], p)'
  <2>1. CASE decisions'[i] = decisions[i]
    <3>1. \E p \in Ids : TracedTo(decisions[i], p)
      BY <1>4, <2>1 DEF Traced, Taken
    <3> QED BY <1>3, <2>1, <3>1
  <2>2. CASE decisions'[i] # decisions[i]
    <3>1. PICK t \in Threads : SomeDecision(t)
      BY <2>2, DecidesOrQuiet DEF Quiet
    <3>2. PICK d \in Decision, s1 \in [ContractIds -> Nat], c1 \in [Keys -> Nat],
               a1 \in [Ids -> Approval], f \in Frame : Decides(t, d, s1, c1, a1, f)
      BY <3>1 DEF SomeDecision
    <3>3. decisions'[i] = d
      BY <2>2, <3>2, DecisionOutcome DEF Committed, Lost
    <3>4. ASSUME NEW p \in Ids, Taken(p), d.request = decisions[p].request,
                 d.delegated_by = decisions[p].delegated_by
          PROVE  \E q \in Ids : TracedTo(d, q)
      <4>1. PICK q \in Ids : TracedTo(decisions[p], q)
        BY <1>4, <3>3, <3>4 DEF Traced
      <4> QED BY <3>4, <4>1 DEF TracedTo
    <3>5. \E p \in Ids : TracedTo(d, p)
      <4>1. CASE Proposes(t, d, s1, c1, a1, f) \/ Refuses(t, d, s1, c1, a1, f)
        BY <1>4, <3>3, <4>1, Zenon DEF Proposes, Refuses
      <4>2. CASE Delegates(t, d, s1, c1, a1, f)
        <5>1. /\ work[t].pc = "stage2"
              /\ d.request = delegated_action(decisions[work[t].id].request)
              /\ d.delegated_by = decisions[work[t].id].request.agent_id
          BY <4>2, Zenon DEF Delegates
        <5>2. work[t].id \in Ids /\ Taken(work[t].id)
          BY <5>1 DEF Holding, Taken
        <5>3. /\ decisions[work[t].id].decision = "allow"
              /\ decisions[work[t].id].request.action = DELEGATE_ACTION
          BY <5>1 DEF OneVerdict, Traced
        <5> QED BY <5>1, <5>2, <5>3 DEF TracedTo
      <4>3. CASE Denies(t, d, s1, c1, a1, f)
        <5>1. /\ work[t].pc = "reject"
              /\ d.request = decisions[work[t].id].request
              /\ d.delegated_by = decisions[work[t].id].delegated_by
          BY <4>3, Zenon DEF Denies
        <5>2. work[t].id \in Ids /\ Taken(work[t].id)
          BY <5>1 DEF Holding, Taken
        <5> QED BY <3>4, <5>1, <5>2
      <4>4. CASE Approves(t, d, s1, c1, a1, f)
        <5>1. /\ d.parent \in Ids
              /\ d.request = decisions[d.parent].request
              /\ d.delegated_by = decisions[d.parent].delegated_by
              /\ approvals[d.parent].status = "pending"
          BY <4>4, Zenon DEF Approves, may_decide
        <5>2. Taken(d.parent)
          BY <5>1 DEF Holding, Taken
        <5> QED BY <3>4, <5>1, <5>2
      <4> QED BY <3>2, <4>1, <4>2, <4>3, <4>4, Zenon DEF Decides
    <3> QED BY <1>3, <3>3, <3>5
  <2> QED BY <2>1, <2>2
<1> QED BY <1>2, <1>4 DEF Traced

(* A message is in one place, and there by its sender's executed call.     *)
Delivered ==
    \A a \in Agents :
        /\ mailbox[a] \cap received[a] = {}
        /\ \A i \in mailbox[a] \cup received[a] :
             /\ ran[i] # <<>>
             /\ decisions[i].request.action = MESSAGE_ACTION
             /\ attr[decisions[i].request.arguments].to = a

(* Only _deliver fills a mailbox, and only receive empties one.            *)
LEMMA MailSteps ==
    ASSUME TypeOK, Holding, [Next]_vars
    PROVE  \/ UNCHANGED <<mailbox, received>>
           \/ \E t \in Threads : RunTool(t)
           \/ \E t \in Threads, a \in Agents : Receive(t, a)
<1>1. ASSUME NEW t \in Threads, Records(t) PROVE UNCHANGED <<mailbox, received>>
  BY <1>1, RecordsMoves
<1>2. ASSUME NEW t \in Threads,
             \/ ResultFor(t) \/ ClaimGrant(t)
             \/ RecordExecution(t) \/ RecordApproval(t) \/ Annotate(t)
             \/ \E i \in Ids, r \in Proposals : CheckGrant(t, i, r)
             \/ \E i \in Ids, who \in Principals : RejectTake(t, i, who)
      PROVE  UNCHANGED <<mailbox, received>>
  BY <1>2, Zenon DEF ResultFor, ClaimGrant, RecordExecution, RecordApproval,
       Annotate, CheckGrant, RejectTake, store, history
<1>3. ASSUME (\E h : Crash(h)) \/ Prune \/ Tick \/ UNCHANGED vars
      PROVE  UNCHANGED <<mailbox, received>>
  BY <1>3, Zenon DEF Crash, Prune, Tick, vars, store, history
<1> QED BY <1>1, <1>2, <1>3, StepCases, Zenon

(* Every step keeps messages in one place, where they were sent to.        *)
LEMMA StepDelivered ==
    ASSUME TypeOK, Holding, OneClaim, Granted, Granted', Delivered, [Next]_vars
    PROVE  Delivered'
<1>1. ASSUME NEW i \in Ids, ran[i] # <<>>
      PROVE  decisions'[i] = decisions[i] /\ ran'[i] # <<>>
  <2>1. Taken(i)
    BY <1>1 DEF OneClaim, Claimed, Holding, Taken
  <2>2. ran'[i] # <<>>
    <3>1. CASE \E t \in Threads : RunTool(t)
      <4>1. PICK t \in Threads :
                 /\ work[t].pc = "tool"
                 /\ ran' = [ran EXCEPT ![work[t].id] = Append(@, work[t].req)]
        BY <3>1, RunToolMoves
      <4>2. work[t].id # i
        BY <1>1, <4>1 DEF OneClaim
      <4> QED BY <1>1, <4>1, <4>2 DEF TypeOK
    <3> QED BY <1>1, <3>1, OnlyRunToolRuns
  <2> QED BY <2>1, <2>2, TakenStays
<1>2. \A a \in Agents : mailbox[a] \subseteq Ids /\ received[a] \subseteq Ids
  BY DEF TypeOK
<1>3. CASE UNCHANGED <<mailbox, received>>
  BY <1>1, <1>2, <1>3 DEF Delivered
<1>4. ASSUME NEW t \in Threads, NEW b \in Agents, Receive(t, b)
      PROVE  Delivered'
  <2>1. /\ received' = [received EXCEPT ![b] = @ \cup mailbox[b]]
        /\ mailbox' = [mailbox EXCEPT ![b] = {}]
    BY <1>4 DEF Receive
  <2>2. \A a \in Agents : mailbox'[a] \cup received'[a] = mailbox[a] \cup received[a]
    BY <2>1 DEF TypeOK
  <2>3. \A a \in Agents : mailbox'[a] \cap received'[a] = {}
    BY <2>1 DEF TypeOK, Delivered
  <2> QED BY <1>1, <1>2, <2>2, <2>3 DEF Delivered
<1>5. ASSUME NEW t \in Threads, RunTool(t)
      PROVE  Delivered'
  <2> DEFINE i == work[t].id
             b == attr[work[t].req.arguments].to
  <2>1. /\ work[t].pc = "tool" /\ received' = received
        /\ ran' = [ran EXCEPT ![i] = Append(@, work[t].req)]
        /\ \/ mailbox' = mailbox
           \/ /\ work[t].req.action = MESSAGE_ACTION
              /\ mailbox' = [mailbox EXCEPT ![b] = @ \cup {i}]
    BY <1>5, RunToolMoves, Zenon DEF RunTool
  <2>2. i \in Ids /\ ran[i] = <<>> /\ work[t].req \in Request
    BY <2>1 DEF Holding, OneClaim
  <2>3. ran'[i] # <<>>
    BY <2>1, <2>2 DEF TypeOK
  <2>4. /\ SameCall(work[t].req, decisions[i].request) /\ Taken(i)
    BY <2>1 DEF Granted, Holding, Taken
  <2>5. decisions'[i] = decisions[i]
    BY <2>2, <2>4, TakenStays
  <2>6. \A a \in Agents : i \notin mailbox[a] \cup received[a]
    BY <2>2 DEF Delivered
  <2>7. CASE mailbox' = mailbox
    BY <1>3, <2>1, <2>7
  <2>8. CASE /\ work[t].req.action = MESSAGE_ACTION
             /\ mailbox' = [mailbox EXCEPT ![b] = @ \cup {i}]
    <3>1. /\ decisions'[i].request.action = MESSAGE_ACTION
          /\ attr[decisions'[i].request.arguments].to = b
      BY <2>4, <2>5, <2>8 DEF SameCall
    <3> HIDE DEF i, b
    <3>2. \A a \in Agents : /\ a # b => mailbox'[a] = mailbox[a]
                            /\ a = b => mailbox'[a] = mailbox[a] \cup {i}
      BY <2>8 DEF TypeOK
    <3>3. ASSUME NEW a \in Agents PROVE mailbox'[a] \cap received'[a] = {}
      BY <2>1, <2>6, <3>2 DEF Delivered
    <3>4. ASSUME NEW a \in Agents, NEW j \in mailbox'[a] \cup received'[a]
          PROVE  /\ ran'[j] # <<>>
                 /\ decisions'[j].request.action = MESSAGE_ACTION
                 /\ attr[decisions'[j].request.arguments].to = a
      <4>1. CASE j \in mailbox[a] \cup received[a]
        BY <1>1, <1>2, <4>1 DEF Delivered
      <4>2. CASE j \notin mailbox[a] \cup received[a]
        <5>1. j = i /\ a = b
          BY <2>1, <3>2, <3>4, <4>2
        <5> QED BY <2>3, <3>1, <5>1
      <4> QED BY <4>1, <4>2
    <3> QED BY <3>3, <3>4 DEF Delivered
  <2> QED BY <2>1, <2>7, <2>8
<1> QED BY <1>3, <1>4, <1>5, MailSteps

(* Layer 4 with delegations and messages.                                  *)
TInv == AInv /\ Traced /\ Delivered

(* Every delegation an agent holds has its trail, and every message in an  *)
(* inbox its decision, in every reachable state (delegate_task, send).      *)
THEOREM HarnessTraces == Spec => []TInv
<1>1. ASSUME Init PROVE Traced /\ Delivered
  <2>1. /\ \A i \in Ids : decisions[i] = NoDecision
        /\ \A a \in Agents : mailbox[a] = {} /\ received[a] = {}
        /\ \A t \in Threads : work[t].pc = "idle"
    BY <1>1, IdleFrame DEF Init
  <2> QED BY <2>1 DEF Traced, Delivered, Taken
<1>2. ASSUME AInv, AInv', Traced, Delivered, [Next]_vars PROVE Traced' /\ Delivered'
  <2>1. Traced'
    BY <1>2, StepTraced DEF AInv, IInv
  <2>2. Delivered'
    BY <1>2, StepDelivered DEF AInv, IInv
  <2> QED BY <2>1, <2>2
<1>3. TInv <=> AInv /\ Traced /\ Delivered
  BY DEF TInv
<1> QED BY <1>1, <1>2, <1>3, HarnessAuthority, PTL DEF Spec

(* What an authorized agent.message or agent.delegate was allowed, the     *)
(* capability's allowed_targets and allowed_actions name.                  *)
LEMMA TargetsNamed ==
    ASSUME NEW r, Authorized(r), r.action \in {MESSAGE_ACTION, DELEGATE_ACTION}
    PROVE  /\ attr[r.arguments].to \in CapabilityOf(r).constraints.allowed_targets
           /\ r.action = DELEGATE_ACTION =>
                attr[r.arguments].action \in CapabilityOf(r).constraints.allowed_actions
<1>1. ValidCapability(r.action, CapabilityOf(r))
  BY EffectOfCapability DEF Authorized, CapabilityOf
<1> QED BY <1>1 DEF ValidCapability, Authorized

(* A decision on somebody's behalf goes back to an allowed agent.delegate  *)
(* of that somebody, whose capability names recipient and action, and an   *)
(* allowed one is in the recipient's own contract too.                     *)
THEOREM DelegationsAreTraced == Spec => []DelegationTraced
<1>1. ASSUME TInv PROVE DelegationTraced
  <2> SUFFICES ASSUME NEW i \in Ids, decisions[i] # NoDecision,
                      decisions[i].delegated_by # None
               PROVE  /\ \E p \in Ids :
                           /\ decisions[p] # NoDecision
                           /\ decisions[p].decision = "allow"
                           /\ decisions[p].request.agent_id = decisions[i].delegated_by
                           /\ delegated_action(decisions[p].request) = decisions[i].request
                           /\ LET c == capabilities_for(decisions[i].delegated_by)
                                           [DELEGATE_ACTION].constraints
                              IN  /\ decisions[i].request.agent_id \in c.allowed_targets
                                  /\ decisions[i].request.action \in c.allowed_actions
                      /\ decisions[i].decision = "allow" =>
                           decisions[i].request.action
                             \in DOMAIN capabilities_for(decisions[i].request.agent_id)
    BY Zenon DEF DelegationTraced
  <2>1. Taken(i)
    BY DEF Taken
  <2>2. PICK p \in Ids : TracedTo(decisions[i], p)
    BY <1>1, <2>1 DEF TInv, Traced
  <2> DEFINE r == decisions[p].request
  <2>3. /\ Taken(p) /\ decisions[p].decision = "allow"
        /\ r.agent_id = decisions[i].delegated_by
        /\ r.action = DELEGATE_ACTION
        /\ delegated_action(r) = decisions[i].request
    BY <2>2 DEF TracedTo
  <2>4. Authorized(r)
    BY <1>1, <2>3 DEF TInv, AInv, Warranted
  <2>5. /\ decisions[i].request.agent_id = attr[r.arguments].to
        /\ decisions[i].request.action = attr[r.arguments].action
    BY <2>3 DEF delegated_action
  <2>6. /\ attr[r.arguments].to \in CapabilityOf(r).constraints.allowed_targets
        /\ attr[r.arguments].action \in CapabilityOf(r).constraints.allowed_actions
    BY <2>3, <2>4, TargetsNamed
  <2>7. decisions[i].decision = "allow" => Authorized(decisions[i].request)
    BY <1>1, <2>1 DEF TInv, AInv, Warranted
  <2> QED BY <2>3, <2>5, <2>6, <2>7, Zenon DEF CapabilityOf, Authorized, Taken
<1> QED BY <1>1, HarnessTraces, PTL

(* A message is in its recipient's mailbox or has been received, never     *)
(* both, and only by an executed agent.message whose capability names the  *)
(* recipient.                                                              *)
THEOREM MessagesAreAuthorized == Spec => []MessagesAuthorized
<1>1. ASSUME TInv PROVE MessagesAuthorized
  <2>1. ASSUME NEW a \in Agents, NEW i \in mailbox[a] \cup received[a]
        PROVE  /\ Executed(i)
               /\ attr[audited[i].request.arguments].to = a
               /\ a \in capabilities_for(audited[i].request.agent_id)[MESSAGE_ACTION]
                          .constraints.allowed_targets
    <3>1. i \in Ids
      BY <1>1, <2>1 DEF TInv, AInv, IInv, TypeOK
    <3>2. /\ ran[i] # <<>>
          /\ decisions[i].request.action = MESSAGE_ACTION
          /\ attr[decisions[i].request.arguments].to = a
      BY <1>1, <2>1 DEF TInv, Delivered
    <3>3. minted[i] # Never
      BY <1>1, <3>1, <3>2 DEF TInv, AInv, IInv, OneClaim, Claimed
    <3>4. Taken(i) /\ decisions[i].decision = "allow"
      BY <1>1, <3>1, <3>3 DEF TInv, AInv, IInv, Holding, Granted, Taken
    <3>5. audited[i] = decisions[i] /\ Authorized(decisions[i].request)
      BY <1>1, <3>1, <3>4 DEF TInv, AInv, Warranted
    <3> QED BY <3>2, <3>5, TargetsNamed DEF Executed, CapabilityOf
  <2> QED BY <1>1, <2>1 DEF TInv, Delivered, MessagesAuthorized
<1> QED BY <1>1, HarnessTraces, PTL

----------------------------------------------------------------------------
(* Layer 6: verdicts are final                                             *)

(* Whoever is about to write a verdict finds none.                         *)
Unannotated ==
    /\ \A i \in Ids : approvals[i].status # "decided" => approvals[i].verdict = "none"
    /\ \A t \in Threads : work[t].pc = "reject" => approvals[work[t].id].verdict = "none"
    /\ \A t \in Threads : work[t].pc \in {"approval", "annotate"} =>
         LET p == decisions[work[t].id].parent
         IN  /\ p \in Ids /\ decisions[p].decision = "escalate"
             /\ approvals[p].status = "decided" /\ approvals[p].verdict = "none"

(* annotate_approval touches the escalation its decision follows from.     *)
LEMMA AnnotateOnly ==
    ASSUME TypeOK, NEW t \in Threads, Annotate(t), NEW i \in Ids,
           i # decisions[work[t].id].parent
    PROVE  approvals'[i] = approvals[i]
BY Zenon DEF Annotate, TypeOK

(* What becomes of one approval in a step.                                 *)
LEMMA ApprovalSteps ==
    ASSUME TypeOK, Holding, Private, [Next]_vars, NEW i \in Ids
    PROVE  \/ approvals'[i] = approvals[i]
           \/ approvals[i].status = "absent" /\ approvals'[i] = Pristine("pending")
           \/ /\ approvals[i].status = "pending" /\ approvals'[i].status = "decided"
              /\ approvals'[i].verdict = approvals[i].verdict
           \/ \E t \in Threads : Annotate(t) /\ i = decisions[work[t].id].parent
<1>1. ASSUME NEW t \in Threads, SomeDecision(t)
      PROVE  \/ approvals'[i] = approvals[i]
             \/ /\ approvals[i].status = "pending" /\ approvals'[i].status = "decided"
                /\ approvals'[i].verdict = approvals[i].verdict
  <2>1. PICK d \in Decision, s1 \in [ContractIds -> Nat], c1 \in [Keys -> Nat],
             a1 \in [Ids -> Approval], f \in Frame : Decides(t, d, s1, c1, a1, f)
    BY <1>1 DEF SomeDecision
  <2>2. approvals' = approvals \/ approvals' = a1
    BY <2>1, DecisionOutcome DEF Committed, Lost
  <2> QED BY <2>1, <2>2, DecisionTakes
<1>2. ASSUME NEW t \in Threads, ResultFor(t)
      PROVE  \/ approvals'[i] = approvals[i]
             \/ approvals[i].status = "absent" /\ approvals'[i] = Pristine("pending")
  <2>1. work[t].pc = "result" /\ work[t].id \in Ids /\ approvals[work[t].id].status = "absent"
    BY <1>2 DEF ResultFor, Holding, Private, Early
  <2>2. \/ approvals' = approvals
        \/ approvals' = [approvals EXCEPT ![work[t].id] = Pristine("pending")]
    BY <1>2, Zenon DEF ResultFor
  <2> QED BY <2>1, <2>2 DEF TypeOK
<1>3. ASSUME NEW t \in Threads, Annotate(t), i # decisions[work[t].id].parent
      PROVE  approvals'[i] = approvals[i]
  BY <1>3, AnnotateOnly
<1>4. ASSUME NEW t \in Threads, NEW j \in Ids, NEW who \in Principals, RejectTake(t, j, who)
      PROVE  \/ approvals'[i] = approvals[i]
             \/ /\ approvals[i].status = "pending" /\ approvals'[i].status = "decided"
                /\ approvals'[i].verdict = approvals[i].verdict
  BY <1>4 DEF RejectTake, may_decide, take, TypeOK
<1>5. ASSUME NEW t \in Threads,
             \/ ClaimGrant(t) \/ RunTool(t) \/ RecordExecution(t) \/ RecordApproval(t)
             \/ \E j \in Ids, r \in Proposals : CheckGrant(t, j, r)
             \/ \E a \in Agents : Receive(t, a)
      PROVE  approvals' = approvals
  BY <1>5, Zenon DEF ClaimGrant, RunTool, RecordExecution, RecordApproval, CheckGrant,
       Receive, store
<1>6. ASSUME (\E h : Crash(h)) \/ Prune \/ Tick \/ UNCHANGED vars PROVE approvals' = approvals
  BY <1>6, Zenon DEF Crash, Prune, Tick, vars, store
<1> QED BY <1>1, <1>2, <1>3, <1>4, <1>5, <1>6, AuthorityCases, Zenon

(* The thread that writes a verdict is the only one that was to.           *)
LEMMA OneAnnotator ==
    ASSUME TypeOK, Holding, Private, OneVerdict, DecidedOnce, Unannotated,
           NEW t \in Threads, work[t].pc \in {"approval", "annotate"}, NEW u \in Threads
    PROVE  /\ work[u].pc \in {"approval", "annotate"}
                /\ decisions[work[u].id].parent = decisions[work[t].id].parent => u = t
           /\ work[u].pc = "reject" => work[u].id # decisions[work[t].id].parent
<1> DEFINE i == work[t].id
           p == decisions[i].parent
<1>1. /\ i \in Ids /\ Taken(i) /\ p \in Ids /\ decisions[p].decision = "escalate"
  BY DEF Holding, Unannotated, Taken
<1>2. ASSUME work[u].pc \in {"approval", "annotate"}, decisions[work[u].id].parent = p
      PROVE  u = t
  <2>1. work[u].id \in Ids /\ Taken(work[u].id)
    BY <1>2 DEF Holding, Taken
  <2>2. work[u].id = i
    BY <1>1, <1>2, <2>1 DEF DecidedOnce, Taken
  <2> QED BY <1>2, <2>2 DEF Private, Early
<1>3. p # 0
  BY <1>1, Deployment DEF Ids
<1>4. work[u].pc = "reject" => work[u].id # p
  BY <1>1, <1>3 DEF OneVerdict, Taken
<1> QED BY <1>2, <1>4

(* A thread comes to a verdict by approve or reject, which took the        *)
(* escalation, or was there before.                                        *)
LEMMA VerdictThreads ==
    ASSUME TypeOK, Holding, OneVerdict, Unannotated, [Next]_vars, NEW u \in Threads,
           work'[u].pc \in {"approval", "annotate"}
    PROVE  \/ /\ work[u].pc \in {"approval", "annotate"} /\ work'[u].id = work[u].id
              /\ ~Annotate(u)
           \/ LET p == decisions'[work'[u].id].parent
              IN  /\ SomeDecision(u)
                  /\ p \in Ids /\ Taken(p) /\ decisions[p].decision = "escalate"
                  /\ approvals[p].verdict = "none"
                  /\ approvals'[p].status = "decided" /\ approvals'[p].verdict = "none"
<1>1. CASE SomeDecision(u) /\ Records(u)
  <2>1. PICK d \in Decision, s1 \in [ContractIds -> Nat], c1 \in [Keys -> Nat],
             a1 \in [Ids -> Approval], f \in Frame : Decides(u, d, s1, c1, a1, f)
    BY <1>1 DEF SomeDecision
  <2>2. Committed(u, d, s1, c1, a1, f) \/ Lost(u, s1, c1, a1)
    BY <2>1, DecisionOutcome
  <2>3. Committed(u, d, s1, c1, a1, f) /\ f.pc \in {"approval", "annotate"}
    BY <2>2, IdleFrame DEF Committed, Lost
  <2>4. decisions'[work'[u].id] = d /\ approvals' = a1
    <3>1. f # Idle
      BY <2>3, IdleFrame
    <3>2. f.id = ids + 1
      BY <2>1, <3>1 DEF Decides
    <3> QED BY <2>3, <3>2 DEF Committed
  <2>5. CASE Denies(u, d, s1, c1, a1, f)
    <3>1. work[u].pc = "reject" /\ d.parent = work[u].id /\ a1 = approvals
      BY <2>5, Zenon DEF Denies
    <3>2. work[u].id \in Ids /\ Taken(work[u].id)
      BY <3>1 DEF Holding, Taken
    <3>3. approvals[work[u].id].status = "decided" /\ approvals[work[u].id].verdict = "none"
      BY <3>1 DEF OneVerdict, Unannotated
    <3>4. decisions[work[u].id].decision = "escalate"
      BY <3>2, <3>3 DEF OneVerdict
    <3> QED BY <1>1, <2>4, <3>1, <3>2, <3>3, <3>4
  <2>6. CASE Approves(u, d, s1, c1, a1, f)
    <3>1. PICK who \in Principals :
             may_decide(d.parent, who) /\ a1 = take(d.parent, who, "approve")
      BY <2>6, Zenon DEF Approves
    <3>2. d.parent \in Ids
      BY <2>6, Zenon DEF Approves
    <3>3. approvals[d.parent].status = "pending"
      BY <3>1 DEF may_decide
    <3>4. approvals[d.parent].verdict = "none" /\ Taken(d.parent)
      BY <3>2, <3>3 DEF Unannotated, Holding, Taken
    <3>5. decisions[d.parent].decision = "escalate"
      BY <3>2, <3>3 DEF OneVerdict
    <3>6. a1[d.parent].status = "decided" /\ a1[d.parent].verdict = "none"
      BY <3>1, <3>2, <3>4 DEF take, TypeOK
    <3> QED BY <1>1, <2>4, <3>2, <3>4, <3>5, <3>6
  <2>7. f.pc \notin {"result", "idle"}
    BY <2>3
  <2> QED BY <2>1, <2>5, <2>6, <2>7, IdleFrame DEF Decides, Proposes, Delegates, Refuses
<1>2. CASE RecordApproval(u)
  BY <1>2, RecordApprovalMoves, IdleFrame DEF Annotate
<1>3. CASE Annotate(u)
  BY <1>3, AnnotateMoves
<1>4. CASE ResultFor(u) \/ ClaimGrant(u) \/ RunTool(u)
  BY <1>4, ResultForMoves, ClaimGrantMoves, RunToolMoves, IdleFrame
<1>5. CASE \/ \E i \in Ids, r \in Proposals : CheckGrant(u, i, r)
           \/ \E i \in Ids, who \in Principals : RejectTake(u, i, who)
  BY <1>5, CheckGrantMoves, RejectTakeMoves
<1>6. CASE ~Annotate(u) /\ work'[u] = work[u]
  BY <1>6
<1> QED BY <1>1, <1>2, <1>3, <1>4, <1>5, <1>6, ThreadSteps, IdleFrame

(* Every step leaves the verdicts to the threads that owe them.            *)
LEMMA StepUnannotated ==
    ASSUME IInv, Unannotated, [Next]_vars
    PROVE  Unannotated'
<1> USE DEF IInv
<1>1. ASSUME NEW i \in Ids, approvals'[i].status # "decided"
      PROVE  approvals'[i].verdict = "none"
  <2>1. CASE \E t \in Threads : Annotate(t) /\ i = decisions[work[t].id].parent
    <3>1. PICK t \in Threads : Annotate(t) /\ i = decisions[work[t].id].parent
      BY <2>1
    <3>2. work[t].pc = "annotate"
      BY <3>1, AnnotateMoves
    <3>3. approvals[i].status = "decided"
      BY <3>1, <3>2 DEF Unannotated
    <3> QED BY <1>1, <3>1, <3>3, AnnotateApprovals
  <2> QED BY <1>1, <2>1, ApprovalSteps DEF Unannotated, Pristine
<1>2. ASSUME NEW u \in Threads, work'[u].pc = "reject"
      PROVE  approvals'[work'[u].id].verdict = "none"
  <2>1. CASE \E i \in Ids, who \in Principals : RejectTake(u, i, who)
    <3>1. PICK i \in Ids, who \in Principals : RejectTake(u, i, who)
      BY <2>1
    <3>2. work'[u].id = i /\ approvals[i].status = "pending"
      BY <3>1, RejectTakeMoves
    <3>3. approvals' = take(i, who, "reject")
      BY <3>1 DEF RejectTake
    <3>4. approvals[i].verdict = "none"
      BY <3>2 DEF Unannotated
    <3> QED BY <3>2, <3>3, <3>4 DEF take, TypeOK
  <2>2. CASE work'[u] = work[u]
    <3> DEFINE i == work[u].id
    <3>1. /\ i \in Ids /\ approvals[i].status = "decided" /\ approvals[i].verdict = "none"
      BY <1>2, <2>2 DEF Holding, OneVerdict, Unannotated
    <3>2. ASSUME NEW t \in Threads, Annotate(t) PROVE i # decisions[work[t].id].parent
      BY <1>2, <2>2, <3>2, AnnotateMoves, OneAnnotator
    <3> HIDE DEF i
    <3>3. approvals'[i].verdict = "none"
      BY <3>1, <3>2, ApprovalSteps
    <3> QED BY <2>2, <3>3 DEF i
  <2>3. CASE SomeDecision(u) /\ Records(u)
    BY <1>2, <2>3, RecordsMoves, IdleFrame
  <2>4. CASE ResultFor(u) \/ ClaimGrant(u) \/ RunTool(u) \/ RecordApproval(u) \/ Annotate(u)
    BY <1>2, <2>4, ResultForMoves, ClaimGrantMoves, RunToolMoves, RecordApprovalMoves,
       AnnotateMoves, IdleFrame
  <2>5. CASE \E i \in Ids, r \in Proposals : CheckGrant(u, i, r)
    BY <1>2, <2>5, CheckGrantMoves
  <2> QED BY <1>2, <2>1, <2>2, <2>3, <2>4, <2>5, ThreadSteps, IdleFrame
<1>3. ASSUME NEW u \in Threads, work'[u].pc \in {"approval", "annotate"}
      PROVE  LET p == decisions'[work'[u].id].parent
             IN  /\ p \in Ids /\ decisions'[p].decision = "escalate"
                 /\ approvals'[p].status = "decided" /\ approvals'[p].verdict = "none"
  <2>1. CASE LET p == decisions'[work'[u].id].parent
             IN  /\ SomeDecision(u)
                 /\ p \in Ids /\ Taken(p) /\ decisions[p].decision = "escalate"
                 /\ approvals[p].verdict = "none"
                 /\ approvals'[p].status = "decided" /\ approvals'[p].verdict = "none"
    BY <2>1, TakenStays
  <2>2. CASE /\ work[u].pc \in {"approval", "annotate"} /\ work'[u].id = work[u].id
             /\ ~Annotate(u)
    <3> DEFINE i == work[u].id
               p == decisions[i].parent
    <3>1. /\ i \in Ids /\ Taken(i)
          /\ p \in Ids /\ decisions[p].decision = "escalate"
          /\ approvals[p].status = "decided" /\ approvals[p].verdict = "none"
      BY <2>2 DEF Holding, Unannotated, Taken
    <3>2. decisions'[i] = decisions[i]
      BY <3>1, TakenStays
    <3>3. p # 0
      BY <3>1, Deployment DEF Ids
    <3>4. Taken(p)
      BY <3>1, <3>3 DEF OneVerdict, Taken
    <3>5. decisions'[p] = decisions[p]
      BY <3>1, <3>4, TakenStays
    <3>6. ASSUME NEW t \in Threads, Annotate(t) PROVE p # decisions[work[t].id].parent
      BY <2>2, <3>6, AnnotateMoves, OneAnnotator
    <3>7. /\ approvals'[p].status = "decided" /\ approvals'[p].verdict = "none"
      <4> HIDE DEF p
      <4> QED BY <3>1, <3>6, ApprovalSteps
    <3> QED BY <2>2, <3>1, <3>2, <3>5, <3>7
  <2> QED BY <1>3, <2>1, <2>2, VerdictThreads
<1> QED BY <1>1, <1>2, <1>3 DEF Unannotated

(* A decided escalation stays decided: who decided it, and how, never      *)
(* changes, and a verdict once written is not written over, whatever the   *)
(* other approvers and replicas do.                                        *)
THEOREM VerdictsAreFinal == Spec => DecisionsAreFinal
<1>1. ASSUME Init PROVE Unannotated
  BY <1>1, IdleFrame DEF Init, Unannotated, Absent, Pristine
<1>2. ASSUME IInv, Unannotated, [Next]_vars, NEW i \in Ids, approvals[i].status = "decided"
      PROVE  /\ approvals'[i].status = "decided"
             /\ approvals'[i].verb = approvals[i].verb
             /\ approvals'[i].approver = approvals[i].approver
             /\ approvals[i].verdict # "none" => approvals'[i].verdict = approvals[i].verdict
  <2>1. ASSUME NEW t \in Threads, Annotate(t), i = decisions[work[t].id].parent
        PROVE  approvals[i].verdict = "none"
    BY <1>2, <2>1, AnnotateMoves DEF Unannotated, IInv
  <2>2. approvals[i].verdict # "none" => approvals'[i].verdict = approvals[i].verdict
    BY <1>2, <2>1, ApprovalSteps DEF IInv
  <2> QED BY <1>2, <2>2, DecidedStays DEF IInv
<1>3. IInv /\ Unannotated /\ [Next]_vars => Unannotated'
  BY StepUnannotated
<1>4. IInv /\ Unannotated /\ [Next]_vars =>
        [\A i \in Ids : approvals[i].status = "decided" =>
          /\ approvals'[i].status = "decided"
          /\ approvals'[i].verb = approvals[i].verb
          /\ approvals'[i].approver = approvals[i].approver
          /\ approvals[i].verdict # "none" => approvals'[i].verdict = approvals[i].verdict]_vars
  BY <1>2, Zenon
<1> QED BY <1>1, <1>3, <1>4, HarnessInvariant, PTL DEF Spec, DecisionsAreFinal

----------------------------------------------------------------------------
(* Layer 7: budgets hold                                                   *)

(* The allowed decisions on an agent's action.                             *)
Allowed(a, x) ==
    {i \in Ids : /\ Taken(i) /\ decisions[i].decision = "allow"
                 /\ decisions[i].request.agent_id = a /\ decisions[i].request.action = x}

(* The decisions that a step of the contract's budget paid for.            *)
Paid(c) ==
    {i \in Ids : /\ Taken(i) /\ decisions[i].decision # "deny"
                 /\ decisions[i].approved_by = None
                 /\ decisions[i].request.agent_id \in DOMAIN contracts[c].agents}

(* Every allowed decision is counted before it is returned, and none is    *)
(* taken once the counter is at the limit.                                 *)
Charged ==
    /\ \A a \in BoundAgents : \A x \in DOMAIN capabilities_for(a) :
         /\ Cardinality(Allowed(a, x)) <= calls[<<a, x>>]
         /\ "max_calls" \in DOMAIN capabilities_for(a)[x].constraints =>
              calls[<<a, x>>] <= capabilities_for(a)[x].constraints.max_calls
    /\ \A c \in ContractIds :
         /\ Cardinality(Paid(c)) <= steps[c]
         /\ Cardinality(Paid(c)) <= contracts[c].max_steps

(* Sets of decisions can be counted.                                       *)
LEMMA Countable ==
    ASSUME NEW S \in SUBSET Ids
    PROVE  /\ IsFiniteSet(S) /\ Cardinality(S) \in Nat
           /\ \A i \in Ids \ S : Cardinality(S \cup {i}) = Cardinality(S) + 1
<1>1. IsFiniteSet(Ids)
  BY Deployment, FS_Interval DEF Ids
<1>2. IsFiniteSet(S)
  BY <1>1, FS_Subset
<1> QED BY <1>2, FS_CardinalityType, FS_AddElement

(* An agent is declared by one contract, the one it is bound to.           *)
LEMMA OneContract ==
    ASSUME NEW c \in ContractIds, NEW a \in DOMAIN contracts[c].agents
    PROVE  a \in BoundAgents /\ c = bindings[a]
<1>1. a \in BoundAgents
  BY DEF BoundAgents
<1>2. bindings[a] \in ContractIds /\ a \in DOMAIN contracts[bindings[a]].agents
  BY <1>1, BoundContract DEF contract_of
<1> QED BY <1>1, <1>2, ContractsLoaded DEF ValidBindings

(* A capability's key is a counter, its limits are numbers.                *)
LEMMA CapabilityKey ==
    ASSUME NEW a \in BoundAgents, NEW x \in DOMAIN capabilities_for(a)
    PROVE  /\ <<a, x>> \in Keys
           /\ "max_calls" \in DOMAIN capabilities_for(a)[x].constraints =>
                capabilities_for(a)[x].constraints.max_calls \in Nat
<1>1. ValidCapability(x, capabilities_for(a)[x])
  BY EffectOfCapability
<1>2. a \in Agents
  BY BoundContract DEF ValidContract
<1>3. x \in Actions
  BY <1>1, Vocabulary DEF ValidCapability
<1>4. "max_calls" \in DOMAIN capabilities_for(a)[x].constraints =>
         capabilities_for(a)[x].constraints["max_calls"] \in Nat
  BY <1>1 DEF ValidCapability, ValidConstraints
<1> QED BY <1>2, <1>3, <1>4 DEF Keys

(* What a decision costs, and that the budget it is taken from is not yet  *)
(* spent.                                                                  *)
LEMMA DecisionCosts ==
    ASSUME TypeOK, NEW t \in Threads, NEW d \in Decision, NEW s1, NEW c1, NEW a1, NEW f,
           Decides(t, d, s1, c1, a1, f)
    PROVE  LET r == d.request IN
           /\ c1 = add_call(r, d.decision)
           /\ s1 = steps \/ s1 = add_step(r.agent_id)
           /\ d.decision # "deny" =>
                /\ "max_calls" \in DOMAIN CapabilityOf(r).constraints =>
                     ~(calls[<<r.agent_id, r.action>>] >= CapabilityOf(r).constraints.max_calls)
                /\ ~(steps[bindings[r.agent_id]] >= contract_of(r.agent_id).max_steps)
                /\ d.approved_by = None => s1 = add_step(r.agent_id)
<1> DEFINE r == d.request
           ev == evaluate(r, usage_for(r), clock)
<1>1. ASSUME ev.decision # "deny"
      PROVE  /\ "max_calls" \in DOMAIN CapabilityOf(r).constraints =>
                   ~(calls[<<r.agent_id, r.action>>] >= CapabilityOf(r).constraints.max_calls)
             /\ ~(steps[bindings[r.agent_id]] >= contract_of(r.agent_id).max_steps)
  <2>1. /\ ~problems(r) /\ r.agent_id \in BoundAgents
        /\ ~(usage_for(r).steps >= contract_of(r.agent_id).max_steps)
        /\ ~("max_calls" \in DOMAIN CapabilityOf(r).constraints
               /\ usage_for(r).calls >= CapabilityOf(r).constraints.max_calls)
    BY <1>1, GrantedMeans, Zenon DEF CapabilityOf
  <2>2. /\ usage_for(r).steps = steps[bindings[r.agent_id]]
        /\ usage_for(r).calls = calls[<<r.agent_id, r.action>>]
    BY <2>1 DEF usage_for
  <2> QED BY <2>1, <2>2
<1>2. CASE Judges(d, s1, c1)
  BY <1>1, <1>2, Zenon DEF Judges
<1>3. CASE Approves(t, d, s1, c1, a1, f)
  <2>1. /\ s1 = steps /\ c1 = add_call(r, d.decision)
        /\ d.decision # "deny" => ev.decision # "deny" /\ d.approved_by \in Principals
    BY <1>3, Zenon DEF Approves
  <2>2. d.decision # "deny" => d.approved_by # None
    BY <2>1, Vocabulary
  <2> QED BY <1>1, <2>1, <2>2, Zenon
<1>4. CASE d.decision = "deny" /\ s1 = steps /\ c1 = calls
  BY <1>4, Zenon DEF add_call
<1> QED BY <1>2, <1>3, <1>4, Zenon DEF Decides, Proposes, Delegates, Refuses, Denies

(* What the counters become, one by one.                                   *)
LEMMA CountersGrow ==
    ASSUME TypeOK, NEW r, NEW e
    PROVE  /\ \A k \in Keys : add_call(r, e)[k] =
                IF e = "allow" /\ k = <<r.agent_id, r.action>> THEN calls[k] + 1 ELSE calls[k]
           /\ \A c \in ContractIds : add_step(r.agent_id)[c] =
                IF r.agent_id \in BoundAgents /\ c = bindings[r.agent_id]
                    THEN steps[c] + 1 ELSE steps[c]
<1>1. \A k \in Keys : add_call(r, e)[k] =
        IF e = "allow" /\ k = <<r.agent_id, r.action>> THEN calls[k] + 1 ELSE calls[k]
  BY DEF add_call, TypeOK
<1>2. \A c \in ContractIds : add_step(r.agent_id)[c] =
        IF r.agent_id \in BoundAgents /\ c = bindings[r.agent_id] THEN steps[c] + 1 ELSE steps[c]
  <2> DEFINE a == r.agent_id
             b == bindings[a]
  <2>1. steps \in [ContractIds -> Nat]
    BY DEF TypeOK
  <2>2. add_step(a) = IF a \in BoundAgents THEN [steps EXCEPT ![b] = @ + 1] ELSE steps
    BY Zenon DEF add_step
  <2> HIDE DEF a, b
  <2>3. \A c \in ContractIds : add_step(a)[c] =
          IF a \in BoundAgents /\ c = b THEN steps[c] + 1 ELSE steps[c]
    BY <2>1, <2>2
  <2> QED BY <2>3 DEF a, b
<1> QED BY <1>1, <1>2

(* Every step charges what it allows.                                      *)
LEMMA StepCharged ==
    ASSUME TypeOK, Holding, Charged, [Next]_vars
    PROVE  Charged'
<1>1. CASE Quiet
  <2>1. decisions' = decisions /\ calls' = calls /\ steps' = steps
    BY <1>1 DEF Quiet
  <2>2. \A a, x : Allowed(a, x)' = Allowed(a, x)
    BY <2>1 DEF Allowed, Taken
  <2>3. \A c : Paid(c)' = Paid(c)
    BY <2>1 DEF Paid, Taken
  <2> QED BY <2>1, <2>2, <2>3, Zenon DEF Charged
<1>2. ASSUME NEW t \in Threads, NEW d \in Decision, NEW s1 \in [ContractIds -> Nat],
             NEW c1 \in [Keys -> Nat], NEW a1 \in [Ids -> Approval],
             NEW f \in Frame, Decides(t, d, s1, c1, a1, f)
      PROVE  Charged'
  <2> DEFINE r == d.request
             n == ids + 1
  <2>1. /\ n \in Ids /\ decisions[n] = NoDecision
        /\ \A i \in Ids : i # n => decisions'[i] = decisions[i]
        /\ \/ decisions'[n] = d /\ calls' = c1 /\ steps' = s1
           \/ /\ decisions' = decisions
              /\ calls' = calls \/ calls' = c1
              /\ steps' = steps \/ steps' = s1
    BY <1>2, DecisionOutcome DEF Committed, Lost
  <2>2. /\ c1 = add_call(r, d.decision)
        /\ s1 = steps \/ s1 = add_step(r.agent_id)
        /\ d.decision # "deny" =>
             /\ "max_calls" \in DOMAIN CapabilityOf(r).constraints =>
                  ~(calls[<<r.agent_id, r.action>>] >= CapabilityOf(r).constraints.max_calls)
             /\ ~(steps[bindings[r.agent_id]] >= contract_of(r.agent_id).max_steps)
             /\ d.approved_by = None => s1 = add_step(r.agent_id)
    BY <1>2, DecisionCosts
  <2>3. d \in Decision /\ d # NoDecision
    BY <1>2, Deployment
  <2> HIDE DEF n, r
  <2>4. ASSUME NEW a \in BoundAgents, NEW x \in DOMAIN capabilities_for(a)
        PROVE  /\ Cardinality(Allowed(a, x)') <= calls'[<<a, x>>]
               /\ "max_calls" \in DOMAIN capabilities_for(a)[x].constraints =>
                    calls'[<<a, x>>] <= capabilities_for(a)[x].constraints.max_calls
    <3> DEFINE k == <<a, x>>
               m == capabilities_for(a)[x].constraints.max_calls
               limited == "max_calls" \in DOMAIN capabilities_for(a)[x].constraints
               hit == d.decision = "allow" /\ k = <<r.agent_id, r.action>>
    <3>1. k \in Keys /\ calls[k] \in Nat /\ (limited => m \in Nat)
      BY CapabilityKey DEF TypeOK
    <3>2. /\ Cardinality(Allowed(a, x)) <= calls[k]
          /\ limited => calls[k] <= m
      BY Zenon DEF Charged
    <3>3. c1[k] = IF hit THEN calls[k] + 1 ELSE calls[k]
      BY <2>2, <3>1, CountersGrow
    <3>4. hit /\ limited => ~(calls[k] >= m)
      BY <2>2 DEF CapabilityOf
    <3>5. /\ Allowed(a, x) \in SUBSET Ids /\ n \notin Allowed(a, x)
          /\ Cardinality(Allowed(a, x)) \in Nat
      <4>1. Allowed(a, x) \in SUBSET Ids /\ n \notin Allowed(a, x)
        BY <2>1 DEF Allowed, Taken
      <4> QED BY <4>1, Countable
    <3>6. Cardinality(Allowed(a, x) \cup {n}) = Cardinality(Allowed(a, x)) + 1
      BY <2>1, <3>5, Countable
    <3>7. CASE decisions'[n] = d /\ calls' = c1
      <4>1. CASE hit
        <5>1. Allowed(a, x)' = Allowed(a, x) \cup {n}
          BY <2>1, <2>3, <3>7, <4>1 DEF Allowed, Taken, r
        <5> HIDE DEF k, m, limited
        <5> QED BY <3>1, <3>2, <3>3, <3>4, <3>5, <3>6, <3>7, <4>1, <5>1 DEF k, m, limited
      <4>2. CASE ~hit
        <5>1. Allowed(a, x)' = Allowed(a, x)
          BY <2>1, <2>3, <3>7, <4>2 DEF Allowed, Taken, r
        <5> QED BY <3>2, <3>3, <3>7, <4>2, <5>1
      <4> QED BY <4>1, <4>2
    <3>8. CASE decisions' = decisions /\ (calls' = calls \/ calls' = c1)
      <4>1. Allowed(a, x)' = Allowed(a, x)
        BY <3>8 DEF Allowed, Taken
      <4>2. calls'[k] = calls[k] \/ (hit /\ calls'[k] = calls[k] + 1)
        BY <3>3, <3>8
      <4>3. Cardinality(Allowed(a, x)) <= calls'[k]
        <5> HIDE DEF k, hit
        <5> QED BY <3>1, <3>2, <3>5, <4>2
      <4>4. limited => calls'[k] <= m
        <5> HIDE DEF k, hit, m, limited
        <5> QED BY <3>1, <3>2, <3>4, <4>2
      <4> QED BY <4>1, <4>3, <4>4
    <3> QED BY <2>1, <3>7, <3>8
  <2>5. ASSUME NEW c \in ContractIds
        PROVE  /\ Cardinality(Paid(c)') <= steps'[c]
               /\ Cardinality(Paid(c)') <= contracts[c].max_steps
    <3> DEFINE m == contracts[c].max_steps
               hit == /\ d.decision # "deny" /\ d.approved_by = None
                      /\ r.agent_id \in DOMAIN contracts[c].agents
    <3>1. steps[c] \in Nat /\ m \in Nat
      BY ContractsLoaded DEF TypeOK, ValidContract
    <3>2. Cardinality(Paid(c)) <= steps[c] /\ Cardinality(Paid(c)) <= m
      BY DEF Charged
    <3>3. hit => r.agent_id \in BoundAgents /\ c = bindings[r.agent_id]
      BY OneContract
    <3>4. hit => ~(steps[c] >= m) /\ s1[c] = steps[c] + 1
      BY <2>2, <3>3, CountersGrow DEF contract_of
    <3>5. s1[c] = steps[c] \/ s1[c] = steps[c] + 1
      BY <2>2, CountersGrow
    <3>6. /\ Paid(c) \in SUBSET Ids /\ n \notin Paid(c)
          /\ Cardinality(Paid(c)) \in Nat
      <4>1. Paid(c) \in SUBSET Ids /\ n \notin Paid(c)
        BY <2>1 DEF Paid, Taken
      <4> QED BY <4>1, Countable
    <3>7. Cardinality(Paid(c) \cup {n}) = Cardinality(Paid(c)) + 1
      BY <2>1, <3>6, Countable
    <3>8. CASE decisions'[n] = d /\ steps' = s1 /\ hit
      <4>1. Paid(c)' = Paid(c) \cup {n}
        BY <2>1, <2>3, <3>8 DEF Paid, Taken, r
      <4> QED BY <3>1, <3>2, <3>4, <3>6, <3>7, <3>8, <4>1
    <3>9. CASE \/ decisions'[n] = d /\ steps' = s1 /\ ~hit
               \/ decisions' = decisions /\ (steps' = steps \/ steps' = s1)
      <4>1. Paid(c)' = Paid(c)
        BY <2>1, <2>3, <3>9 DEF Paid, Taken, r
      <4>2. steps'[c] = steps[c] \/ steps'[c] = steps[c] + 1
        BY <3>5, <3>9
      <4> QED BY <3>1, <3>2, <3>6, <4>1, <4>2
    <3> QED BY <2>1, <3>8, <3>9
  <2> QED BY <2>4, <2>5 DEF Charged
<1> QED BY <1>1, <1>2, DecidesOrQuiet DEF SomeDecision

(* Nothing is decided at first, and nothing counted.                       *)
LEMMA InitCharged == Init => Charged
<1> SUFFICES ASSUME Init PROVE Charged
  OBVIOUS
<1>1. \A i \in Ids : decisions[i] = NoDecision
  BY DEF Init
<1>2. \A a, x : Allowed(a, x) = {}
  BY <1>1 DEF Allowed, Taken
<1>3. \A c : Paid(c) = {}
  BY <1>1 DEF Paid, Taken
<1>4. Cardinality({}) = 0
  BY FS_EmptySet
<1>5. ASSUME NEW a \in BoundAgents, NEW x \in DOMAIN capabilities_for(a)
      PROVE  /\ Cardinality(Allowed(a, x)) <= calls[<<a, x>>]
             /\ "max_calls" \in DOMAIN capabilities_for(a)[x].constraints =>
                  calls[<<a, x>>] <= capabilities_for(a)[x].constraints.max_calls
  <2>1. calls[<<a, x>>] = 0
    BY CapabilityKey DEF Init
  <2>2. Cardinality(Allowed(a, x)) = 0
    BY <1>2, <1>4
  <2> QED BY <2>1, <2>2, CapabilityKey
<1>6. ASSUME NEW c \in ContractIds
      PROVE  Cardinality(Paid(c)) <= steps[c] /\ Cardinality(Paid(c)) <= contracts[c].max_steps
  <2>1. Cardinality(Paid(c)) = 0
    BY <1>3, <1>4
  <2> QED BY <2>1, ContractsLoaded DEF Init, ValidContract
<1> QED BY <1>5, <1>6 DEF Charged

(* What runs was allowed, and it or the escalation it was approved from    *)
(* was paid for.                                                           *)
LEMMA RunsArePaid ==
    ASSUME AInv, NEW i \in Ids, NEW k \in DOMAIN ran[i]
    PROVE  /\ Taken(i) /\ decisions[i].decision = "allow"
           /\ SameCall(ran[i][k], decisions[i].request)
           /\ decisions[i].approved_by # None =>
                ConsentedBy(decisions[i], decisions[i].parent)
<1>1. minted[i] # Never /\ SameCall(ran[i][k], decisions[i].request)
  BY DEF AInv, Granted
<1>2. Taken(i) /\ decisions[i].decision = "allow"
  BY <1>1 DEF AInv, IInv, Granted, Holding, Taken
<1> QED BY <1>1, <1>2 DEF AInv, Consented

(* Executions under a contract are no more than the steps paid for: an     *)
(* approved one stands for its escalation, which is decided once.          *)
LEMMA ExecutionsArePaid ==
    ASSUME AInv, NEW c \in ContractIds
    PROVE  Cardinality(ExecutedUnder(c)) <= Cardinality(Paid(c))
<1> DEFINE S == ExecutedUnder(c)
           root == [i \in S |-> IF decisions[i].approved_by # None
                                  THEN decisions[i].parent ELSE i]
<1>1. ASSUME NEW i \in S
      PROVE  /\ i \in Ids /\ Taken(i) /\ decisions[i].decision = "allow"
             /\ decisions[i].request.agent_id \in DOMAIN contracts[c].agents
             /\ decisions[i].approved_by # None =>
                  ConsentedBy(decisions[i], decisions[i].parent)
  <2>1. i \in Ids
    BY DEF ExecutedUnder
  <2>2. PICK k \in DOMAIN ran[i] : ran[i][k].agent_id \in DOMAIN contracts[c].agents
    BY DEF ExecutedUnder
  <2> QED BY <2>1, <2>2, RunsArePaid DEF SameCall
<1>2. ASSUME NEW i \in S PROVE root[i] \in Paid(c)
  <2>1. CASE decisions[i].approved_by = None
    BY <1>1, <2>1 DEF Paid
  <2>2. CASE decisions[i].approved_by # None
    <3>1. ConsentedBy(decisions[i], decisions[i].parent)
      BY <1>1, <2>2
    <3>2. /\ decisions[i].parent \in Ids /\ Taken(decisions[i].parent)
          /\ decisions[decisions[i].parent].decision = "escalate"
          /\ decisions[decisions[i].parent].approved_by = None
          /\ decisions[decisions[i].parent].request = decisions[i].request
      BY <3>1 DEF ConsentedBy
    <3> QED BY <1>1, <2>2, <3>2 DEF Paid
  <2> QED BY <2>1, <2>2
<1>3. ASSUME NEW i \in S, NEW j \in S, root[i] = root[j] PROVE i = j
  <2>1. CASE decisions[i].approved_by = None /\ decisions[j].approved_by = None
    BY <1>3, <2>1
  <2>2. CASE decisions[i].approved_by # None /\ decisions[j].approved_by # None
    <3>1. decisions[i].parent = decisions[j].parent
      BY <1>3, <2>2
    <3>2. /\ decisions[i].parent \in Ids
          /\ decisions[decisions[i].parent].decision = "escalate"
      BY <1>1, <2>2 DEF ConsentedBy
    <3> QED BY <1>1, <3>1, <3>2 DEF AInv, IInv, DecidedOnce, Taken
  <2>3. ASSUME NEW e \in S, NEW g \in S, root[e] = root[g],
               decisions[e].approved_by # None, decisions[g].approved_by = None
        PROVE  FALSE
    <3>1. decisions[e].parent = g
      BY <2>3
    <3>2. decisions[decisions[e].parent].decision = "escalate"
      BY <1>1, <2>3 DEF ConsentedBy
    <3> QED BY <1>1, <3>1, <3>2
  <2> QED BY <1>3, <2>1, <2>2, <2>3
<1>4. root \in Injection(S, Paid(c))
  <2> HIDE DEF S
  <2> QED BY <1>2, <1>3 DEF Injection, IsInjective
<1>5. IsFiniteSet(Paid(c))
  BY Countable DEF Paid
<1> HIDE DEF root, S
<1>6. Cardinality(S) <= Cardinality(Paid(c))
  BY <1>4, <1>5, FS_Injection
<1> QED BY <1>6 DEF S

(* No interleaving of proposals, approvals, replays and failures executes  *)
(* an action more often than its max_calls, or more under a contract than  *)
(* its max_steps: for any contracts, threads, replicas and number of       *)
(* failures, on a store that rolls back and on one that does not.          *)
THEOREM BudgetsHold == Spec => []WithinBudget
<1>1. ASSUME AInv, Charged PROVE WithinBudget
  <2>1. ASSUME NEW a \in BoundAgents, NEW x \in DOMAIN capabilities_for(a),
               "max_calls" \in DOMAIN capabilities_for(a)[x].constraints
        PROVE  Cardinality(ExecutedCalls(a, x)) <= capabilities_for(a)[x].constraints.max_calls
    <3> DEFINE m == capabilities_for(a)[x].constraints.max_calls
    <3>1. Cardinality(Allowed(a, x)) <= calls[<<a, x>>] /\ calls[<<a, x>>] <= m
      BY <1>1, <2>1 DEF Charged
    <3>2. calls[<<a, x>>] \in Nat /\ m \in Nat
      BY <1>1, <2>1, CapabilityKey DEF AInv, IInv, TypeOK
    <3>3. ExecutedCalls(a, x) \subseteq Allowed(a, x)
      BY <1>1, RunsArePaid DEF ExecutedCalls, Allowed, SameCall
    <3>4. Allowed(a, x) \in SUBSET Ids
      BY DEF Allowed
    <3>5. /\ Cardinality(Allowed(a, x)) \in Nat /\ Cardinality(ExecutedCalls(a, x)) \in Nat
          /\ Cardinality(ExecutedCalls(a, x)) <= Cardinality(Allowed(a, x))
      <4>1. IsFiniteSet(Allowed(a, x)) /\ Cardinality(Allowed(a, x)) \in Nat
        BY <3>4, Countable
      <4>2. Cardinality(ExecutedCalls(a, x)) \in Nat
        BY <3>3, <3>4, Countable
      <4> QED BY <3>3, <4>1, <4>2, FS_Subset
    <3> HIDE DEF m
    <3>6. Cardinality(ExecutedCalls(a, x)) <= m
      BY <3>1, <3>2, <3>5
    <3> QED BY <3>6 DEF m
  <2>2. ASSUME NEW c \in ContractIds
        PROVE  Cardinality(ExecutedUnder(c)) <= contracts[c].max_steps
    <3>1. Cardinality(Paid(c)) <= contracts[c].max_steps
      BY <1>1 DEF Charged
    <3>2. Cardinality(ExecutedUnder(c)) <= Cardinality(Paid(c))
      BY <1>1, ExecutionsArePaid
    <3>3. contracts[c].max_steps \in Nat
      BY ContractsLoaded DEF ValidContract
    <3>4. Cardinality(Paid(c)) \in Nat
      BY Countable DEF Paid
    <3>5. Cardinality(ExecutedUnder(c)) \in Nat
      BY Countable DEF ExecutedUnder
    <3> QED BY <3>1, <3>2, <3>3, <3>4, <3>5
  <2> QED BY <2>1, <2>2 DEF WithinBudget
<1>2. Init => Charged
  BY InitCharged
<1>3. IInv /\ Charged /\ [Next]_vars => Charged'
  BY StepCharged DEF IInv
<1> QED BY <1>1, <1>2, <1>3, HarnessInvariant, HarnessAuthority, PTL DEF Spec

----------------------------------------------------------------------------
(* Layer 8: what a failure can lose, on a store that rolls back            *)

(* An approval is taken to approve it only with the decision recorded.     *)
LEMMA ApproveSteps ==
    ASSUME TypeOK, Holding, Private, Durable, [Next]_vars, NEW i \in Ids,
           approvals'[i].verb = "approve"
    PROVE  \/ approvals[i].verb = "approve"
           \/ /\ approvals[i].status = "pending"
              /\ \E t \in Threads, d \in Decision, s1 \in [ContractIds -> Nat],
                    c1 \in [Keys -> Nat], a1 \in [Ids -> Approval], f \in Frame :
                   /\ Decides(t, d, s1, c1, a1, f) /\ Committed(t, d, s1, c1, a1, f)
                   /\ d.parent = i
<1>1. ASSUME NEW t \in Threads, SomeDecision(t), approvals[i].verb # "approve"
      PROVE  /\ approvals[i].status = "pending"
             /\ \E d \in Decision, s1 \in [ContractIds -> Nat],
                   c1 \in [Keys -> Nat], a1 \in [Ids -> Approval], f \in Frame :
                  /\ Decides(t, d, s1, c1, a1, f) /\ Committed(t, d, s1, c1, a1, f)
                  /\ d.parent = i
  <2>1. PICK d \in Decision, s1 \in [ContractIds -> Nat], c1 \in [Keys -> Nat],
             a1 \in [Ids -> Approval], f \in Frame : Decides(t, d, s1, c1, a1, f)
    BY <1>1 DEF SomeDecision
  <2>2. Committed(t, d, s1, c1, a1, f)
    BY <1>1, <2>1, DecisionOutcome DEF Lost
  <2>3. approvals' = a1
    BY <2>2 DEF Committed
  <2>4. i = d.parent /\ approvals[i].status = "pending"
    BY <1>1, <2>1, <2>3, DecisionTakes
  <2> QED BY <2>1, <2>2, <2>4
<1>2. ASSUME NEW t \in Threads, ResultFor(t) PROVE approvals[i].verb = "approve"
  <2>1. \/ approvals' = approvals
        \/ approvals' = [approvals EXCEPT ![work[t].id] = Pristine("pending")]
    BY <1>2, Zenon DEF ResultFor
  <2>2. Pristine("pending").verb = "none"
    BY DEF Pristine
  <2> QED BY <2>1, <2>2 DEF TypeOK
<1>3. ASSUME NEW t \in Threads, Annotate(t) PROVE approvals[i].verb = "approve"
  BY <1>3, AnnotateApprovals
<1>4. ASSUME NEW t \in Threads, NEW j \in Ids, NEW who \in Principals, RejectTake(t, j, who)
      PROVE  approvals[i].verb = "approve"
  BY <1>4 DEF RejectTake, take, TypeOK
<1>5. ASSUME NEW t \in Threads,
             \/ ClaimGrant(t) \/ RunTool(t) \/ RecordExecution(t) \/ RecordApproval(t)
             \/ \E j \in Ids, r \in Proposals : CheckGrant(t, j, r)
             \/ \E a \in Agents : Receive(t, a)
      PROVE  approvals' = approvals
  BY <1>5, Zenon DEF ClaimGrant, RunTool, RecordExecution, RecordApproval, CheckGrant,
       Receive, store
<1>6. ASSUME (\E h : Crash(h)) \/ Prune \/ Tick \/ UNCHANGED vars PROVE approvals' = approvals
  BY <1>6, Zenon DEF Crash, Prune, Tick, vars, store
<1> QED BY <1>1, <1>2, <1>3, <1>4, <1>5, <1>6, AuthorityCases, Zenon

(* On a store that rolls back, an approval that was taken to approve it    *)
(* has its decision: no failure between the two loses the human's verdict. *)
THEOREM TakesAreNotLost == Spec => [](Durable => TakeNotLost)
<1>1. ASSUME Init PROVE TakeNotLost
  BY <1>1 DEF Init, TakeNotLost, Absent, Pristine
<1>2. ASSUME IInv, Durable, TakeNotLost, [Next]_vars PROVE TakeNotLost'
  <2> SUFFICES ASSUME NEW i \in Ids, approvals'[i].verb = "approve"
               PROVE  \E j \in Ids : decisions'[j] # NoDecision /\ decisions'[j].parent = i
    BY DEF TakeNotLost
  <2>1. CASE approvals[i].verb = "approve"
    <3>1. PICK j \in Ids : Taken(j) /\ decisions[j].parent = i
      BY <1>2, <2>1 DEF TakeNotLost, Taken
    <3> QED BY <1>2, <3>1, TakenStays DEF IInv, Taken
  <2>2. ASSUME NEW t \in Threads, NEW d \in Decision, NEW s1, NEW c1, NEW a1, NEW f \in Frame,
               Decides(t, d, s1, c1, a1, f), Committed(t, d, s1, c1, a1, f), d.parent = i
        PROVE  \E j \in Ids : decisions'[j] # NoDecision /\ decisions'[j].parent = i
    <3>1. ids + 1 \in Ids
      BY <1>2, <2>2, DecisionOutcome DEF IInv
    <3>2. decisions'[ids + 1] = d /\ d # NoDecision
      BY <2>2, Deployment DEF Committed
    <3> QED BY <2>2, <3>1, <3>2
  <2> QED BY <1>2, <2>1, <2>2, ApproveSteps DEF IInv
<1>3. Init => (Durable => TakeNotLost)
  BY <1>1
<1>4. IInv /\ (Durable => TakeNotLost) /\ [Next]_vars => (Durable => TakeNotLost)'
  BY <1>2
<1> QED BY <1>3, <1>4, HarnessInvariant, PTL DEF Spec

(* The decisions on a contract's agents.                                   *)
Spent(c) == {k \in Ids : Of(c, k)}

(* Steps are counted for decisions of the contract's own agents only, and  *)
(* between an escalation and the last of its action's calls such a         *)
(* decision comes in between.  Whoever is taken is decided.                *)
Accounted ==
    /\ \A c \in ContractIds : steps[c] <= Cardinality(Spent(c))
    /\ \A p \in Ids : Taken(p) /\ decisions[p].decision = "escalate" =>
         LET r == decisions[p].request
         IN  \/ \E k \in Ids : p < k /\ Of(bindings[r.agent_id], k)
             \/ "max_calls" \in DOMAIN CapabilityOf(r).constraints =>
                  calls[<<r.agent_id, r.action>>] < CapabilityOf(r).constraints.max_calls
    /\ \A i \in Ids : approvals[i].verb = "approve" => approvals[i].status = "decided"

(* A decision of the contract's agents stays one.                          *)
LEMMA OfStays ==
    ASSUME TypeOK, Holding, [Next]_vars, NEW c, NEW k \in Ids, Of(c, k)
    PROVE  Of(c, k)'
<1>1. decisions'[k] = decisions[k]
  BY TakenStays DEF Of, Taken
<1> QED BY <1>1 DEF Of

(* What an agent is charged is charged to the contract that declares it.   *)
LEMMA StepAccounted ==
    ASSUME TypeOK, Holding, Private, OneVerdict, Warranted, Accounted, Durable, [Next]_vars
    PROVE  Accounted'
<1>1. ASSUME NEW i \in Ids, approvals'[i].verb = "approve"
      PROVE  approvals'[i].status = "decided"
  <2>1. CASE approvals[i].verb = "approve"
    BY <2>1, DecidedStays DEF Accounted
  <2>2. ASSUME NEW t \in Threads, NEW d \in Decision, NEW s1, NEW c1, NEW a1, NEW f \in Frame,
               Decides(t, d, s1, c1, a1, f), Committed(t, d, s1, c1, a1, f),
               approvals[i].verb # "approve"
        PROVE  approvals'[i].status = "decided"
    BY <1>1, <2>2, DecisionTakes DEF Committed
  <2> QED BY <1>1, <2>1, <2>2, ApproveSteps
<1>2. CASE Quiet
  <2>1. decisions' = decisions /\ steps' = steps /\ calls' = calls
    BY <1>2 DEF Quiet
  <2>2. \A c : Spent(c)' = Spent(c)
    BY <2>1 DEF Spent, Of
  <2> QED BY <1>1, <2>1, <2>2 DEF Accounted, Of, Taken
<1>3. ASSUME NEW t \in Threads, NEW d \in Decision, NEW s1 \in [ContractIds -> Nat],
             NEW c1 \in [Keys -> Nat], NEW a1 \in [Ids -> Approval],
             NEW f \in Frame, Decides(t, d, s1, c1, a1, f)
      PROVE  Accounted'
  <2>0. PICK n \in Ids : n = ids + 1
    BY <1>3, DecisionOutcome
  <2>1. /\ decisions[n] = NoDecision /\ \A i \in Ids : i > ids => ~Taken(i)
        /\ ids \in Nat
        /\ \A i \in Ids : i # n => decisions'[i] = decisions[i]
        /\ \/ decisions'[n] = d /\ calls' = c1 /\ steps' = s1
           \/ decisions' = decisions /\ calls' = calls /\ steps' = steps
    BY <1>3, <2>0, DecisionOutcome DEF Committed, Lost, Holding, Taken
  <2>2. d # NoDecision
    BY Deployment
  <2>3. /\ c1 = add_call(d.request, d.decision)
        /\ s1 = steps \/ s1 = add_step(d.request.agent_id)
        /\ d.decision # "deny" /\ "max_calls" \in DOMAIN CapabilityOf(d.request).constraints =>
                  ~(calls[<<d.request.agent_id, d.request.action>>]
                      >= CapabilityOf(d.request).constraints.max_calls)
    BY <1>3, DecisionCosts
  <2>4. d.decision # "deny" => Authorized(d.request)
    BY <1>3, DecisionWarranted
  <2>5. ASSUME NEW c \in ContractIds PROVE steps'[c] <= Cardinality(Spent(c)')
    <3> DEFINE mine == decisions'[n] = d /\ d.request.agent_id \in DOMAIN contracts[c].agents
    <3>1. /\ steps[c] \in Nat /\ steps[c] <= Cardinality(Spent(c))
      BY DEF Accounted, TypeOK
    <3>2. Spent(c) \in SUBSET Ids /\ n \notin Spent(c)
      BY <2>1 DEF Spent, Of
    <3>3. /\ Cardinality(Spent(c)) \in Nat
          /\ Cardinality(Spent(c) \cup {n}) = Cardinality(Spent(c)) + 1
      BY <2>1, <3>2, Countable
    <3>4. CASE mine
      <4>1. Spent(c)' = Spent(c) \cup {n}
        BY <2>1, <2>2, <3>4 DEF Spent, Of
      <4>2. steps'[c] = steps[c] \/ steps'[c] = steps[c] + 1
        BY <2>1, <2>3, CountersGrow
      <4> QED BY <3>1, <3>3, <4>1, <4>2
    <3>5. CASE ~mine
      <4>1. Spent(c)' = Spent(c)
        BY <2>1, <2>2, <3>5 DEF Spent, Of
      <4>2. steps'[c] = steps[c]
        <5>1. CASE steps' = s1 /\ decisions'[n] = d
          <6>1. d.request.agent_id \in BoundAgents => c # bindings[d.request.agent_id]
            BY <3>5, <5>1, BoundContract DEF contract_of
          <6> QED BY <2>3, <5>1, <6>1, CountersGrow
        <5> QED BY <2>1, <5>1
      <4> QED BY <3>1, <4>1, <4>2
    <3> QED BY <3>4, <3>5
  <2>6. ASSUME NEW p \in Ids, Taken(p)', decisions'[p].decision = "escalate",
               "max_calls" \in DOMAIN CapabilityOf(decisions'[p].request).constraints
        PROVE  \/ \E k \in Ids : p < k /\ Of(bindings[decisions[p].request.agent_id], k)'
               \/ calls'[<<decisions'[p].request.agent_id, decisions'[p].request.action>>]
                    < CapabilityOf(decisions'[p].request).constraints.max_calls
    <3> DEFINE r == decisions'[p].request
               k == <<r.agent_id, r.action>>
               m == CapabilityOf(r).constraints.max_calls
    <3>1. Authorized(r)
      BY <2>1, <2>4, <2>6 DEF Warranted, Taken
    <3>2. k \in Keys /\ m \in Nat /\ calls[k] \in Nat
      BY <2>6, <3>1, CapabilityKey DEF Authorized, CapabilityOf, TypeOK
    <3>3. calls'[k] = calls[k] \/
             /\ decisions'[n] = d /\ d.decision = "allow" /\ k = <<d.request.agent_id, d.request.action>>
             /\ calls'[k] = calls[k] + 1
      BY <2>1, <2>3, <3>2, CountersGrow
    <3>4. CASE p = n
      <4>1. decisions'[n] = d
        BY <2>1, <2>6, <3>4 DEF Taken
      <4>2. ~(calls[k] >= m)
        BY <2>3, <2>6, <3>4, <4>1
      <4>3. calls'[k] = calls[k]
        BY <2>6, <3>3, <3>4, <4>1
      <4> HIDE DEF k, m
      <4>4. calls'[k] < m
        BY <3>2, <4>2, <4>3
      <4> QED BY <4>4 DEF k, m
    <3>5. CASE p # n
      <4>1. decisions'[p] = decisions[p] /\ Taken(p)
        BY <2>1, <2>6, <3>5 DEF Taken
      <4>2. p < n
        BY <2>0, <2>1, <3>5, <4>1 DEF Ids
      <4>3. CASE \E j \in Ids : p < j /\ Of(bindings[r.agent_id], j)
        BY <4>1, <4>3, OfStays
      <4>4. CASE calls[k] < m
        <5>1. CASE calls'[k] = calls[k]
          BY <4>4, <5>1
        <5>2. CASE /\ decisions'[n] = d /\ d.decision = "allow"
                   /\ k = <<d.request.agent_id, d.request.action>>
          <6>1. d.request.agent_id = r.agent_id
            BY <5>2
          <6>2. r.agent_id \in DOMAIN contracts[bindings[r.agent_id]].agents
            BY <3>1, BoundContract DEF Authorized, contract_of
          <6>3. Of(bindings[decisions[p].request.agent_id], n)'
            BY <2>2, <4>1, <5>2, <6>1, <6>2 DEF Of
          <6> QED BY <4>1, <4>2, <6>3
        <5> QED BY <3>3, <5>1, <5>2
      <4> QED BY <2>6, <4>1, <4>3, <4>4 DEF Accounted
    <3> QED BY <3>4, <3>5
  <2> QED BY <1>1, <2>5, <2>6 DEF Accounted
<1> QED BY <1>2, <1>3, DecidesOrQuiet DEF SomeDecision

(* Why an approval finds its budget spent.                                 *)
LEMMA SupersededStep ==
    ASSUME TypeOK, Holding, OneVerdict, Warranted, Accounted,
           NEW t \in Threads, NEW d \in Decision, NEW s1, NEW c1, NEW a1, NEW f \in Frame,
           Decides(t, d, s1, c1, a1, f), d.parent \in Ids,
           decisions[d.parent].decision = "escalate", d.reason = "BUDGET_EXHAUSTED"
    PROVE  LET c == bindings[decisions[d.parent].request.agent_id]
           IN  \/ \E k \in Ids : d.parent < k /\ Of(c, k)
               \/ Cardinality({k \in 1..d.parent : Of(c, k)}) >= contracts[c].max_steps
<1> DEFINE p == d.parent
           r == decisions[p].request
           c == bindings[r.agent_id]
<1>1. d.parent # 0
  BY Deployment DEF Ids
<1>2. CASE Delegates(t, d, s1, c1, a1, f)
  <2>1. work[t].pc = "stage2" /\ d.parent = work[t].id
    BY <1>2, Zenon DEF Delegates
  <2> QED BY <2>1 DEF OneVerdict
<1>3. CASE Approves(t, d, s1, c1, a1, f)
  <2>1. /\ d.request = r /\ approvals[p].status = "pending"
        /\ d.reason = IF evaluate(r, usage_for(r), clock).decision = "escalate"
                        THEN "APPROVED_BY_HUMAN" ELSE evaluate(r, usage_for(r), clock).reason
    BY <1>3, Zenon DEF Approves, may_decide
  <2>2. evaluate(r, usage_for(r), clock).reason = "BUDGET_EXHAUSTED"
    BY <2>1
  <2>3. /\ ~problems(r) /\ r.agent_id \in BoundAgents
        /\ \/ usage_for(r).steps >= contract_of(r.agent_id).max_steps
           \/ /\ "max_calls" \in DOMAIN CapabilityOf(r).constraints
              /\ usage_for(r).calls >= CapabilityOf(r).constraints.max_calls
    BY <2>2, BudgetReason, Zenon DEF CapabilityOf
  <2>4. usage_for(r).steps = steps[c] /\ usage_for(r).calls = calls[<<r.agent_id, r.action>>]
    BY <2>3 DEF usage_for
  <2>5. Taken(p)
    BY <2>1 DEF Holding, Taken
  <2>6. Authorized(r)
    BY <2>5 DEF Warranted
  <2>7. CASE /\ "max_calls" \in DOMAIN CapabilityOf(r).constraints
             /\ calls[<<r.agent_id, r.action>>] >= CapabilityOf(r).constraints.max_calls
    <3>1. /\ calls[<<r.agent_id, r.action>>] \in Nat
          /\ CapabilityOf(r).constraints.max_calls \in Nat
      BY <2>6, <2>7, CapabilityKey DEF Authorized, CapabilityOf, TypeOK
    <3>2. ~(calls[<<r.agent_id, r.action>>] < CapabilityOf(r).constraints.max_calls)
      BY <2>7, <3>1
    <3> QED BY <2>5, <2>7, <3>2 DEF Accounted
  <2>8. CASE steps[c] >= contracts[c].max_steps
    <3>1. c \in ContractIds
      BY <2>3, BoundContract
    <3>2. steps[c] \in Nat /\ contracts[c].max_steps \in Nat /\ steps[c] <= Cardinality(Spent(c))
      BY <3>1, ContractsLoaded DEF Accounted, TypeOK, ValidContract
    <3>3. CASE \E k \in Ids : p < k /\ Of(c, k)
      BY <3>3
    <3>4. CASE ~\E k \in Ids : p < k /\ Of(c, k)
      <4>1. p \in Nat /\ Ids = 1..MaxIds /\ MaxIds \in Nat /\ p <= MaxIds
        BY Deployment DEF Ids
      <4> HIDE DEF p, c
      <4>2. Spent(c) = {k \in 1..p : Of(c, k)}
        BY <3>4, <4>1 DEF Spent
      <4>3. Cardinality(Spent(c)) \in Nat
        BY Countable DEF Spent
      <4>4. Cardinality({k \in 1..p : Of(c, k)}) >= contracts[c].max_steps
        BY <2>8, <3>2, <4>2, <4>3
      <4> QED BY <4>4 DEF p, c
    <3> QED BY <3>3, <3>4
  <2> QED BY <2>3, <2>4, <2>7, <2>8 DEF contract_of
<1> QED BY <1>1, <1>2, <1>3, Zenon DEF Decides, Proposes, Refuses, Denies

(* On a store that rolls back, an approval finds its budget spent only if  *)
(* the contract's agents were decided about in between, or the escalation  *)
(* itself took the last step.                                              *)
THEOREM OnlySpendingSupersedes == Spec => [](Durable => SupersededOnlyBySpending)
<1> DEFINE Good == SupersededOnlyBySpending /\ Accounted
<1>1. ASSUME Init PROVE Good
  <2>1. /\ \A i \in Ids : decisions[i] = NoDecision /\ approvals[i].verb = "none"
        /\ \A c \in ContractIds : steps[c] = 0
    BY <1>1 DEF Init, Absent, Pristine
  <2>2. \A c : Spent(c) = {}
    BY <2>1 DEF Spent, Of
  <2>3. Cardinality({}) = 0
    BY FS_EmptySet
  <2>4. \A c \in ContractIds : steps[c] <= Cardinality(Spent(c))
    BY <2>1, <2>2, <2>3
  <2> QED BY <2>1, <2>4 DEF Accounted, SupersededOnlyBySpending, Taken
<1>2. ASSUME AInv, Durable, Good, [Next]_vars PROVE SupersededOnlyBySpending'
  <2> USE <1>2 DEF AInv, IInv
  <2> SUFFICES ASSUME NEW p \in Ids, NEW j \in Ids, approvals'[p].verb = "approve",
                      Taken(j)', decisions'[j].parent = p,
                      decisions'[j].reason = "BUDGET_EXHAUSTED"
               PROVE  LET c == bindings[decisions'[p].request.agent_id]
                      IN  \/ \E k \in Ids : /\ p < k /\ k < j
                                            /\ decisions'[k] # NoDecision
                                            /\ decisions'[k].request.agent_id
                                                 \in DOMAIN contracts[c].agents
                          \/ Cardinality({k \in 1..p :
                                /\ decisions'[k] # NoDecision
                                /\ decisions'[k].request.agent_id \in DOMAIN contracts[c].agents})
                               >= contracts[c].max_steps
    BY DEF SupersededOnlyBySpending, Of, Taken
  <2>1. p # 0 /\ ids \in Nat /\ \A k \in Ids : k \in Nat /\ (k > ids => ~Taken(k))
    <3>1. \A k \in Ids : k \in Nat /\ k # 0
      BY Deployment DEF Ids
    <3>2. ids \in Nat
      BY Deployment DEF TypeOK
    <3>3. \A k \in Ids : k > ids => ~Taken(k)
      BY Zenon DEF Holding, Taken
    <3> QED BY <3>1, <3>2, <3>3
  <2>2. Taken(p) /\ decisions[p].decision = "escalate"
    <3>1. approvals[p].status # "absent"
      BY ApproveSteps DEF Accounted
    <3> QED BY <3>1 DEF Holding, OneVerdict, Taken
  <2>3. decisions'[p] = decisions[p] /\ p <= ids
    BY <2>1, <2>2, TakenStays
  <2> DEFINE c == bindings[decisions[p].request.agent_id]
  <2>4. ASSUME NEW i \in Ids, i <= ids PROVE decisions'[i] = decisions[i]
    <3>1. ASSUME NEW t \in Threads, SomeDecision(t) PROVE decisions'[i] = decisions[i]
      BY <2>1, <2>4, <3>1, DecisionOutcome DEF SomeDecision
    <3> QED BY <3>1, DecidesOrQuiet DEF Quiet
  <2>5. \A k \in 1..p : k \in Ids /\ k <= ids
    BY <2>1, <2>3, Deployment DEF Ids
  <2>6. {k \in 1..p : /\ decisions'[k] # NoDecision
                      /\ decisions'[k].request.agent_id \in DOMAIN contracts[c].agents}
          = {k \in 1..p : Of(c, k)}
    BY <2>4, <2>5 DEF Of
  <2>7. SUFFICES \/ \E k \in Ids : p < k /\ k < j /\ Of(c, k)
                 \/ Cardinality({k \in 1..p : Of(c, k)}) >= contracts[c].max_steps
    <3>1. ASSUME NEW k \in Ids, Of(c, k)
          PROVE  /\ decisions'[k] # NoDecision
                 /\ decisions'[k].request.agent_id \in DOMAIN contracts[c].agents
      BY <3>1, TakenStays DEF Of, Taken
    <3> QED BY <2>3, <2>6, <2>7, <3>1
  <2>8. CASE Taken(j)
    <3>1. decisions'[j] = decisions[j]
      BY <2>8, TakenStays
    <3>2. approvals[p].status = "decided"
      BY <2>1, <2>2, <2>8, <3>1 DEF OneVerdict, Taken
    <3>3. approvals[p].verb = "approve"
      BY <3>2, ApproveSteps
    <3> QED BY <2>8, <3>1, <3>3 DEF SupersededOnlyBySpending, Taken
  <2>9. CASE ~Taken(j)
    <3>1. decisions'[j] # decisions[j]
      BY <2>9 DEF Taken
    <3>2. PICK t \in Threads : SomeDecision(t)
      BY <3>1, DecidesOrQuiet DEF Quiet
    <3>3. PICK d \in Decision, s1 \in [ContractIds -> Nat], c1 \in [Keys -> Nat],
               a1 \in [Ids -> Approval], f \in Frame : Decides(t, d, s1, c1, a1, f)
      BY <3>2 DEF SomeDecision
    <3>4. decisions'[j] = d /\ j = ids + 1
      BY <3>1, <3>3, DecisionOutcome DEF Committed, Lost
    <3>5. \/ \E k \in Ids : p < k /\ Of(c, k)
          \/ Cardinality({k \in 1..p : Of(c, k)}) >= contracts[c].max_steps
      BY <2>2, <3>3, <3>4, SupersededStep
    <3>6. \A k \in Ids : Of(c, k) => k < j
      BY <2>1, <3>4 DEF Of, Taken
    <3> QED BY <3>5, <3>6
  <2> QED BY <2>8, <2>9
<1>3. ASSUME AInv, Durable, Good, [Next]_vars PROVE Good'
  BY <1>2, <1>3, StepAccounted DEF AInv, IInv
<1>4. Init => (Durable => Good)
  BY <1>1
<1>5. AInv /\ (Durable => Good) /\ [Next]_vars => (Durable => Good)'
  BY <1>3
<1>6. (Durable => Good) => (Durable => SupersededOnlyBySpending)
  OBVIOUS
<1> HIDE DEF Good
<1> QED BY <1>4, <1>5, <1>6, HarnessAuthority, PTL DEF Spec

(* Only a crash strands an escalation.                                     *)
LEMMA StrandedSteps ==
    ASSUME TypeOK, Holding, Private, [Next]_vars, NEW i \in Stranded', i \notin Stranded
    PROVE  \E h : Crash(h) /\ \E t \in Threads : host[t] = h /\ work[t].id = i
<1>1. /\ i \in Ids /\ Taken(i)' /\ decisions'[i].decision = "escalate"
      /\ approvals'[i].status = "absent"
      /\ \A t \in Threads : ~(work'[t].pc = "result" /\ work'[t].id = i)
  BY DEF Stranded, Taken
<1>2. Taken(i) /\ decisions'[i] = decisions[i]
  <2>1. ASSUME ~Taken(i) PROVE FALSE
    <3>1. decisions'[i] # decisions[i]
      BY <1>1, <2>1 DEF Taken
    <3>2. PICK t \in Threads : SomeDecision(t)
      BY <3>1, DecidesOrQuiet DEF Quiet
    <3>3. PICK d \in Decision, s1 \in [ContractIds -> Nat], c1 \in [Keys -> Nat],
               a1 \in [Ids -> Approval], f \in Frame : Decides(t, d, s1, c1, a1, f)
      BY <3>2 DEF SomeDecision
    <3>4. i = ids + 1 /\ decisions'[i] = d /\ work'[t] = f
      BY <1>1, <3>1, <3>3, DecisionOutcome DEF Committed, Lost
    <3>5. d.decision = "escalate"
      BY <1>1, <3>4
    <3>6. Proposes(t, d, s1, c1, a1, f) \/ Delegates(t, d, s1, c1, a1, f)
      <4>1. ~Refuses(t, d, s1, c1, a1, f) /\ ~Denies(t, d, s1, c1, a1, f)
        BY <3>5, Zenon DEF Refuses, Denies
      <4>2. ~Approves(t, d, s1, c1, a1, f)
        BY <3>5, Zenon DEF Approves
      <4> QED BY <3>3, <4>1, <4>2, Zenon DEF Decides
    <3>7. f.pc = "result"
      BY <3>6, Zenon DEF Proposes, Delegates
    <3>8. f.id = ids + 1
      BY <3>3, <3>7, IdleFrame DEF Decides
    <3> QED BY <1>1, <3>4, <3>7, <3>8
  <2> QED BY <1>1, <2>1, TakenStays
<1>3. approvals[i].status = "absent"
  <2>1. ASSUME approvals[i].status # "absent" PROVE FALSE
    <3>1. ASSUME NEW t \in Threads, Annotate(t) PROVE approvals'[i].status = approvals[i].status
      BY <1>1, <3>1, AnnotateApprovals
    <3> QED BY <1>1, <2>1, <3>1, ApprovalSteps
  <2> QED BY <2>1
<1>4. PICK t \in Threads : work[t].pc = "result" /\ work[t].id = i
  BY <1>1, <1>2, <1>3 DEF Stranded, Taken
<1>5. work'[t] # work[t]
  BY <1>1, <1>4
<1>6. ~ResultFor(t)
  <2>1. ASSUME ResultFor(t) PROVE FALSE
    <3>1. approvals' = [approvals EXCEPT ![i] = Pristine("pending")]
      BY <1>1, <1>2, <1>4, <2>1, Zenon DEF ResultFor
    <3>2. Pristine("pending").status = "pending"
      BY DEF Pristine
    <3> QED BY <1>1, <3>1, <3>2 DEF TypeOK
  <2> QED BY <2>1
<1>7. \E h : Crash(h) /\ host[t] = h
  <2>2. ~(SomeDecision(t) /\ Records(t))
    <3>1. ASSUME SomeDecision(t) PROVE FALSE
      <4>1. PICK d \in Decision, s1 \in [ContractIds -> Nat], c1 \in [Keys -> Nat],
                 a1 \in [Ids -> Approval], f \in Frame : Decides(t, d, s1, c1, a1, f)
        BY <3>1 DEF SomeDecision
      <4>2. work[t] = Idle \/ work[t].pc \in {"stage2", "reject"}
        BY <4>1, Zenon DEF Decides, Proposes, Delegates, Refuses, Denies, Approves
      <4> QED BY <1>4, <4>2, IdleFrame
    <3> QED BY <3>1
  <2>3. /\ ~ClaimGrant(t) /\ ~RunTool(t) /\ ~RecordExecution(t) /\ ~RecordApproval(t)
        /\ ~Annotate(t)
    BY <1>4 DEF ClaimGrant, RunTool, RecordExecution, RecordApproval, Annotate
  <2>4. /\ ~\E j \in Ids, r \in Proposals : CheckGrant(t, j, r)
        /\ ~\E j \in Ids, who \in Principals : RejectTake(t, j, who)
    BY <1>4, IdleFrame DEF CheckGrant, RejectTake
  <2>5. ASSUME Prune \/ Tick \/ UNCHANGED vars \/ \E u \in Threads, a \in Agents : Receive(u, a)
        PROVE  work' = work
    BY <2>5, Zenon DEF Prune, Tick, vars, Receive
  <2>6. \E h : Crash(h)
    BY <1>5, <1>6, <2>2, <2>3, <2>4, <2>5, AuthorityCases, OtherThread, Zenon
  <2>7. ASSUME NEW h, Crash(h) PROVE host[t] = h
    BY <1>5, <2>7 DEF Crash, TypeOK
  <2> QED BY <2>6, <2>7
<1> QED BY <1>4, <1>7

(* Failures are counted one by one.                                        *)
LEMMA FaultSteps ==
    ASSUME TypeOK, Holding, [Next]_vars
    PROVE  faults' \in {faults, faults + 1}
<1>1. ASSUME NEW t \in Threads, SomeDecision(t) PROVE faults' \in {faults, faults + 1}
  BY <1>1, DecisionOutcome DEF SomeDecision, Committed, Lost
<1>2. ASSUME NEW t \in Threads,
             \/ ResultFor(t) \/ ClaimGrant(t) \/ RunTool(t)
             \/ RecordExecution(t) \/ RecordApproval(t) \/ Annotate(t)
             \/ \E i \in Ids, r \in Proposals : CheckGrant(t, i, r)
             \/ \E i \in Ids, who \in Principals : RejectTake(t, i, who)
             \/ \E a \in Agents : Receive(t, a)
      PROVE  faults' \in {faults, faults + 1}
  BY <1>2, Zenon DEF ResultFor, ClaimGrant, RunTool, RecordExecution, RecordApproval,
       Annotate, CheckGrant, RejectTake, Receive, Fault
<1>3. ASSUME (\E h : Crash(h)) \/ Prune \/ Tick \/ UNCHANGED vars
      PROVE  faults' \in {faults, faults + 1}
  BY <1>3, Zenon DEF Crash, Prune, Tick, vars, Fault
<1> QED BY <1>1, <1>2, <1>3, AuthorityCases, Zenon

(* A crash strands no more escalations than the replica had threads.       *)
LEMMA CrashStrands ==
    ASSUME TypeOK, Holding, Private, [Next]_vars, NEW h, Crash(h)
    PROVE  /\ IsFiniteSet({u \in Threads : host[u] = h})
           /\ Cardinality(Stranded' \ Stranded) <= Cardinality({u \in Threads : host[u] = h})
<1> DEFINE Q == {u \in Threads : host[u] = h}
           New == Stranded' \ Stranded
           owner == [i \in New |-> CHOOSE t \in Q : work[t].id = i]
<1>1. ASSUME NEW i \in New PROVE \E t \in Q : work[t].id = i
  <2>1. PICK g : Crash(g) /\ \E t \in Threads : host[t] = g /\ work[t].id = i
    BY <1>1, StrandedSteps
  <2>2. PICK t \in Threads : host[t] = g /\ work[t].id = i
    BY <2>1
  <2>3. work[t].pc # "idle"
    <3>1. i \in Ids
      BY <1>1 DEF Stranded
    <3> QED BY <2>2, <3>1, IdleFrame, Deployment DEF Holding, Ids
  <2>4. work'[t] = Idle
    BY <2>1, <2>2 DEF Crash
  <2>5. host[t] = h
    BY <2>2, <2>3, <2>4, IdleFrame DEF Crash
  <2> QED BY <2>2, <2>5
<1> HIDE DEF New, Q
<1>2. ASSUME NEW i \in New PROVE owner[i] \in Q /\ work[owner[i]].id = i
  BY <1>1, Zenon
<1>3. owner \in Injection(New, Q)
  <2>1. owner \in [New -> Q]
    BY <1>2
  <2>2. ASSUME NEW i \in New, NEW j \in New, owner[i] = owner[j] PROVE i = j
    BY <1>2, <2>2
  <2> HIDE DEF owner
  <2> QED BY <2>1, <2>2 DEF Injection, IsInjective
<1>4. IsFiniteSet(Q)
  BY Deployment, FS_Subset DEF Q
<1> HIDE DEF owner
<1>5. Cardinality(New) <= Cardinality(Q)
  BY <1>3, <1>4, FS_Injection
<1> QED BY <1>4, <1>5 DEF New, Q

(* Only a failure strands an escalation, and with at most n threads on a   *)
(* replica at most n of them each: whatever the contracts, the requests    *)
(* and the interleaving.                                                   *)
THEOREM OnlyFailuresStrand == Spec => []EscalationsHeld
<1>1. ASSUME Init PROVE EscalationsHeld
  <2>1. Stranded = {}
    BY <1>1 DEF Init, Stranded
  <2>2. Cardinality(Stranded) = 0
    BY <2>1, FS_EmptySet
  <2>3. faults = 0 /\ Cardinality(Threads) \in Nat
    BY <1>1, Deployment, FS_CardinalityType DEF Init
  <2> QED BY <2>2, <2>3 DEF EscalationsHeld
<1>2. ASSUME IInv, EscalationsHeld, [Next]_vars PROVE EscalationsHeld'
  <2> SUFFICES ASSUME NEW n \in 0..Cardinality(Threads),
                      \A t \in Threads : Cardinality({u \in Threads : host[u] = host[t]}) <= n
               PROVE  Cardinality(Stranded') <= n * faults'
    BY DEF EscalationsHeld
  <2>1. n \in Nat /\ faults \in Nat /\ faults' \in {faults, faults + 1}
    <3>1. Cardinality(Threads) \in Nat
      BY Deployment, FS_CardinalityType
    <3> QED BY <1>2, <3>1, FaultSteps DEF IInv, TypeOK
  <2>2. Cardinality(Stranded) <= n * faults
    BY <1>2 DEF EscalationsHeld
  <2>3. n * faults \in Nat /\ n * (faults + 1) = n * faults + n
    BY <2>1
  <2>4. Stranded \in SUBSET Ids /\ Stranded' \in SUBSET Ids
    BY DEF Stranded
  <2>5. /\ IsFiniteSet(Stranded) /\ Cardinality(Stranded) \in Nat
        /\ Cardinality(Stranded') \in Nat
    BY <2>4, Countable
  <2>6. CASE Stranded' \subseteq Stranded
    <3>1. Cardinality(Stranded') <= Cardinality(Stranded)
      BY <2>5, <2>6, FS_Subset
    <3>2. n * faults' = n * faults \/ n * faults' = n * faults + n
      BY <2>1, <2>3
    <3> QED BY <2>1, <2>2, <2>3, <2>5, <3>1, <3>2
  <2>7. CASE ~(Stranded' \subseteq Stranded)
    <3>1. PICK i : i \in Stranded' /\ i \notin Stranded
      BY <2>7
    <3>2. PICK h : Crash(h) /\ \E t \in Threads : host[t] = h
      BY <1>2, <3>1, StrandedSteps DEF IInv
    <3> DEFINE Q == {u \in Threads : host[u] = h}
               New == Stranded' \ Stranded
    <3>3. /\ IsFiniteSet(Q) /\ Cardinality(New) <= Cardinality(Q)
      BY <1>2, <3>2, CrashStrands DEF IInv
    <3>4. Cardinality(Q) <= n /\ Cardinality(Q) \in Nat
      BY <3>2, <3>3, FS_CardinalityType
    <3>5. New \in SUBSET Ids
      BY <2>4
    <3>6. /\ IsFiniteSet(New) /\ Cardinality(New) \in Nat
      BY <3>5, Countable
    <3>7. faults' = faults + 1
      BY <3>2 DEF Crash, Fault
    <3>8. Cardinality(Stranded') <= Cardinality(Stranded) + Cardinality(New)
      <4>1. Stranded' \in SUBSET (Stranded \cup New)
        OBVIOUS
      <4>2. /\ IsFiniteSet(Stranded \cup New)
            /\ Cardinality(Stranded \cup New) =
                 Cardinality(Stranded) + Cardinality(New) - Cardinality(Stranded \cap New)
        BY <2>5, <3>6, FS_Union
      <4>3. Stranded \cap New = {}
        OBVIOUS
      <4>4. Cardinality(Stranded \cap New) = 0
        BY <4>3, FS_EmptySet
      <4>5. Cardinality(Stranded') <= Cardinality(Stranded \cup New)
        BY <4>1, <4>2, FS_Subset
      <4> HIDE DEF New
      <4> QED BY <2>5, <3>6, <4>2, <4>4, <4>5
    <3> HIDE DEF New, Q
    <3> QED BY <2>1, <2>2, <2>3, <2>5, <3>3, <3>4, <3>6, <3>7, <3>8
  <2> QED BY <2>6, <2>7
<1> QED BY <1>1, <1>2, HarnessInvariant, PTL DEF Spec

----------------------------------------------------------------------------
(* What the policy decides, what is shown of it, and what a fetch does     *)

(* What evaluate asks of a request before it looks at the capability.      *)
Reaches(r, u, t) ==
    /\ ~problems(r)
    /\ r.agent_id \in BoundAgents
    /\ r.contract_id \in {None, bindings[r.agent_id]}
    /\ ~expired(contract_of(r.agent_id).expires_at, t)
    /\ ~(u.steps >= contract_of(r.agent_id).max_steps)
    /\ r.action \notin Reserved
    /\ r.action \in DOMAIN capabilities_for(r.agent_id)

(* What evaluate asks of the capability.                                   *)
Misdirected(r) ==
    /\ r.action \in {MESSAGE_ACTION, DELEGATE_ACTION}
    /\ attr[r.arguments].to = r.agent_id \/ attr[r.arguments].to \notin BoundAgents

Grants(cap, r, u, t) ==
    /\ cap.effect # "deny"
    /\ ~expired(cap.expires_at, t)
    /\ check_constraints(cap.constraints, r, u.calls) = None
    /\ ~Misdirected(r)

(* The ladder of evaluate up to the capability.                            *)
LEMMA EvaluateReaches ==
    ASSUME NEW r, NEW u, NEW t
    PROVE  /\ Reaches(r, u, t) => evaluate(r, u, t) =
                evaluate_capability(r, capabilities_for(r.agent_id)[r.action], u, t)
           /\ ~Reaches(r, u, t) => evaluate(r, u, t).decision = "deny"
<1>0. \A x : deny(x).decision = "deny"
  BY DEF deny
<1>1. Reaches(r, u, t) => evaluate(r, u, t) =
        evaluate_capability(r, capabilities_for(r.agent_id)[r.action], u, t)
  BY Zenon DEF evaluate, Reaches
<1>2. ~Reaches(r, u, t) => \E x : evaluate(r, u, t) = deny(x)
  BY Zenon DEF evaluate, Reaches
<1> QED BY <1>0, <1>1, <1>2, Zenon

(* The rest of the ladder: the capability's effect, or "deny".             *)
LEMMA CapabilityDecides ==
    ASSUME NEW r, NEW u, NEW t, NEW cap, cap.effect \in Effects
    PROVE  evaluate_capability(r, cap, u, t).decision =
                IF Grants(cap, r, u, t) THEN cap.effect ELSE "deny"
<1>0. \A x : deny(x).decision = "deny"
  BY DEF deny
<1>1. CASE ~Grants(cap, r, u, t)
  <2>1. \E x : evaluate_capability(r, cap, u, t) = deny(x)
    BY <1>1, Zenon DEF evaluate_capability, Grants, Misdirected
  <2> QED BY <1>0, <1>1, <2>1, Zenon
<1>2. CASE Grants(cap, r, u, t)
  <2>1. evaluate_capability(r, cap, u, t)
           = IF cap.effect = "escalate"
               THEN [decision |-> "escalate", reason |-> "REQUIRES_APPROVAL"]
               ELSE [decision |-> "allow", reason |-> "CAPABILITY_GRANTED"]
    BY <1>2, Zenon DEF evaluate_capability, Grants, Misdirected
  <2>2. cap.effect = "escalate" \/ cap.effect = "allow"
    BY <1>2 DEF Grants, Effects
  <2> QED BY <1>2, <2>1, <2>2
<1> QED BY <1>1, <1>2

(* Matching by the end of a sequence is matching label by label.           *)
LEMMA EndsWithLabels ==
    ASSUME NEW labels \in Seq(STRING), NEW suffix \in Seq(STRING)
    PROVE  EndsWith(labels, suffix) <=>
             /\ Len(suffix) \in 1..Len(labels)
             /\ \A k \in 1..Len(suffix) : suffix[k] = labels[Len(labels) - Len(suffix) + k]
<1> DEFINE n == Len(labels)
           m == Len(suffix)
<1>0. n \in Nat /\ m \in Nat
  BY LenProperties
<1>1. ASSUME NEW k \in 1..n
      PROVE  /\ SubSeq(labels, k, n) \in Seq(STRING)
             /\ Len(SubSeq(labels, k, n)) = n - k + 1
             /\ \A i \in 1..(n - k + 1) : SubSeq(labels, k, n)[i] = labels[k + i - 1]
  <2>1. k \in 1..n+1 /\ n \in k-1..n
    BY <1>0, <1>1
  <2> HIDE DEF n
  <2>2. SubSeq(labels, k, n) \in Seq(STRING)
    BY <1>0, <1>1, <2>1, SubSeqProperties DEF n
  <2> QED BY <1>0, <1>1, <2>1, <2>2, SubSeqProperties DEF n
<1> HIDE DEF n, m
<1>2. ASSUME NEW k \in 1..n, SubSeq(labels, k, n) = suffix
      PROVE  m \in 1..n /\ \A i \in 1..m : suffix[i] = labels[n - m + i]
  <2>1. m = n - k + 1
    BY <1>1, <1>2 DEF m
  <2>2. ASSUME NEW i \in 1..m PROVE suffix[i] = labels[n - m + i]
    <3>1. k + i - 1 = n - m + i /\ i \in 1..(n - k + 1)
      BY <1>0, <2>1
    <3> QED BY <1>1, <1>2, <3>1
  <2> QED BY <1>0, <2>1, <2>2
<1>3. ASSUME m \in 1..n, \A i \in 1..m : suffix[i] = labels[n - m + i]
      PROVE  \E k \in 1..n : SubSeq(labels, k, n) = suffix
  <2>1. PICK k \in 1..n : k = n - m + 1
    BY <1>0, <1>3
  <2>2. Len(SubSeq(labels, k, n)) = m
    BY <1>0, <1>1, <2>1
  <2>3. ASSUME NEW i \in 1..m PROVE SubSeq(labels, k, n)[i] = suffix[i]
    <3>1. k + i - 1 = n - m + i /\ i \in 1..(n - k + 1)
      BY <1>0, <2>1
    <3> QED BY <1>1, <1>3, <3>1
  <2>4. SubSeq(labels, k, n) = suffix
    BY <1>1, <2>2, <2>3, SeqEqual DEF m
  <2> QED BY <2>4
<1> QED BY <1>2, <1>3 DEF EndsWith, n, m

(* The two readings of a URL's host agree.                                 *)
LEMMA HostsAgree ==
    ASSUME NEW h, ~h.ip => h.labels \in Seq(STRING)
    PROVE  /\ \A d \in Seq(STRING) : Under(h, d) <=> ~h.ip /\ EndsWith(h.labels, d)
           /\ is_private_host(h) <=> PrivateName(h)
<1>1. ASSUME NEW d \in Seq(STRING) PROVE Under(h, d) <=> ~h.ip /\ EndsWith(h.labels, d)
  <2>1. CASE h.ip
    BY <2>1 DEF Under
  <2>2. CASE ~h.ip
    <3>1. EndsWith(h.labels, d) <=>
            /\ Len(d) \in 1..Len(h.labels)
            /\ \A k \in 1..Len(d) : d[k] = h.labels[Len(h.labels) - Len(d) + k]
      BY <2>2, EndsWithLabels
    <3> QED BY <2>2, <3>1, Zenon DEF Under
  <2> QED BY <2>1, <2>2
<1>2. CASE h.ip
  BY <1>1, <1>2 DEF is_private_host, PrivateName
<1>3. CASE ~h.ip
  <2>1. ASSUME NEW s \in PrivateSuffixes
        PROVE  (h.labels # s /\ EndsWith(h.labels, s)) <=> (Len(s) < Len(h.labels) /\ Under(h, s))
    <3>1. s \in Seq(STRING) /\ h.labels \in Seq(STRING)
      BY <1>3, Spelling
    <3>2. Len(s) \in Nat /\ Len(h.labels) \in Nat
      BY <3>1, LenProperties
    <3>3. CASE Under(h, s) /\ Len(s) = Len(h.labels)
      <4>1. \A i \in 1..Len(s) : s[i] = h.labels[i]
        BY <3>2, <3>3 DEF Under
      <4>2. s = h.labels
        BY <3>1, <3>3, <4>1, SeqEqual
      <4> QED BY <3>2, <3>3, <4>2
    <3>4. Under(h, s) => Len(s) <= Len(h.labels)
      BY <3>2 DEF Under
    <3>5. Under(h, s) <=> EndsWith(h.labels, s)
      BY <1>1, <1>3, <3>1
    <3> QED BY <3>2, <3>3, <3>4, <3>5
  <2> QED BY <1>1, <1>3, <2>1 DEF is_private_host, PrivateName
<1> QED BY <1>1, <1>2, <1>3

(* check_constraints finds nothing exactly if every constraint holds.      *)
LEMMA ConstraintsAgree ==
    ASSUME NEW cap, NEW r, NEW n \in Nat,
           ValidConstraints(cap.constraints),
           attr[r.arguments].longest \in Nat,
           LET url == attr[r.arguments].urls[url_argument(cap.constraints)]
           IN  url.kind = "host" /\ ~url.ip => url.labels \in Seq(STRING)
    PROVE  check_constraints(cap.constraints, r, n) = None <=>
             \A name \in DOMAIN cap.constraints : Holds(name, cap, attr[r.arguments], n)
<1> DEFINE c == cap.constraints
           args == attr[r.arguments]
           url == args.urls[url_argument(c)]
           H(name) == name \in DOMAIN c => Holds(name, cap, args, n)
<1>1. PICK h : h = url
  OBVIOUS
<1>2. check_constraints(c, r, n) = None <=>
        /\ ~("max_calls" \in DOMAIN c /\ n >= c.max_calls)
        /\ ~("allowed_arguments" \in DOMAIN c /\ ~(args.names \subseteq c.allowed_arguments))
        /\ ~("required_arguments" \in DOMAIN c /\ ~(c.required_arguments \subseteq args.names))
        /\ ~("max_argument_length" \in DOMAIN c /\ args.longest > c.max_argument_length)
        /\ ~(UrlConstraints \cap DOMAIN c # {} /\ _check_url_denies(c, args))
        /\ ~("allowed_targets" \in DOMAIN c /\ args.to \notin c.allowed_targets)
        /\ ~("allowed_actions" \in DOMAIN c /\ args.action \notin c.allowed_actions)
  <2>1. /\ "BUDGET_EXHAUSTED" # None /\ "ARGUMENT_NOT_ALLOWED" # None
        /\ "ARGUMENT_MISSING" # None /\ "DOMAIN_NOT_ALLOWED" # None
        /\ "TARGET_NOT_ALLOWED" # None /\ "DELEGATED_ACTION_NOT_ALLOWED" # None
    BY NoneIsNoReason DEF ReasonCode
  <2> QED BY <2>1, Zenon DEF check_constraints
<1>3. H("max_calls") <=> ~("max_calls" \in DOMAIN c /\ n >= c.max_calls)
  BY DEF Holds, ValidConstraints
<1>4. H("max_argument_length") <=>
        ~("max_argument_length" \in DOMAIN c /\ args.longest > c.max_argument_length)
  BY DEF Holds, ValidConstraints
<1>5. /\ H("allowed_arguments") <=>
           ~("allowed_arguments" \in DOMAIN c /\ ~(args.names \subseteq c.allowed_arguments))
      /\ H("required_arguments") <=>
           ~("required_arguments" \in DOMAIN c /\ ~(c.required_arguments \subseteq args.names))
  BY DEF Holds
<1>6. /\ H("allowed_targets") <=>
           ~("allowed_targets" \in DOMAIN c /\ args.to \notin c.allowed_targets)
      /\ H("allowed_actions") <=>
           ~("allowed_actions" \in DOMAIN c /\ args.action \notin c.allowed_actions)
      /\ H("url_argument")
  BY DEF Holds
<1>7. H("allowed_domains") /\ H("blocked_domains") /\ H("block_private_hosts") <=>
        ~(UrlConstraints \cap DOMAIN c # {} /\ _check_url_denies(c, args))
  <2>1. /\ "allowed_domains" \in DOMAIN c => c.allowed_domains \subseteq Seq(STRING)
        /\ "blocked_domains" \in DOMAIN c => c.blocked_domains \subseteq Seq(STRING)
        /\ "block_private_hosts" \in DOMAIN c => c.block_private_hosts \in BOOLEAN
    BY DEF ValidConstraints
  <2>2. h.kind = "host" =>
          /\ \A d \in Seq(STRING) : Under(h, d) <=> ~h.ip /\ EndsWith(h.labels, d)
          /\ is_private_host(h) <=> PrivateName(h)
    BY <1>1, HostsAgree
  <2>3. UrlConstraints \cap DOMAIN c # {} <=>
          \/ "allowed_domains" \in DOMAIN c
          \/ "blocked_domains" \in DOMAIN c
          \/ "block_private_hosts" \in DOMAIN c
    BY DEF UrlConstraints
  <2>4. /\ H("allowed_domains") <=> ("allowed_domains" \in DOMAIN c =>
             h.kind = "host" /\ \E d \in c.allowed_domains : Under(h, d))
        /\ H("blocked_domains") <=> ("blocked_domains" \in DOMAIN c =>
             h.kind = "host" /\ \A d \in c.blocked_domains : ~Under(h, d))
        /\ H("block_private_hosts") <=> ("block_private_hosts" \in DOMAIN c =>
             h.kind = "host" /\ (c.block_private_hosts => ~PrivateName(h)))
    BY <1>1 DEF Holds
  <2>5. _check_url_denies(c, args) <=>
          \/ h.kind # "host"
          \/ "blocked_domains" \in DOMAIN c /\ matches(h, c.blocked_domains)
          \/ "block_private_hosts" \in DOMAIN c /\ c.block_private_hosts /\ is_private_host(h)
          \/ "allowed_domains" \in DOMAIN c /\ ~matches(h, c.allowed_domains)
    BY <1>1, Zenon DEF _check_url_denies
  <2>6. h.kind = "host" =>
          /\ "allowed_domains" \in DOMAIN c =>
               (matches(h, c.allowed_domains) <=> \E d \in c.allowed_domains : Under(h, d))
          /\ "blocked_domains" \in DOMAIN c =>
               (matches(h, c.blocked_domains) <=> \E d \in c.blocked_domains : Under(h, d))
    BY <2>1, <2>2 DEF matches
  <2> HIDE DEF H, c
  <2> QED BY <2>2, <2>3, <2>4, <2>5, <2>6
<1>8. (\A name \in DOMAIN c : Holds(name, cap, args, n)) <=>
        /\ H("max_calls") /\ H("max_argument_length")
        /\ H("allowed_arguments") /\ H("required_arguments")
        /\ H("allowed_targets") /\ H("allowed_actions") /\ H("url_argument")
        /\ H("allowed_domains") /\ H("blocked_domains") /\ H("block_private_hosts")
  BY DEF ValidConstraints, CONSTRAINTS
<1> HIDE DEF H
<1> QED BY <1>2, <1>3, <1>4, <1>5, <1>6, <1>7, <1>8, Zenon

(* The walk's variables keep their types.                                  *)
WalkTyped ==
    /\ asked \in Request
    /\ spent \in [steps: Nat, calls: Nat]
    /\ moment \in Nat

(* Requests, counters and time are what DenialsLast speaks of.             *)
LEMMA WalkTypes == WalkSpec => []WalkTyped
<1>1. WalkInit => WalkTyped
  BY DEF WalkInit, WalkTyped
<1>2. WalkTyped /\ [WalkNext]_walk => WalkTyped'
  BY DEF WalkTyped, WalkNext, walk
<1> QED BY <1>1, <1>2, PTL DEF WalkSpec

(* An expiry that has not come.                                            *)
LEMMA NotExpired ==
    ASSUME NEW at \in Nat \cup {Never}, NEW t \in Nat
    PROVE  ~expired(at, t) <=> at = Never \/ t < at
BY Vocabulary DEF expired

(* What LiveCapabilities collects from all contracts is the capability of  *)
(* the agent's own contract, under the conditions that evaluate asks for.  *)
LEMMA LiveMeans ==
    ASSUME WalkTyped, NEW cap
    PROVE  cap \in LiveCapabilities(asked, moment) <=>
             /\ Reaches(asked, spent, moment)
             /\ cap = capabilities_for(asked.agent_id)[asked.action]
             /\ cap.effect # "deny" /\ ~expired(cap.expires_at, moment)
<1> DEFINE a == asked.agent_id
           x == asked.action
           Gives(k) == /\ k \in ContractIds
                       /\ a \in DOMAIN contracts[k].agents
                       /\ x \in DOMAIN contracts[k].agents[a]
                       /\ contracts[k].expires_at = Never \/ moment < contracts[k].expires_at
                       /\ asked.contract_id \in {None, k}
                       /\ spent.steps < contracts[k].max_steps
<1>0. spent.steps \in Nat /\ moment \in Nat /\ asked \in Request
  BY DEF WalkTyped
<1>1. cap \in LiveCapabilities(asked, moment) <=>
        /\ \E k : Gives(k) /\ cap = contracts[k].agents[a][x]
        /\ cap.effect # "deny" /\ (cap.expires_at = Never \/ moment < cap.expires_at)
  BY DEF LiveCapabilities
<1>2. ASSUME NEW k, Gives(k)
      PROVE  /\ Reaches(asked, spent, moment)
             /\ contracts[k].agents[a][x] = capabilities_for(a)[x]
  <2>1. a \in BoundAgents /\ k = bindings[a]
    BY <1>2, OneContract
  <2>2. contract_of(a) = contracts[k] /\ capabilities_for(a) = contracts[k].agents[a]
    BY <2>1 DEF contract_of, capabilities_for
  <2>3. ValidContract(contracts[k])
    BY <1>2, ContractsLoaded
  <2>4. /\ contracts[k].expires_at \in Nat \cup {Never} /\ contracts[k].max_steps \in Nat
        /\ a \in Agents /\ ValidCapability(x, contracts[k].agents[a][x])
    BY <1>2, <2>3 DEF ValidContract
  <2>5. ~expired(contract_of(a).expires_at, moment)
    BY <1>0, <1>2, <2>2, <2>4, NotExpired
  <2>6. ~(spent.steps >= contract_of(a).max_steps)
    BY <1>0, <1>2, <2>2, <2>4
  <2>7. ~problems(asked) /\ x \notin Reserved
    BY <1>0, <2>4, Vocabulary DEF problems, ValidCapability, Request
  <2> QED BY <1>2, <2>1, <2>2, <2>5, <2>6, <2>7 DEF Reaches
<1>3. ASSUME Reaches(asked, spent, moment)
      PROVE  Gives(bindings[a]) /\ contracts[bindings[a]].agents[a][x] = capabilities_for(a)[x]
  <2>1. a \in BoundAgents /\ x \in DOMAIN capabilities_for(a)
    BY <1>3 DEF Reaches
  <2>2. bindings[a] \in ContractIds /\ a \in DOMAIN contract_of(a).agents
        /\ ValidContract(contract_of(a))
    BY <2>1, BoundContract
  <2>3. contract_of(a).expires_at = Never \/ moment < contract_of(a).expires_at
    BY <1>0, <1>3, <2>2, NotExpired DEF Reaches, ValidContract
  <2>4. spent.steps < contract_of(a).max_steps
    BY <1>0, <1>3, <2>2 DEF Reaches, ValidContract
  <2>5. asked.contract_id \in {None, bindings[a]}
    BY <1>3 DEF Reaches
  <2> QED BY <2>1, <2>2, <2>3, <2>4, <2>5 DEF contract_of, capabilities_for
<1>4. ASSUME Reaches(asked, spent, moment)
      PROVE  LET own == capabilities_for(a)[x]
             IN  ~expired(own.expires_at, moment) <=>
                   own.expires_at = Never \/ moment < own.expires_at
  <2>1. ValidCapability(x, capabilities_for(a)[x])
    BY <1>4, EffectOfCapability DEF Reaches
  <2> QED BY <1>0, <2>1, NotExpired DEF ValidCapability
<1> HIDE DEF Gives, a, x
<1> QED BY <1>1, <1>2, <1>3, <1>4 DEF a, x

(* evaluate is its declarative reading.                                    *)
LEMMA EvaluateIsTheTable ==
    ASSUME WalkTyped
    PROVE  EvaluateAgrees
<1> DEFINE own == capabilities_for(asked.agent_id)[asked.action]
           args == attr[asked.arguments]
           verdict == evaluate(asked, spent, moment).decision
           covering == {cap \in LiveCapabilities(asked, moment) :
             /\ \A name \in DOMAIN cap.constraints : Holds(name, cap, args, spent.calls)
             /\ asked.action \in {MESSAGE_ACTION, DELEGATE_ACTION} =>
                     args.to \in BoundAgents \ {asked.agent_id}}
<1>1. CASE ~Reaches(asked, spent, moment)
  <2>1. verdict = "deny"
    BY <1>1, EvaluateReaches
  <2>2. covering = {}
    BY <1>1, LiveMeans
  <2> QED BY <2>1, <2>2 DEF EvaluateAgrees
<1>2. CASE Reaches(asked, spent, moment)
  <2>1. verdict = evaluate_capability(asked, own, spent, moment).decision
    BY <1>2, EvaluateReaches
  <2>2. /\ ValidCapability(asked.action, own) /\ own.effect \in Effects
        /\ asked.agent_id \in BoundAgents
    BY <1>2, EffectOfCapability DEF Reaches
  <2>3. verdict = IF Grants(own, asked, spent, moment) THEN own.effect ELSE "deny"
    BY <2>1, <2>2, CapabilityDecides
  <2>4. check_constraints(own.constraints, asked, spent.calls) = None <=>
          \A name \in DOMAIN own.constraints : Holds(name, own, args, spent.calls)
    <3>1. asked.arguments \in Arguments /\ spent.calls \in Nat
      BY DEF WalkTyped, Request
    <3>2. args.longest \in Nat /\ ValidConstraints(own.constraints)
      BY <2>2, <3>1, Vocabulary DEF ValidCapability
    <3>3. LET url == args.urls[url_argument(own.constraints)]
          IN  url.kind = "host" /\ ~url.ip => url.labels \in Seq(STRING)
      <4>1. /\ bindings[asked.agent_id] \in ContractIds
            /\ asked.agent_id \in DOMAIN contract_of(asked.agent_id).agents
            /\ asked.action \in DOMAIN capabilities_for(asked.agent_id)
        BY <1>2, <2>2, BoundContract DEF Reaches
      <4> QED BY <3>1, <4>1, Spelling DEF contract_of, capabilities_for
    <3> HIDE DEF own
    <3> QED BY <3>1, <3>2, <3>3, ConstraintsAgree
  <2>5. ASSUME NEW cap
        PROVE  cap \in covering <=> cap = own /\ Grants(own, asked, spent, moment)
    <3>1. cap \in LiveCapabilities(asked, moment) <=>
            cap = own /\ own.effect # "deny" /\ ~expired(own.expires_at, moment)
      BY <1>2, LiveMeans
    <3> HIDE DEF own
    <3> QED BY <2>4, <3>1 DEF Grants, Misdirected
  <2>6. Grants(own, asked, spent, moment) => own.effect # "deny"
    BY DEF Grants
  <2> HIDE DEF own, covering, verdict
  <2>7. (verdict = "deny" <=> covering = {}) /\ \A cap \in covering : verdict = cap.effect
    BY <2>3, <2>5, <2>6
  <2> QED BY <2>7 DEF EvaluateAgrees, covering, verdict
<1> QED BY <1>1, <1>2

(* explain and tools/list bound what evaluate decides.                     *)
LEMMA ViewsBound ==
    ASSUME WalkTyped
    PROVE  ViewsBoundDecisions
<1> DEFINE own == capabilities_for(asked.agent_id)[asked.action]
           zero == [steps |-> 0, calls |-> 0]
           shown == evaluate(asked, zero, moment)
           verdict == evaluate(asked, spent, moment).decision
           listed == asked.action \in _tools_list(asked.agent_id)
<1>0. /\ spent \in [steps: Nat, calls: Nat] /\ zero \in [steps: Nat, calls: Nat]
      /\ moment \in Nat /\ asked \in Request
      /\ zero.steps <= spent.steps /\ zero.calls <= spent.calls
  BY DEF WalkTyped
<1>1. ASSUME NEW u, evaluate(asked, u, moment).decision # "deny"
      PROVE  evaluate(asked, u, moment).decision = own.effect /\ own.effect # "deny" /\ listed
  <2>1. Reaches(asked, u, moment)
    BY <1>1, EvaluateReaches
  <2>2. /\ asked.agent_id \in BoundAgents /\ asked.action \in DOMAIN capabilities_for(asked.agent_id)
        /\ own.effect \in Effects
    BY <2>1, EffectOfCapability DEF Reaches
  <2>3. evaluate(asked, u, moment).decision =
          IF Grants(own, asked, u, moment) THEN own.effect ELSE "deny"
    BY <2>1, <2>2, EvaluateReaches, CapabilityDecides
  <2>4. Grants(own, asked, u, moment) /\ own.effect # "deny"
    BY <1>1, <2>3 DEF Grants
  <2> QED BY <2>2, <2>3, <2>4 DEF _tools_list
<1>2. verdict \in {"deny", shown.decision}
  <2>1. CASE shown.decision = "deny"
    <3>1. verdict = "deny"
      <4> HIDE DEF zero
      <4> QED BY <1>0, <2>1, DenialsLast
    <3> QED BY <3>1
  <2>2. CASE shown.decision # "deny"
    <3>1. shown.decision = own.effect
      BY <1>1, <2>2
    <3>2. verdict # "deny" => verdict = own.effect
      BY <1>1
    <3> QED BY <3>1, <3>2
  <2> QED BY <2>1, <2>2
<1>3. shown.decision # "deny" => listed
  BY <1>1
<1>4. ASSUME listed
      PROVE  shown.reason \notin {"TOOL_NOT_ALLOWED", "EXPLICITLY_DENIED"}
  <2>1. /\ asked.agent_id \in BoundAgents
        /\ asked.action \in DOMAIN capabilities_for(asked.agent_id) /\ own.effect # "deny"
    <3>1. asked.agent_id \in BoundAgents
      BY <1>4, Zenon DEF _tools_list
    <3> QED BY <1>4, <3>1 DEF _tools_list
  <2>2. \A y : deny(y).reason = y
    BY DEF deny
  <2> DEFINE violation == check_constraints(own.constraints, asked, zero.calls)
  <2>3. violation \in {"BUDGET_EXHAUSTED", "ARGUMENT_NOT_ALLOWED", "ARGUMENT_MISSING",
                       "DOMAIN_NOT_ALLOWED", "TARGET_NOT_ALLOWED",
                       "DELEGATED_ACTION_NOT_ALLOWED", None}
    BY Zenon DEF check_constraints
  <2>4. \/ shown = evaluate_capability(asked, own, zero, moment)
        \/ \E y \in {"MALFORMED_REQUEST", "UNKNOWN_AGENT", "CONTRACT_MISMATCH",
                     "CONTRACT_EXPIRED", "BUDGET_EXHAUSTED", "RESERVED_ACTION"} : shown = deny(y)
    BY <2>1, Zenon DEF evaluate
  <2>5. \/ /\ violation # None
           /\ evaluate_capability(asked, own, zero, moment) = deny(violation)
        \/ \E y \in {"CAPABILITY_EXPIRED", "TARGET_NOT_ALLOWED"} :
              evaluate_capability(asked, own, zero, moment) = deny(y)
        \/ evaluate_capability(asked, own, zero, moment)
              = [decision |-> "escalate", reason |-> "REQUIRES_APPROVAL"]
        \/ evaluate_capability(asked, own, zero, moment)
              = [decision |-> "allow", reason |-> "CAPABILITY_GRANTED"]
    BY <2>1, Zenon DEF evaluate_capability
  <2> HIDE DEF violation, shown
  <2> QED BY <2>2, <2>3, <2>4, <2>5
<1> HIDE DEF verdict, shown, listed, zero
<1> QED BY <1>2, <1>3, <1>4 DEF ViewsBoundDecisions, explain, verdict, shown, listed, zero

(* A fetch connects to the first of addresses that are all public.         *)
LEMMA FetchIsPinned == FetchStaysPublic
<1>1. ASSUME NEW url, NEW given, NEW first \in Answers, NEW second,
             fetch(url, given, 443, <<first, second>>).kind = "connected"
      PROVE  LET got == fetch(url, given, 443, <<first, second>>)
             IN  got.public /\ got.port \in AllowedPorts
  <2>1. PICK addresses : addresses = IF url.ip THEN <<url.public>> ELSE first
    OBVIOUS
  <2>2. addresses # << >> => Len(addresses) \in Nat \ {0}
    <3>1. PICK n \in 0..2 : first \in [1..n -> BOOLEAN]
      BY DEF Answers
    <3>2. first \in Seq(BOOLEAN)
      BY <3>1
    <3>3. first # << >> => Len(first) \in Nat \ {0}
      BY <3>2, LenProperties, EmptySeq
    <3> QED BY <2>1, <3>3
  <2>3. PICK got, port : got = fetch(url, given, 443, <<first, second>>) /\ port = port_of(given, 443)
    OBVIOUS
  <2>4. got = IF \/ port \notin AllowedPorts
                 \/ addresses = << >>
                 \/ \E i \in 1..Len(addresses) : ~addresses[i]
              THEN Refused ELSE connect(addresses[1], port)
    BY <2>1, <2>3 DEF fetch
  <2>5. /\ port \in AllowedPorts /\ addresses # << >>
        /\ \A i \in 1..Len(addresses) : addresses[i]
        /\ got = connect(addresses[1], port)
    <3>1. got.kind = "connected" /\ Refused.kind # "connected"
      BY <1>1, <2>3 DEF Refused
    <3> QED BY <2>4, <3>1, Zenon
  <2>6. addresses[1]
    BY <2>2, <2>5
  <2> QED BY <2>3, <2>5, <2>6 DEF connect
<1> QED BY <1>1 DEF FetchStaysPublic

(* An agent's contract among cs, and whether it has one.                   *)
Home(cs, a) == CHOOSE k \in DOMAIN cs : a \in DOMAIN cs[k].agents
Declared(cs, a) == \E k \in DOMAIN cs : a \in DOMAIN cs[k].agents

OneHome(cs) ==
    \A c, d \in DOMAIN cs : c # d => DOMAIN cs[c].agents \cap DOMAIN cs[d].agents = {}

(* What diff compares under an agent and an action is what the agent's own *)
(* contract grants it.                                                     *)
LEMMA GrantsAreCapabilities ==
    ASSUME NEW cs, OneHome(cs), NEW a, NEW x
    PROVE  /\ Declared(cs, a) => Home(cs, a) \in DOMAIN cs /\ a \in DOMAIN cs[Home(cs, a)].agents
           /\ <<a, x>> \in GrantKeys(cs) <=>
                Declared(cs, a) /\ x \in DOMAIN cs[Home(cs, a)].agents[a]
           /\ <<a, x>> \in GrantKeys(cs) =>
                grants_from_contracts(cs)[<<a, x>>] = cs[Home(cs, a)].agents[a][x]
<1>1. Declared(cs, a) => Home(cs, a) \in DOMAIN cs /\ a \in DOMAIN cs[Home(cs, a)].agents
  BY Zenon DEF Declared, Home
<1>2. ASSUME NEW k \in DOMAIN cs, a \in DOMAIN cs[k].agents
      PROVE  Declared(cs, a) /\ k = Home(cs, a)
  <2>1. Declared(cs, a)
    BY <1>2 DEF Declared
  <2> QED BY <1>1, <1>2, <2>1 DEF OneHome
<1>3. <<a, x>> \in GrantKeys(cs) <=>
        \E k \in DOMAIN cs : a \in DOMAIN cs[k].agents /\ x \in DOMAIN cs[k].agents[a]
  <2>1. ASSUME <<a, x>> \in GrantKeys(cs)
        PROVE  \E k \in DOMAIN cs : a \in DOMAIN cs[k].agents /\ x \in DOMAIN cs[k].agents[a]
    <3>1. PICK k \in DOMAIN cs :
            <<a, x>> \in UNION {{<<g, y>> : y \in DOMAIN cs[k].agents[g]} : g \in DOMAIN cs[k].agents}
      BY <2>1, Zenon DEF GrantKeys
    <3>2. PICK g \in DOMAIN cs[k].agents : <<a, x>> \in {<<g, y>> : y \in DOMAIN cs[k].agents[g]}
      BY <3>1, Zenon
    <3>3. PICK y \in DOMAIN cs[k].agents[g] : <<a, x>> = <<g, y>>
      BY <3>2, Zenon
    <3> QED BY <3>3
  <2>2. ASSUME NEW k \in DOMAIN cs, a \in DOMAIN cs[k].agents, x \in DOMAIN cs[k].agents[a]
        PROVE  <<a, x>> \in GrantKeys(cs)
    <3>1. <<a, x>> \in {<<a, y>> : y \in DOMAIN cs[k].agents[a]}
      BY <2>2
    <3>2. <<a, x>> \in UNION {{<<g, y>> : y \in DOMAIN cs[k].agents[g]} : g \in DOMAIN cs[k].agents}
      BY <2>2, <3>1, Zenon
    <3> DEFINE KeysOf(c) == UNION {{<<g, y>> : y \in DOMAIN cs[c].agents[g]} : g \in DOMAIN cs[c].agents}
    <3>3. GrantKeys(cs) = UNION {KeysOf(c) : c \in DOMAIN cs}
      BY Zenon DEF GrantKeys
    <3>4. <<a, x>> \in KeysOf(k)
      BY <3>2
    <3> HIDE DEF KeysOf
    <3> QED BY <3>3, <3>4
  <2> QED BY <2>1, <2>2
<1>4. <<a, x>> \in GrantKeys(cs) <=> Declared(cs, a) /\ x \in DOMAIN cs[Home(cs, a)].agents[a]
  BY <1>1, <1>2, <1>3
<1>5. ASSUME <<a, x>> \in GrantKeys(cs)
      PROVE  grants_from_contracts(cs)[<<a, x>>] = cs[Home(cs, a)].agents[a][x]
  <2>1. PICK key \in GrantKeys(cs) : key = <<a, x>> /\ key[1] = a /\ key[2] = x
    BY <1>5
  <2>2. grants_from_contracts(cs)[key] =
          cs[CHOOSE k \in DOMAIN cs : key[1] \in DOMAIN cs[k].agents].agents[key[1]][key[2]]
    BY DEF grants_from_contracts
  <2> QED BY <2>1, <2>2, Zenon DEF Home
<1> QED BY <1>1, <1>4, <1>5

(* The policy over the contracts, and over edited ones, in the terms above.*)
LEMMA PolicyOver ==
    ASSUME NEW cs
    PROVE  /\ OneHome(contracts)
           /\ Edited(cs)!ValidBindings => OneHome(cs)
           /\ \A a : a \in BoundAgents <=> Declared(contracts, a)
           /\ \A a : a \in Edited(cs)!BoundAgents <=> Declared(cs, a)
           /\ \A a \in BoundAgents : bindings[a] = Home(contracts, a)
           /\ \A a \in Edited(cs)!BoundAgents : Edited(cs)!bindings[a] = Home(cs, a)
           /\ DOMAIN bindings = BoundAgents
           /\ DOMAIN Edited(cs)!bindings = Edited(cs)!BoundAgents
<1>1. OneHome(contracts)
  BY ContractsLoaded DEF OneHome, ValidBindings, ContractIds
<1>2. Edited(cs)!ValidBindings => OneHome(cs)
  BY DEF OneHome, Edited!ValidBindings, Edited!ContractIds
<1>3. \A a : a \in BoundAgents <=> Declared(contracts, a)
  BY DEF BoundAgents, Declared, ContractIds
<1>4. \A a : a \in Edited(cs)!BoundAgents <=> Declared(cs, a)
  BY DEF Edited!BoundAgents, Declared, Edited!ContractIds
<1>5. /\ \A a \in BoundAgents : bindings[a] = Home(contracts, a)
      /\ DOMAIN bindings = BoundAgents
  BY DEF bindings, Home, ContractIds
<1>6. /\ \A a \in Edited(cs)!BoundAgents : Edited(cs)!bindings[a] = Home(cs, a)
      /\ DOMAIN Edited(cs)!bindings = Edited(cs)!BoundAgents
  BY DEF Edited!bindings, Home, Edited!ContractIds
<1> QED BY <1>1, <1>2, <1>3, <1>4, <1>5, <1>6

(* A capability is judged by the same rules under edited contracts.        *)
LEMMA EditedCapability ==
    ASSUME NEW cs, Edited(cs)!BoundAgents = BoundAgents, NEW r, NEW cap, NEW u, NEW t
    PROVE  /\ Edited(cs)!problems(r) <=> problems(r)
           /\ Edited(cs)!evaluate_capability(r, cap, u, t) = evaluate_capability(r, cap, u, t)
<1>1. Edited(cs)!problems(r) <=> problems(r)
  BY Zenon DEF problems, Edited!problems
<1>2. \A h : \A ds : Edited(cs)!matches(h, ds) <=> matches(h, ds)
  BY Zenon DEF matches, Edited!matches, EndsWith, Edited!EndsWith
<1>3. \A h : Edited(cs)!is_private_host(h) <=> is_private_host(h)
  BY Zenon DEF is_private_host, Edited!is_private_host, EndsWith, Edited!EndsWith
<1>4. \A c : Edited(cs)!url_argument(c) = url_argument(c)
  BY Zenon DEF url_argument, Edited!url_argument
<1>5. \A c, args : Edited(cs)!_check_url_denies(c, args) <=> _check_url_denies(c, args)
  BY <1>2, <1>3, <1>4, Zenon DEF _check_url_denies, Edited!_check_url_denies
<1>6. Edited(cs)!check_constraints(cap.constraints, r, u.calls)
        = check_constraints(cap.constraints, r, u.calls)
  BY <1>5, Zenon DEF check_constraints, Edited!check_constraints,
                     UrlConstraints, Edited!UrlConstraints
<1>7. Edited(cs)!evaluate_capability(r, cap, u, t) = evaluate_capability(r, cap, u, t)
  BY <1>6, Zenon DEF evaluate_capability, Edited!evaluate_capability, deny, Edited!deny,
                     expired, Edited!expired, MESSAGE_ACTION, Edited!MESSAGE_ACTION,
                     DELEGATE_ACTION, Edited!DELEGATE_ACTION
<1> QED BY <1>1, <1>7

(* Under edited contracts, too, what is not denied has a capability.       *)
LEMMA EditedReaches ==
    ASSUME NEW cs, Edited(cs)!BoundAgents = BoundAgents, NEW r, NEW u, NEW t
    PROVE  LET after == Edited(cs)!evaluate(r, u, t)
               c     == cs[Edited(cs)!bindings[r.agent_id]]
               caps  == c.agents[r.agent_id]
           IN  after =
                 IF problems(r) THEN deny("MALFORMED_REQUEST")
                 ELSE IF r.agent_id \notin BoundAgents THEN deny("UNKNOWN_AGENT")
                 ELSE IF r.contract_id \notin {None, Edited(cs)!bindings[r.agent_id]}
                   THEN deny("CONTRACT_MISMATCH")
                 ELSE IF expired(c.expires_at, t) THEN deny("CONTRACT_EXPIRED")
                 ELSE IF u.steps >= c.max_steps THEN deny("BUDGET_EXHAUSTED")
                 ELSE IF r.action \in Reserved THEN deny("RESERVED_ACTION")
                 ELSE IF r.action \notin DOMAIN caps THEN deny("TOOL_NOT_ALLOWED")
                 ELSE evaluate_capability(r, caps[r.action], u, t)
<1>1. /\ Edited(cs)!problems(r) <=> problems(r)
      /\ \A cap : Edited(cs)!evaluate_capability(r, cap, u, t) = evaluate_capability(r, cap, u, t)
  BY EditedCapability
<1>2. /\ \A y : Edited(cs)!deny(y) = deny(y)
      /\ \A at : Edited(cs)!expired(at, t) <=> expired(at, t)
  BY Zenon DEF deny, Edited!deny, expired, Edited!expired
<1>3. \A a : /\ Edited(cs)!contract_of(a) = cs[Edited(cs)!bindings[a]]
             /\ Edited(cs)!capabilities_for(a) = cs[Edited(cs)!bindings[a]].agents[a]
  BY Zenon DEF Edited!contract_of, Edited!capabilities_for
<1> QED BY <1>1, <1>2, <1>3 DEF Edited!evaluate

(* What a diff that does not speak of a key means.                         *)
LEMMA GrantChangesMean ==
    ASSUME NEW left, NEW right, NEW key
    PROVE  LET lg == grants_from_contracts(left)
               rg == grants_from_contracts(right)
           IN  /\ (\A g \in GrantChanges(left, right) : g.key # key) =>
                    /\ key \in DOMAIN lg <=> key \in DOMAIN rg
                    /\ key \in DOMAIN lg => lg[key] = rg[key]
               /\ \A g \in GrantChanges(left, right) :
                    /\ g.key = key /\ g.status = "removed" => key \notin DOMAIN rg
                    /\ g.key = key /\ g.status = "narrowed" =>
                         /\ key \in DOMAIN lg \cap DOMAIN rg
                         /\ _rank(rg[key].effect) < _rank(lg[key].effect)
<1> DEFINE L == grants_from_contracts(left)
           R == grants_from_contracts(right)
           Changed == {k \in DOMAIN L \cap DOMAIN R : L[k] # R[k]}
<1>1. PICK lg, rg : lg = L /\ rg = R
  OBVIOUS
<1>2. GrantChanges(left, right) =
          {[key |-> k, status |-> "removed"] : k \in DOMAIN lg \ DOMAIN rg}
          \cup {[key |-> k, status |-> "added"] : k \in DOMAIN rg \ DOMAIN lg}
          \cup {[key |-> k, status |-> status(lg[k], rg[k])] :
                  k \in {k \in DOMAIN lg \cap DOMAIN rg : lg[k] # rg[k]}}
  BY <1>1, Zenon DEF GrantChanges
<1> HIDE DEF L, R
<1>3. ASSUME \A g \in GrantChanges(left, right) : g.key # key
      PROVE  (key \in DOMAIN lg <=> key \in DOMAIN rg) /\ (key \in DOMAIN lg => lg[key] = rg[key])
  <2>1. key \in DOMAIN lg => key \in DOMAIN rg
    <3>1. SUFFICES ASSUME key \in DOMAIN lg \ DOMAIN rg PROVE FALSE
      OBVIOUS
    <3>2. [key |-> key, status |-> "removed"] \in GrantChanges(left, right)
      BY <1>2, <3>1
    <3> QED BY <1>3, <3>2
  <2>2. key \in DOMAIN rg => key \in DOMAIN lg
    <3>1. SUFFICES ASSUME key \in DOMAIN rg \ DOMAIN lg PROVE FALSE
      OBVIOUS
    <3>2. [key |-> key, status |-> "added"] \in GrantChanges(left, right)
      BY <1>2, <3>1
    <3> QED BY <1>3, <3>2
  <2>3. key \in DOMAIN lg => lg[key] = rg[key]
    <3>1. SUFFICES ASSUME key \in DOMAIN lg \cap DOMAIN rg, lg[key] # rg[key] PROVE FALSE
      BY <2>1
    <3>2. [key |-> key, status |-> status(lg[key], rg[key])] \in GrantChanges(left, right)
      BY <1>2, <3>1
    <3> QED BY <1>3, <3>2
  <2> QED BY <2>1, <2>2, <2>3
<1>4. ASSUME NEW g \in GrantChanges(left, right), g.key = key
      PROVE  /\ g.status = "removed" => key \notin DOMAIN rg
             /\ g.status = "narrowed" =>
                  /\ key \in DOMAIN lg \cap DOMAIN rg
                  /\ _rank(rg[key].effect) < _rank(lg[key].effect)
  <2>1. \/ key \in DOMAIN lg \ DOMAIN rg /\ g.status = "removed"
        \/ g.status = "added"
        \/ key \in DOMAIN lg \cap DOMAIN rg /\ g.status = status(lg[key], rg[key])
    BY <1>2, <1>4
  <2>2. /\ status(lg[key], rg[key]) # "removed"
        /\ status(lg[key], rg[key]) = "narrowed" => _rank(rg[key].effect) < _rank(lg[key].effect)
    BY DEF status
  <2> QED BY <2>1, <2>2
<1> QED BY <1>1, <1>3, <1>4 DEF L, R

(* diff announces what an edit changes for a request.                      *)
LEMMA DiffShows ==
    ASSUME WalkTyped
    PROVE  DiffShowsEveryChange
<1> DEFINE a == asked.agent_id
           x == asked.action
           key == <<a, x>>
<1>0. SUFFICES ASSUME NEW e \in DOMAIN Edits, Edited(Edits[e])!bindings = bindings
      PROVE  LET changes == diff(contracts, Edits[e])
                 after   == Edited(Edits[e])!evaluate(asked, spent, moment)
                 unseen  == /\ \A g \in changes.grants : g.key # key
                            /\ a \in BoundAgents => bindings[a] \notin changes.contracts
             IN  /\ unseen => after = evaluate(asked, spent, moment)
                 /\ \A g \in changes.grants :
                        g.key = key /\ g.status \in {"removed", "narrowed"} => after.decision # "allow"
  BY DEF DiffShowsEveryChange
<1>1. PICK cs : cs = Edits[e]
  OBVIOUS
<1> DEFINE after == Edited(cs)!evaluate(asked, spent, moment)
           k == bindings[a]
           caps == cs[k].agents[a]
<1>2. /\ Edited(cs)!BoundAgents = BoundAgents
      /\ Edited(cs)!bindings[a] = k
  BY <1>0, <1>1, PolicyOver
<1>3. Edited(cs)!ValidBindings /\ \A c \in DOMAIN cs : Edited(cs)!ValidContract(cs[c])
  BY <1>1, EditsLoad
<1>4. a \in BoundAgents =>
        /\ k \in DOMAIN contracts /\ k \in DOMAIN cs
        /\ a \in DOMAIN contracts[k].agents /\ a \in DOMAIN cs[k].agents
        /\ k = Home(contracts, a) /\ k = Home(cs, a)
  <2>1. OneHome(contracts) /\ OneHome(cs)
    BY <1>3, PolicyOver
  <2>2. a \in BoundAgents => Declared(contracts, a) /\ Declared(cs, a)
    BY <1>2, PolicyOver
  <2>3. a \in BoundAgents => k = Home(contracts, a) /\ k = Home(cs, a)
    BY <1>2, PolicyOver
  <2>4. PICK b : b = a
    OBVIOUS
  <2>5. /\ Declared(contracts, b) => Home(contracts, b) \in DOMAIN contracts
                                      /\ b \in DOMAIN contracts[Home(contracts, b)].agents
        /\ Declared(cs, b) => Home(cs, b) \in DOMAIN cs /\ b \in DOMAIN cs[Home(cs, b)].agents
    BY <2>1, GrantsAreCapabilities, Zenon
  <2> QED BY <2>2, <2>3, <2>4, <2>5
<1>5. /\ key \in GrantKeys(contracts) <=> a \in BoundAgents /\ x \in DOMAIN capabilities_for(a)
      /\ key \in GrantKeys(cs) <=> a \in BoundAgents /\ x \in DOMAIN caps
      /\ key \in GrantKeys(contracts) =>
           grants_from_contracts(contracts)[key] = capabilities_for(a)[x]
      /\ key \in GrantKeys(cs) => grants_from_contracts(cs)[key] = caps[x]
  BY <1>2, <1>3, <1>4, PolicyOver, GrantsAreCapabilities DEF contract_of, capabilities_for
<1>6. /\ DOMAIN grants_from_contracts(contracts) = GrantKeys(contracts)
      /\ DOMAIN grants_from_contracts(cs) = GrantKeys(cs)
  BY DEF grants_from_contracts
<1>7. LET lg == grants_from_contracts(contracts)
           rg == grants_from_contracts(cs)
       IN  /\ (\A g \in GrantChanges(contracts, cs) : g.key # key) =>
                /\ key \in GrantKeys(contracts) <=> key \in GrantKeys(cs)
                /\ key \in GrantKeys(contracts) => lg[key] = rg[key]
           /\ \A g \in GrantChanges(contracts, cs) :
                /\ g.key = key /\ g.status = "removed" => key \notin GrantKeys(cs)
                /\ g.key = key /\ g.status = "narrowed" =>
                     /\ key \in GrantKeys(contracts) \cap GrantKeys(cs)
                     /\ _rank(rg[key].effect) < _rank(lg[key].effect)
  <2>1. PICK p : p = key
    OBVIOUS
  <2>2. LET lg == grants_from_contracts(contracts)
            rg == grants_from_contracts(cs)
        IN  /\ (\A g \in GrantChanges(contracts, cs) : g.key # p) =>
                 /\ p \in DOMAIN lg <=> p \in DOMAIN rg
                 /\ p \in DOMAIN lg => lg[p] = rg[p]
            /\ \A g \in GrantChanges(contracts, cs) :
                 /\ g.key = p /\ g.status = "removed" => p \notin DOMAIN rg
                 /\ g.key = p /\ g.status = "narrowed" =>
                      /\ p \in DOMAIN lg \cap DOMAIN rg
                      /\ _rank(rg[p].effect) < _rank(lg[p].effect)
    BY GrantChangesMean, Zenon
  <2> HIDE DEF key
  <2> QED BY <1>6, <2>1, <2>2
<1>8. after =
        IF problems(asked) THEN deny("MALFORMED_REQUEST")
        ELSE IF a \notin BoundAgents THEN deny("UNKNOWN_AGENT")
        ELSE IF asked.contract_id \notin {None, k} THEN deny("CONTRACT_MISMATCH")
        ELSE IF expired(cs[k].expires_at, moment) THEN deny("CONTRACT_EXPIRED")
        ELSE IF spent.steps >= cs[k].max_steps THEN deny("BUDGET_EXHAUSTED")
        ELSE IF x \in Reserved THEN deny("RESERVED_ACTION")
        ELSE IF x \notin DOMAIN caps THEN deny("TOOL_NOT_ALLOWED")
        ELSE evaluate_capability(asked, caps[x], spent, moment)
  BY <1>2, EditedReaches
<1>9. ASSUME \A g \in GrantChanges(contracts, cs) : g.key # key,
             a \in BoundAgents => k \notin diff(contracts, cs).contracts
      PROVE  after = evaluate(asked, spent, moment)
  <2>1. CASE a \notin BoundAgents
    BY <1>8, <2>1, Zenon DEF evaluate
  <2>2. CASE a \in BoundAgents
    <3>1. meta(contracts)[k] = meta(cs)[k]
      BY <1>4, <1>9, <2>2 DEF diff
    <3>2. contracts[k].max_steps = cs[k].max_steps /\ contracts[k].expires_at = cs[k].expires_at
      BY <1>4, <2>2, <3>1 DEF meta
    <3>3. /\ x \in DOMAIN capabilities_for(a) <=> x \in DOMAIN caps
          /\ x \in DOMAIN caps => capabilities_for(a)[x] = caps[x]
      BY <1>5, <1>7, <1>9, <2>2
    <3>4. contract_of(a) = contracts[k]
      BY DEF contract_of
    <3> HIDE DEF k, a, x, caps, after
    <3> QED BY <1>8, <2>2, <3>2, <3>3, <3>4 DEF evaluate, k, a, x
  <2> QED BY <2>1, <2>2
<1>10. ASSUME NEW g \in GrantChanges(contracts, cs), g.key = key,
             g.status \in {"removed", "narrowed"}
      PROVE  after.decision # "allow"
  <2>0. \A y : deny(y).decision = "deny"
    BY DEF deny
  <2>1. SUFFICES ASSUME a \in BoundAgents, x \in DOMAIN caps,
                        after = evaluate_capability(asked, caps[x], spent, moment)
        PROVE  after.decision # "allow"
    <3>1. \/ \E y : after = deny(y)
          \/ /\ a \in BoundAgents /\ x \in DOMAIN caps
             /\ after = evaluate_capability(asked, caps[x], spent, moment)
      BY <1>8, Zenon
    <3> QED BY <2>0, <2>1, <3>1
  <2>2. /\ key \in GrantKeys(contracts)
        /\ _rank(caps[x].effect) < _rank(capabilities_for(a)[x].effect)
    <3>1. key \in GrantKeys(cs)
      BY <1>5, <2>1
    <3>2. g.status = "narrowed"
      BY <1>7, <1>10, <3>1
    <3> QED BY <1>5, <1>7, <1>10, <3>1, <3>2
  <2>3. capabilities_for(a)[x].effect \in Effects
    BY <1>5, <2>2, EffectOfCapability
  <2>4. caps[x].effect \in Effects
    <3>1. Edited(cs)!ValidContract(cs[k])
      BY <1>3, <1>4, <2>1
    <3>2. Edited(cs)!ValidCapability(x, caps[x])
      BY <1>4, <2>1, <3>1, Zenon DEF Edited!ValidContract
    <3> QED BY <3>2, Zenon DEF Edited!ValidCapability, Edited!Effects, Effects
  <2>5. caps[x].effect # "allow"
    <3>1. \A f, h \in Effects : _rank(f) < _rank(h) => f # "allow"
      BY DEF Effects, _rank
    <3> QED BY <2>2, <2>3, <2>4, <3>1, Zenon
  <2>6. after.decision \in {caps[x].effect, "deny"}
    <3>1. PICK cap : cap = caps[x]
      OBVIOUS
    <3>2. evaluate_capability(asked, cap, spent, moment).decision \in {cap.effect, "deny"}
      BY <2>4, <3>1, CapabilityDecides
    <3> QED BY <2>1, <3>1, <3>2, Zenon
  <2> QED BY <2>5, <2>6
<1> QED BY <1>1, <1>9, <1>10 DEF diff

(* The ladder of early returns in policy.evaluate and check_constraints is *)
(* the documented table of constraints: it drops no rule and adds none.    *)
THEOREM PolicyIsTheTable == WalkSpec => []EvaluateAgrees
BY WalkTypes, EvaluateIsTheTable, PTL

(* What tools/list and explain show bounds what evaluate decides.          *)
THEOREM ViewsAreBounds == WalkSpec => []ViewsBoundDecisions
BY WalkTypes, ViewsBound, PTL

(* Whatever is decided differently under edited contracts is announced by  *)
(* diff, if the edit leaves every agent in its contract; what diff shows   *)
(* as removed or narrowed is allowed to nobody.                            *)
THEOREM ChangesAreShown == WalkSpec => []DiffShowsEveryChange
BY WalkTypes, DiffShows, PTL

(* HttpFetchTool connects to public addresses on allowed ports only,       *)
(* whatever the resolver answers and whichever ports are allowed.          *)
THEOREM FetchesStayPublic == WalkSpec => []FetchStaysPublic
BY FetchIsPinned, PTL

(* No step of counters or time gives a denied request more authority.      *)
THEOREM AuthorityShrinks == WalkSpec => AuthorityOnlyShrinks
<1>1. WalkTyped /\ [WalkNext]_walk =>
        [evaluate(asked, spent, moment).decision = "deny"
            => evaluate(asked', spent', moment').decision = "deny"]_walk
  <2>1. SUFFICES ASSUME WalkTyped, WalkNext, evaluate(asked, spent, moment).decision = "deny"
        PROVE  evaluate(asked', spent', moment').decision = "deny"
    OBVIOUS
  <2>2. PICK r, u, v, t, s :
          r = asked /\ u = spent /\ v = spent' /\ t = moment /\ s = moment'
    OBVIOUS
  <2>3. asked' = r
    BY <2>1, <2>2 DEF WalkNext
  <2>4. /\ r \in Request /\ u \in [steps: Nat, calls: Nat] /\ v \in [steps: Nat, calls: Nat]
        /\ u.steps <= v.steps /\ u.calls <= v.calls
        /\ t \in Nat /\ s \in Nat /\ t <= s
    BY <2>1, <2>2 DEF WalkTyped, WalkNext
  <2>5. evaluate(r, v, s).decision = "deny"
    BY <2>1, <2>2, <2>4, DenialsLast
  <2> QED BY <2>2, <2>3, <2>5
<1> QED BY <1>1, WalkTypes, PTL DEF WalkSpec, AuthorityOnlyShrinks

============================================================================
