-------------------------- MODULE FrontDoors_proofs --------------------------
(***************************************************************************)
(* What callers are told is what happened, for any agents, approvers,      *)
(* threads, proposals and failures.                                        *)
(***************************************************************************)
EXTENDS FrontDoors, TLAPS

----------------------------------------------------------------------------
(* The inductive invariant                                                 *)

Stages == {"idle", "verdict", "reject", "rejected", "respond", "annotate"}
Decision == [agent : Agents, kind : Kinds, decision : Decisions, parent : Nat]
Record == [status : {"pending", "decided"}, verdict : Verdicts \cup {None},
           result : Body \cup {None}]
Thread == [at : Stages, id : Nat, made : Nat, body : Body \cup {None}]

Types ==
    /\ decisions \in Seq(Decision)
    /\ \A i \in DOMAIN decisions : decisions[i].parent \in DOMAIN decisions \cup {0}
    /\ ran \subseteq DOMAIN decisions
    /\ \A i \in ran : decisions[i].decision = "allow"
    /\ DOMAIN approvals = {i \in DOMAIN decisions : decisions[i].decision = "escalate"}
    /\ approvals \in [DOMAIN approvals -> Record]
    /\ thread \in [Threads -> Thread]
    /\ abandoned \subseteq DOMAIN approvals

(* A decision on a request, or on the second stage of a delegation that    *)
(* was allowed; the others are a human's decisions on an escalation.       *)
Rooted(i) ==
    LET parent == decisions[i].parent
    IN  parent = 0 \/ (parent \in DOMAIN decisions /\ decisions[parent].decision = "allow")

Childless(id) == \A i \in DOMAIN decisions : decisions[i].parent # id

(* The part of a result that says what ran, and that it is true.           *)
Final(b) == IF b.action # NoPayload THEN b.action ELSE b.whole
Truthful(id, b) ==
    LET f == Final(b)
    IN  /\ f.decision_id \in DOMAIN decisions
        /\ decisions[f.decision_id].parent = id \/ Rooted(f.decision_id)
        /\ f.execution \in {"succeeded", "says_error"} => f.decision_id \in ran
        /\ f.execution \in {None, "refused"} => f.decision_id \notin ran

(* A thread works on an approval that is taken and has no result yet; what *)
(* a human decided is the approval's only child, and has not run before    *)
(* the thread responds.                                                    *)
Working(t) ==
    LET w == thread[t]
    IN  /\ w.id \in DOMAIN approvals
        /\ approvals[w.id].status = "decided" /\ approvals[w.id].result = None
        /\ w.at \in {"reject", "verdict", "rejected"} => approvals[w.id].verdict = None
        /\ w.at = "reject" => Childless(w.id)
        /\ w.at # "reject" =>
              /\ w.made \in DOMAIN decisions /\ decisions[w.made].decision # "escalate"
              /\ \A i \in DOMAIN decisions : decisions[i].parent = w.id <=> i = w.made
        /\ w.at \in {"verdict", "rejected", "respond"} => w.made \notin ran
        /\ w.at = "rejected" => decisions[w.made].decision = "deny"
        /\ w.at = "annotate" => w.body \in Body /\ Truthful(w.id, w.body)

Workers ==
    /\ \A t \in Threads : thread[t].at # "idle" => Working(t)
    /\ \A t, u \in Threads :
          thread[t].at # "idle" /\ thread[u].at # "idle" /\ thread[t].id = thread[u].id => t = u

Status(id) ==
    LET s == approvals[id]
    IN  /\ s.status = "pending" => s.verdict = None /\ s.result = None /\ Childless(id)
        /\ s.verdict \in {"rejected", "superseded"} =>
              \A i \in DOMAIN decisions : decisions[i].parent = id => decisions[i].decision = "deny"
        /\ s.result # None => Truthful(id, s.result)

Statuses == \A id \in DOMAIN approvals : Status(id)

(* What a response says: over HTTP that it ran, over MCP that it did not   *)
(* fail, and over MCP that it did not run.                                 *)
HttpRan(response) == Outcome(response).execution \in {"succeeded", "says_error"}
McpOk(response) == ~decision_result(response).isError
McpNo(response) == decision_result(response).says \in {"denied", "needs approval"}

(* What it says is true of its last decision, which ran if effect holds.   *)
Says(response, kind, single, last, effect) ==
    /\ HttpRan(response) => effect
    /\ McpOk(response) => effect \/ kind = "message"
    /\ response.status \in {202, 403, 502} => ~effect
    /\ McpNo(response) => ~effect
    /\ response.status = 202 /\ single => decision_result(response).approval_id = last

(* What the SDK reads in it is of its last decision, d.                    *)
Reads(response, kind, last, d) ==
    LET http == Outcome(response)
    IN  /\ response.status # 500 => http.decision = d.decision
        /\ response.status \in {202, 403} => http.reason_of = last
        /\ response.status = 200 /\ kind # "message" => http.execution \notin {None, Raised}
        /\ response.status = 202 => http.approval_id = last /\ d.decision = "escalate"

Told(r) ==
    /\ r.last \in DOMAIN decisions /\ Rooted(r.last)
    /\ r.response.body \in Body
    /\ Says(r.response, r.kind, r.first = r.last, r.last, r.last \in ran)
    /\ Reads(r.response, r.kind, r.last, decisions[r.last])
    /\ r.first = r.last => decisions[r.last].agent = r.agent

Replies == \A r \in replies : Told(r)

IInv == Types /\ Workers /\ Statuses /\ Replies

----------------------------------------------------------------------------
(* Responses                                                               *)

(* Python's None is no string and no number.                               *)
LEMMA Nothing ==
    /\ None \notin Decisions /\ None \notin Nat
    /\ None \notin {"succeeded", "says_error", "failed", "refused"} /\ None \notin Verdicts
    /\ Raised \notin {None, "succeeded", "says_error", "failed", "refused"}
BY Setting DEF Setting, Decisions, Executions

(* NoPayload and what to_dict makes are payloads, and differ.              *)
LEMMA Payloads ==
    /\ NoPayload \in Payload
    /\ \A id \in Nat, d \in Decision : to_dict(id, d) \in Payload /\ to_dict(id, d) # NoPayload
<1>1. NoPayload \in Payload
  BY DEF NoPayload, Payload
<1>2. ASSUME NEW id \in Nat, NEW d \in Decision PROVE to_dict(id, d) \in Payload
  BY DEF to_dict, Payload, Decision
<1>3. ASSUME NEW id \in Nat, NEW d \in Decision PROVE to_dict(id, d) # NoPayload
  <2>1. to_dict(id, d).decision = d.decision /\ NoPayload.decision = None /\ d.decision \in Decisions
    BY DEF to_dict, NoPayload, Decision
  <2> QED BY <2>1, Nothing
<1> QED BY <1>1, <1>2, <1>3

(* What a response with one payload says.                                  *)
LEMMA PlainSays ==
    ASSUME NEW p \in Payload, NEW s \in Nat, NEW r, r = [status |-> s, body |-> Plain(p)]
    PROVE  /\ r.status = s /\ r.body \in Body
           /\ decision_result(r).approval_id = p.approval_id
           /\ HttpRan(r) => p.execution \in {"succeeded", "says_error"}
           /\ McpOk(r) => s = 200 /\ p.execution \notin {"failed", "says_error"}
           /\ McpNo(r) => s # 200 /\ s # 500
<1>1. /\ r.status = s /\ r.body.whole = p /\ r.body.action = NoPayload
      /\ r.body.delegation = NoPayload /\ r.body.blocked_at = None
  BY DEF Plain
<1>2. r.body \in Body
  BY Payloads DEF Plain, Body
<1>3. NoPayload.execution = None /\ NoPayload.approval_id = None
  BY DEF NoPayload
<1>4. Outcome(r).execution \in {p.execution, None, Raised}
  BY <1>1, <1>3 DEF Outcome, FirstOf
<1>6. decision_result(r).approval_id = p.approval_id
  BY <1>1, <1>3 DEF decision_result, FirstOf
<1>7. \/ decision_result(r).isError = TRUE
      \/ s = 200 /\ p.execution \notin {"failed", "says_error"}
  <2>1. CASE s # 200
    BY <1>1, <2>1 DEF decision_result
  <2>2. CASE s = 200 /\ p.execution = "failed"
    BY <1>1, <2>2, Nothing DEF decision_result
  <2>3. CASE s = 200 /\ p.execution = "says_error"
    BY <1>1, <2>3, Nothing DEF decision_result
  <2> QED BY <2>1, <2>2, <2>3
<1>8. decision_result(r).says \in {"denied", "needs approval"} => s # 200 /\ s # 500
  BY <1>1 DEF decision_result
<1>9. HttpRan(r) => p.execution \in {"succeeded", "says_error"}
  BY <1>4, Nothing DEF HttpRan
<1>10. McpNo(r) => s # 200 /\ s # 500
  BY <1>8 DEF McpNo
<1>11. McpOk(r) => s = 200 /\ p.execution \notin {"failed", "says_error"}
  BY <1>7, Zenon DEF McpOk
<1> QED BY <1>1, <1>2, <1>6, <1>9, <1>10, <1>11

(* What the SDK reads in it, where it does not raise.                      *)
LEMMA PlainReads ==
    ASSUME NEW p \in Payload, p.decision \in Decisions, NEW s \in Nat,
           NEW r, r = [status |-> s, body |-> Plain(p)]
    PROVE  /\ r.status = s /\ Outcome(r).decision = p.decision
           /\ p.decision # "allow" => Outcome(r).reason_of = p.decision_id
           /\ p.approval_id # None => Outcome(r).approval_id = p.approval_id
           /\ p.execution # None => Outcome(r).execution = p.execution
<1>1. r.status = s /\ r.body.whole = p
  BY DEF Plain
<1>2. p.decision # None
  BY Nothing
<1> QED BY <1>1, <1>2 DEF Outcome, FirstOf

(* What a response on two stages says.                                     *)
LEMMA StagesSay ==
    ASSUME NEW p \in Payload, NEW q \in Payload, NEW where \in {None, "sender", "recipient"},
           NEW s \in Nat, NEW r, r = [status |-> s, body |-> TwoStages(p, q, where)]
    PROVE  /\ r.status = s /\ r.body \in Body
           /\ decision_result(r).approval_id = p.approval_id
           /\ HttpRan(r) => q.execution \in {"succeeded", "says_error"}
           /\ McpOk(r) => s = 200 /\ (q # NoPayload => q.execution \notin {"failed", "says_error"})
           /\ McpNo(r) => s # 200 /\ s # 500
<1>1. /\ r.status = s /\ r.body.whole = NoPayload /\ r.body.action = q
      /\ r.body.delegation = p /\ r.body.blocked_at = where
  BY DEF TwoStages
<1>2. r.body \in Body
  BY Payloads DEF TwoStages, Body
<1>3. NoPayload.execution = None /\ NoPayload.approval_id = None
  BY DEF NoPayload
<1>4. Outcome(r).execution = q.execution
  <2>1. r.body.names_action = FALSE
    BY DEF TwoStages
  <2> QED BY <1>1, <1>3, <2>1 DEF Outcome, FirstOf
<1>6. decision_result(r).approval_id = p.approval_id
  BY <1>1, <1>3 DEF decision_result, FirstOf
<1>7. decision_result(r).isError = TRUE \/ s = 200
  BY <1>1 DEF decision_result
<1>8. \/ decision_result(r).isError = TRUE
      \/ q # NoPayload => q.execution \notin {"failed", "says_error"}
  <2>1. CASE s = 200 /\ q.execution = "failed"
    BY <1>1, <2>1, Nothing DEF decision_result
  <2>2. CASE s = 200 /\ q.execution = "says_error"
    BY <1>1, <2>2, Nothing DEF decision_result
  <2> QED BY <1>7, <2>1, <2>2
<1>9. decision_result(r).says \in {"denied", "needs approval"} => s # 200 /\ s # 500
  BY <1>1 DEF decision_result
<1>10. HttpRan(r) => q.execution \in {"succeeded", "says_error"}
  BY <1>4 DEF HttpRan
<1>11. McpNo(r) => s # 200 /\ s # 500
  BY <1>9 DEF McpNo
<1>12. McpOk(r) => s = 200 /\ (q # NoPayload => q.execution \notin {"failed", "says_error"})
  BY <1>7, <1>8, Zenon DEF McpOk
<1> QED BY <1>1, <1>2, <1>6, <1>10, <1>11, <1>12

(* What the SDK reads in it.                                               *)
LEMMA StagesRead ==
    ASSUME NEW p, NEW q, NEW where, NEW s \in Nat,
           NEW r, r = [status |-> s, body |-> TwoStages(p, q, where)]
    PROVE  /\ r.status = s
           /\ Outcome(r).decision = FirstOf(q.decision, p.decision)
           /\ q.decision \notin {None, "allow"} => Outcome(r).reason_of = q.decision_id
           /\ q.decision \in {None, "allow"} /\ p.decision \notin {None, "allow"} =>
                 Outcome(r).reason_of = p.decision_id
           /\ Outcome(r).approval_id = FirstOf(p.approval_id, q.approval_id)
           /\ Outcome(r).execution = q.execution
<1>1. /\ r.status = s /\ r.body.whole = NoPayload /\ r.body.action = q
      /\ r.body.delegation = p /\ r.body.names_action = FALSE
  BY DEF TwoStages
<1>2. /\ NoPayload.execution = None /\ NoPayload.approval_id = None
      /\ NoPayload.decision = None /\ NoPayload.decision_id = None
  BY DEF NoPayload
<1>3. Outcome(r).decision = FirstOf(q.decision, p.decision)
  BY <1>1, <1>2 DEF Outcome, FirstOf
<1>4. Outcome(r).reason_of = IF q.decision \notin {None, "allow"} THEN q.decision_id
                             ELSE IF p.decision \notin {None, "allow"} THEN p.decision_id ELSE None
  BY <1>1, <1>2 DEF Outcome
<1>5. Outcome(r).approval_id = FirstOf(p.approval_id, q.approval_id)
  BY <1>1, <1>2 DEF Outcome, FirstOf
<1>6. Outcome(r).execution = q.execution
  BY <1>1, <1>2 DEF Outcome, FirstOf
<1> QED BY <1>1, <1>3, <1>4, <1>5, <1>6

(* Whether a decision's tool takes effect if execute ends as x.            *)
Effective(d, x) == d.decision = "allow" /\ TookEffect(x)

(* A 500 says nothing of what ran.                                         *)
LEMMA ServerErrorSays ==
    ASSUME NEW kind, NEW single, NEW last, NEW effect, NEW d
    PROVE  /\ Says(ServerError, kind, single, last, effect)
           /\ Reads(ServerError, kind, last, d)
           /\ ServerError.body \in Body /\ ServerError.status = 500
<1>1. NoPayload \in Payload /\ NoPayload.execution = None
  BY Payloads DEF NoPayload
<1>2. PICK s \in Nat : s = 500
  OBVIOUS
<1>3. ServerError = [status |-> s, body |-> Plain(NoPayload)]
  BY <1>2 DEF ServerError
<1>4. /\ HttpRan(ServerError) => NoPayload.execution \in {"succeeded", "says_error"}
      /\ ServerError.status = s /\ ServerError.body \in Body
      /\ McpOk(ServerError) => s = 200
      /\ McpNo(ServerError) => s # 500
  BY <1>1, <1>3, PlainSays
<1>5. s # 202 /\ s # 200 /\ s \notin {202, 403, 502}
  BY <1>2
<1>6. ~HttpRan(ServerError) /\ ~McpOk(ServerError) /\ ~McpNo(ServerError)
  BY <1>1, <1>2, <1>4, <1>5, Nothing
<1>7. ServerError.status \notin {202, 403, 502} /\ ServerError.status # 202
  BY <1>4, <1>5
<1>8. Says(ServerError, kind, single, last, effect)
  BY <1>6, <1>7, Zenon DEF Says
<1>9. Reads(ServerError, kind, last, d)
  BY <1>2, <1>4 DEF Reads
<1> QED BY <1>2, <1>4, <1>8, <1>9

(* The payload and status of one decision, as respond makes them.          *)
LEMMA PayloadTells ==
    ASSUME NEW id \in Nat, NEW d \in Decision, NEW x \in Executions,
           NEW r, r = respond_payload(to_dict(id, d), x)
    PROVE  /\ r.payload \in Payload /\ r.payload # NoPayload /\ r.payload.decision_id = id
           /\ r.status \in {200, 202, 403, 502}
           /\ r.payload.execution \in {"succeeded", "says_error"} => Effective(d, x)
           /\ r.payload.execution \in {None, "refused"} => ~Effective(d, x)
           /\ r.status = 200 <=> d.decision = "allow" /\ x # "refused"
           /\ r.status = 202 <=> d.decision = "escalate"
           /\ r.status = 200 /\ r.payload.execution \notin {"failed", "says_error"} => Effective(d, x)
           /\ r.status = 202 => r.payload.approval_id = id
           /\ r.payload.decision = d.decision /\ (r.status = 403 <=> d.decision = "deny")
           /\ r.status = 200 => r.payload.execution # None
<1>1. /\ to_dict(id, d).decision = d.decision /\ to_dict(id, d).execution = None
      /\ to_dict(id, d).decision_id = id
      /\ d.decision = "escalate" => to_dict(id, d).approval_id = id
      /\ to_dict(id, d) \in Payload /\ to_dict(id, d) # NoPayload
      /\ d.decision \in Decisions
  BY Payloads DEF to_dict, Decision
<1>2. CASE d.decision = "escalate"
  <2>1. r.status = 202 /\ r.payload = to_dict(id, d)
    BY <1>1, <1>2 DEF respond_payload
  <2> QED BY <1>1, <1>2, <2>1, Nothing DEF Effective
<1>3. CASE d.decision = "deny"
  <2>1. r.status = 403 /\ r.payload = to_dict(id, d)
    BY <1>1, <1>3 DEF respond_payload
  <2> QED BY <1>1, <1>3, <2>1, Nothing DEF Effective
<1>4. CASE d.decision = "allow"
  <2>1. /\ r.status = IF x = "refused" THEN 502 ELSE 200
        /\ r.payload = [to_dict(id, d) EXCEPT !.execution = Reported(x)]
    BY <1>1, <1>4 DEF respond_payload
  <2>2. Reported(x) = IF x = "failed_late" THEN "failed" ELSE x
    BY DEF Reported
  <2>3. /\ r.payload \in Payload /\ r.payload.execution = Reported(x)
        /\ r.payload.decision = "allow" /\ r.payload.decision_id = id
    BY <1>1, <1>4, <2>1, <2>2 DEF Payload, Executions
  <2>4. r.payload # NoPayload
    BY <2>3, Nothing DEF NoPayload, Decisions
  <2> QED BY <1>4, <2>1, <2>2, <2>3, <2>4, Nothing DEF Effective, TookEffect, Executions
<1> QED BY <1>1, <1>2, <1>3, <1>4 DEF Decisions
(* What respond tells of a decision is true of it.                         *)
LEMMA ActionSays ==
    ASSUME NEW id \in Nat, NEW d \in Decision, NEW x \in Executions, NEW kind, NEW single,
           NEW r, r = respond(to_dict(id, d), x)
    PROVE  /\ Says(r, kind, single, id, Effective(d, x)) /\ r.body \in Body
           /\ Reads(r, kind, id, d)
           /\ r.body.action = NoPayload
           /\ r.body.whole = respond_payload(to_dict(id, d), x).payload
<1>1. PICK q : q = respond_payload(to_dict(id, d), x)
  OBVIOUS
<1>2. /\ q.payload \in Payload /\ q.payload.decision = d.decision /\ q.payload.decision_id = id
      /\ q.status \in {200, 202, 403, 502}
      /\ q.payload.execution \in {"succeeded", "says_error"} => Effective(d, x)
      /\ q.status = 200 <=> d.decision = "allow" /\ x # "refused"
      /\ q.status = 202 <=> d.decision = "escalate"
      /\ q.status = 403 <=> d.decision = "deny"
      /\ q.status = 200 => q.payload.execution # None
      /\ q.status = 200 /\ q.payload.execution \notin {"failed", "says_error"} => Effective(d, x)
      /\ q.status = 202 => q.payload.approval_id = id
  <2>1. /\ q.payload \in Payload
        /\ q.status \in {200, 202, 403, 502}
        /\ q.payload.execution \in {"succeeded", "says_error"} => Effective(d, x)
        /\ q.status = 200 <=> d.decision = "allow" /\ x # "refused"
        /\ q.status = 202 <=> d.decision = "escalate"
        /\ q.status = 200 /\ q.payload.execution \notin {"failed", "says_error"} => Effective(d, x)
        /\ q.status = 202 => q.payload.approval_id = id
    BY <1>1, PayloadTells
  <2>2. /\ q.payload.decision = d.decision /\ q.payload.decision_id = id
        /\ q.status = 403 <=> d.decision = "deny"
        /\ q.status = 200 => q.payload.execution # None
    BY <1>1, PayloadTells
  <2> QED BY <2>1, <2>2
<1>3. r = [status |-> q.status, body |-> Plain(q.payload)] /\ q.status \in Nat
  BY <1>1, <1>2 DEF respond
<1>4. /\ r.status = q.status /\ r.body \in Body
      /\ decision_result(r).approval_id = q.payload.approval_id
      /\ HttpRan(r) => q.payload.execution \in {"succeeded", "says_error"}
      /\ McpOk(r) => q.status = 200 /\ q.payload.execution \notin {"failed", "says_error"}
      /\ McpNo(r) => q.status # 200 /\ q.status # 500
  BY <1>2, <1>3, PlainSays
<1>5. q.status # 200 => ~Effective(d, x)
  BY <1>2 DEF Effective, TookEffect
<1>6. /\ HttpRan(r) => Effective(d, x)
      /\ McpOk(r) => Effective(d, x)
      /\ r.status \in {202, 403, 502} => ~Effective(d, x)
      /\ McpNo(r) => ~Effective(d, x)
      /\ r.status = 202 => decision_result(r).approval_id = id
  BY <1>2, <1>4, <1>5
<1>7. Says(r, kind, single, id, Effective(d, x))
  BY <1>6, Zenon DEF Says
<1>8. r.body.action = NoPayload /\ r.body.whole = q.payload
  BY <1>3 DEF Plain
<1>9. Reads(r, kind, id, d)
  <2>1. d.decision \in Decisions
    BY DEF Decision
  <2>2. /\ r.status = q.status /\ Outcome(r).decision = q.payload.decision
        /\ q.payload.decision # "allow" => Outcome(r).reason_of = q.payload.decision_id
        /\ q.payload.approval_id # None => Outcome(r).approval_id = q.payload.approval_id
        /\ q.payload.execution # None => Outcome(r).execution = q.payload.execution
    BY <1>2, <1>3, <2>1, PlainReads
  <2>3. q.payload.execution # Raised
    BY <1>2, Nothing DEF Payload
  <2>4. r.status = 202 => Outcome(r).approval_id = id /\ d.decision = "escalate"
    BY <1>2, <2>2, Nothing
  <2>5. r.status \in {202, 403} => Outcome(r).reason_of = id
    BY <1>2, <2>2
  <2>6. r.status = 200 => Outcome(r).execution \notin {None, Raised}
    BY <1>2, <2>2, <2>3
  <2>7. Outcome(r).decision = d.decision
    BY <1>2, <2>2
  <2> QED BY <2>4, <2>5, <2>6, <2>7, Zenon DEF Reads
<1> QED BY <1>1, <1>4, <1>7, <1>8, <1>9

(* So is what handle_message tells.                                        *)
LEMMA MessageSays ==
    ASSUME NEW id \in Nat, NEW d \in Decision, NEW x \in Executions, NEW single,
           NEW r, r = respond_message(to_dict(id, d), x)
    PROVE  /\ Says(r, "message", single, id, Effective(d, x)) /\ r.body \in Body
           /\ Reads(r, "message", id, d)
<1>1. CASE d.decision = "allow" /\ x = "refused"
  <2>1. to_dict(id, d).decision = "allow"
    BY <1>1 DEF to_dict
  <2>2. r = ServerError
    BY <1>1, <2>1 DEF respond_message
  <2> QED BY <2>2, ServerErrorSays
<1>2. CASE ~(d.decision = "allow" /\ x = "refused")
  <2>1. PICK p : p = to_dict(id, d)
    OBVIOUS
  <2>2. /\ p \in Payload /\ p.decision = d.decision /\ p.execution = None /\ d.decision \in Decisions
        /\ p.decision_id = id
        /\ d.decision = "escalate" => p.approval_id = id
    BY <2>1, Payloads DEF to_dict, Decision
  <2>3. PICK s \in {200, 202, 403} :
           /\ r = [status |-> s, body |-> Plain(p)]
           /\ s = 200 <=> d.decision = "allow"
           /\ s = 202 <=> d.decision = "escalate"
    <3>1. CASE d.decision = "escalate"
      BY <2>1, <2>2, <3>1 DEF respond_message
    <3>2. CASE d.decision = "deny"
      BY <2>1, <2>2, <3>2 DEF respond_message
    <3>3. CASE d.decision = "allow"
      BY <1>2, <2>1, <2>2, <3>3 DEF respond_message
    <3> QED BY <2>2, <3>1, <3>2, <3>3 DEF Decisions
  <2>4. /\ r.status = s /\ r.body \in Body
        /\ decision_result(r).approval_id = p.approval_id
        /\ HttpRan(r) => p.execution \in {"succeeded", "says_error"}
        /\ McpNo(r) => s # 200 /\ s # 500
    BY <2>2, <2>3, PlainSays
  <2>5. s # 200 => ~Effective(d, x)
    BY <2>3 DEF Effective
  <2>7. ~HttpRan(r)
    BY <2>2, <2>4, Nothing
  <2>6. /\ r.status \in {202, 403, 502} => ~Effective(d, x)
        /\ McpNo(r) => ~Effective(d, x)
        /\ r.status = 202 => decision_result(r).approval_id = id
    BY <2>2, <2>3, <2>4, <2>5
  <2>8. Says(r, "message", single, id, Effective(d, x))
    BY <2>6, <2>7, Zenon DEF Says
  <2>9. Reads(r, "message", id, d)
    <3>1. /\ r.status = s /\ Outcome(r).decision = p.decision
          /\ p.decision # "allow" => Outcome(r).reason_of = p.decision_id
          /\ p.approval_id # None => Outcome(r).approval_id = p.approval_id
      BY <2>2, <2>3, PlainReads
    <3>2. r.status = 202 => Outcome(r).approval_id = id /\ d.decision = "escalate"
      BY <2>2, <2>3, <3>1, Nothing
    <3>3. r.status \in {202, 403} => Outcome(r).reason_of = id
      BY <2>2, <2>3, <3>1
    <3>4. Outcome(r).decision = d.decision
      BY <2>2, <3>1
    <3> QED BY <3>2, <3>3, <3>4, Zenon DEF Reads
  <2> QED BY <2>4, <2>8, <2>9
<1> QED BY <1>1, <1>2

(* So is what respond_delegation tells of a first stage that stopped it... *)
LEMMA StoppedSays ==
    ASSUME NEW id \in Nat, NEW d \in Decision, d.decision # "allow", NEW x, NEW kind, NEW single,
           NEW effect, ~effect, NEW r, r = respond_delegation(to_dict(id, d), NoPayload, x)
    PROVE  /\ Says(r, kind, single, id, effect) /\ r.body \in Body
           /\ Reads(r, kind, id, d)
<1>1. PICK p : p = to_dict(id, d)
  OBVIOUS
<1>2. /\ p \in Payload /\ p.decision = d.decision /\ p.decision_id = id
      /\ d.decision \in Decisions
      /\ d.decision = "escalate" => p.approval_id = id
  BY <1>1, Payloads DEF to_dict, Decision
<1>3. PICK s \in {202, 403}, where \in {None, "sender", "recipient"} :
         /\ r = [status |-> s, body |-> TwoStages(p, NoPayload, where)]
         /\ s = 202 <=> d.decision = "escalate"
  <2>1. CASE d.decision = "escalate"
    BY <1>1, <1>2, <2>1 DEF respond_delegation
  <2>2. CASE d.decision # "escalate"
    BY <1>1, <1>2, <2>2 DEF respond_delegation
  <2> QED BY <2>1, <2>2
<1>4. /\ NoPayload \in Payload /\ NoPayload.execution = None /\ NoPayload.approval_id = None
      /\ NoPayload.decision = None
  BY Payloads DEF NoPayload
<1>5. /\ r.status = s /\ r.body \in Body
      /\ decision_result(r).approval_id = p.approval_id
      /\ HttpRan(r) => NoPayload.execution \in {"succeeded", "says_error"}
      /\ McpOk(r) => s = 200
  BY <1>2, <1>3, <1>4, StagesSay
<1>6. ~HttpRan(r) /\ ~McpOk(r)
  BY <1>3, <1>4, <1>5, Nothing
<1>7. r.status = 202 => decision_result(r).approval_id = id
  BY <1>2, <1>3, <1>5
<1>8. Says(r, kind, single, id, effect)
  BY <1>6, <1>7, Zenon DEF Says
<1>9. Reads(r, kind, id, d)
  <2>1. /\ r.status = s /\ Outcome(r).decision = FirstOf(NoPayload.decision, p.decision)
        /\ NoPayload.decision \in {None, "allow"} /\ p.decision \notin {None, "allow"} =>
              Outcome(r).reason_of = p.decision_id
        /\ Outcome(r).approval_id = FirstOf(p.approval_id, NoPayload.approval_id)
    BY <1>3, StagesRead
  <2>2. p.decision \notin {None, "allow"}
    BY <1>2, Nothing
  <2>3. Outcome(r).decision = d.decision /\ Outcome(r).reason_of = id
    BY <1>2, <1>4, <2>1, <2>2 DEF FirstOf
  <2>4. Outcome(r).approval_id = p.approval_id
    BY <1>4, <2>1 DEF FirstOf
  <2>5. r.status = 202 => Outcome(r).approval_id = id /\ d.decision = "escalate"
    BY <1>2, <1>3, <2>1, <2>4
  <2>6. r.status # 200
    BY <1>3, <2>1
  <2> QED BY <2>3, <2>5, <2>6, Zenon DEF Reads
<1> QED BY <1>5, <1>8, <1>9

(* ... and of a second stage.                                              *)
LEMMA DelegationSays ==
    ASSUME NEW first \in Payload, NEW id \in Nat, NEW e \in Decision, NEW x \in Executions, NEW kind,
           NEW r, r = respond_delegation(first, to_dict(id, e), x)
    PROVE  /\ Says(r, kind, FALSE, id, Effective(e, x)) /\ r.body \in Body
           /\ first.approval_id = None => Reads(r, kind, id, e)
           /\ r.body.action = respond_payload(to_dict(id, e), x).payload
<1>1. PICK q : q = respond_payload(to_dict(id, e), x)
  OBVIOUS
<1>2. /\ q.payload \in Payload /\ q.payload # NoPayload
      /\ q.payload.decision = e.decision /\ q.payload.decision_id = id
      /\ q.status \in {200, 202, 403, 502}
      /\ q.status = 202 <=> e.decision = "escalate"
      /\ q.status = 403 <=> e.decision = "deny"
      /\ q.status = 202 => q.payload.approval_id = id
      /\ q.status = 200 => q.payload.execution # None
      /\ q.payload.execution \in {"succeeded", "says_error"} => Effective(e, x)
      /\ q.status = 200 <=> e.decision = "allow" /\ x # "refused"
      /\ q.status = 200 /\ q.payload.execution \notin {"failed", "says_error"} => Effective(e, x)
  BY <1>1, PayloadTells
<1>3. PICK where \in {None, "sender", "recipient"} :
         r = [status |-> q.status, body |-> TwoStages(first, q.payload, where)]
  <2>1. to_dict(id, e) # NoPayload
    BY Payloads
  <2> QED BY <1>1, <2>1 DEF respond_delegation
<1>4. q.status \in Nat
  BY <1>2
<1>5. /\ r.status = q.status /\ r.body \in Body
      /\ HttpRan(r) => q.payload.execution \in {"succeeded", "says_error"}
      /\ McpOk(r) => q.status = 200
                      /\ (q.payload # NoPayload => q.payload.execution \notin {"failed", "says_error"})
      /\ McpNo(r) => q.status # 200 /\ q.status # 500
  BY <1>2, <1>3, <1>4, StagesSay
<1>6. q.status # 200 => ~Effective(e, x)
  BY <1>2 DEF Effective, TookEffect
<1>7. /\ HttpRan(r) => Effective(e, x)
      /\ McpOk(r) => Effective(e, x)
      /\ r.status \in {202, 403, 502} => ~Effective(e, x)
      /\ McpNo(r) => ~Effective(e, x)
  BY <1>2, <1>5, <1>6
<1>8. Says(r, kind, FALSE, id, Effective(e, x))
  BY <1>7, Zenon DEF Says
<1>9. r.body.action = q.payload
  BY <1>3 DEF TwoStages
<1>10. ASSUME first.approval_id = None PROVE Reads(r, kind, id, e)
  <2>1. /\ r.status = q.status /\ Outcome(r).decision = FirstOf(q.payload.decision, first.decision)
        /\ q.payload.decision \notin {None, "allow"} => Outcome(r).reason_of = q.payload.decision_id
        /\ Outcome(r).approval_id = FirstOf(first.approval_id, q.payload.approval_id)
        /\ Outcome(r).execution = q.payload.execution
    BY <1>3, <1>4, StagesRead
  <2>2. e.decision \in Decisions /\ e.decision # None
    BY Nothing DEF Decision
  <2>3. Outcome(r).decision = e.decision
    BY <1>2, <2>1, <2>2 DEF FirstOf
  <2>4. r.status \in {202, 403} => Outcome(r).reason_of = id
    BY <1>2, <2>1, <2>2
  <2>5. r.status = 202 => Outcome(r).approval_id = id /\ e.decision = "escalate"
    BY <1>2, <1>10, <2>1 DEF FirstOf
  <2>6. q.payload.execution # Raised
    BY <1>2, Nothing DEF Payload
  <2>7. r.status = 200 => Outcome(r).execution \notin {None, Raised}
    BY <1>2, <2>1, <2>6
  <2> QED BY <2>3, <2>4, <2>5, <2>7, Zenon DEF Reads
<1> QED BY <1>1, <1>5, <1>8, <1>9, <1>10
----------------------------------------------------------------------------
(* Steps                                                                   *)

(* A step that touches approval id only, or none of them if id is 0:       *)
(* decisions are added, on id or Rooted; what runs is new or was decided   *)
(* on id; new approvals are pending.                                       *)
StepOn(id) ==
    /\ id \in DOMAIN approvals \cup {0}
    /\ Types /\ Types'
    /\ \A i \in DOMAIN decisions : i \in DOMAIN decisions' /\ decisions'[i] = decisions[i]
    /\ \A i \in DOMAIN decisions' \ DOMAIN decisions : decisions'[i].parent = id \/ Rooted(i)'
    /\ ran \subseteq ran'
    /\ \A i \in ran' \ ran : i \in DOMAIN decisions => decisions[i].parent = id /\ ~Rooted(i)
    /\ \A i \in DOMAIN approvals \ {id} : approvals'[i] = approvals[i]
    /\ \A i \in DOMAIN approvals' \ DOMAIN approvals : approvals'[i] = Pending

(* A decision stays Rooted or not.                                         *)
LEMMA RootsStay ==
    ASSUME NEW id, StepOn(id), NEW i \in DOMAIN decisions
    PROVE  Rooted(i)' <=> Rooted(i)
<1>1. /\ decisions'[i] = decisions[i]
      /\ decisions[i].parent = 0 \/ decisions[i].parent \in DOMAIN decisions
  BY DEF StepOn, Types
<1>2. CASE decisions[i].parent = 0
  BY <1>1, <1>2 DEF Rooted
<1>3. CASE decisions[i].parent \in DOMAIN decisions
  <2>1. /\ decisions[i].parent \in DOMAIN decisions'
        /\ decisions'[decisions[i].parent] = decisions[decisions[i].parent]
    BY <1>3 DEF StepOn
  <2> QED BY <1>1, <1>3, <2>1 DEF Rooted
<1> QED BY <1>1, <1>2, <1>3

(* What ran of the Rooted decisions does not change.                       *)
LEMMA RanStays ==
    ASSUME NEW id, StepOn(id), NEW i \in DOMAIN decisions, Rooted(i) \/ decisions[i].parent # id
    PROVE  i \in ran' <=> i \in ran
BY DEF StepOn

(* What was told stays true.                                               *)
LEMMA ToldStays ==
    ASSUME NEW id, StepOn(id), NEW r, Told(r)
    PROVE  Told(r)'
<1>1. /\ r.last \in DOMAIN decisions /\ Rooted(r.last)
      /\ r.response.body \in Body
      /\ Says(r.response, r.kind, r.first = r.last, r.last, r.last \in ran)
      /\ Reads(r.response, r.kind, r.last, decisions[r.last])
      /\ r.first = r.last => decisions[r.last].agent = r.agent
  BY DEF Told
<1>2. r.last \in DOMAIN decisions' /\ decisions'[r.last] = decisions[r.last]
  BY <1>1 DEF StepOn
<1>3. Rooted(r.last)'
  BY <1>1, RootsStay
<1>4. r.last \in ran' <=> r.last \in ran
  BY <1>1, RanStays
<1>5. Says(r.response, r.kind, r.first = r.last, r.last, r.last \in ran')
  BY <1>1, <1>4 DEF Says
<1> QED BY <1>1, <1>2, <1>3, <1>5 DEF Told

(* A result stays true.                                                    *)
LEMMA TruthStays ==
    ASSUME NEW id, StepOn(id), NEW other \in DOMAIN approvals, other # id,
           NEW b \in Body, Truthful(other, b)
    PROVE  Truthful(other, b)'
<1>1. PICK f : f = Final(b)
  OBVIOUS
<1>2. /\ f.decision_id \in DOMAIN decisions
      /\ decisions[f.decision_id].parent = other \/ Rooted(f.decision_id)
      /\ f.execution \in {"succeeded", "says_error"} => f.decision_id \in ran
      /\ f.execution \in {None, "refused"} => f.decision_id \notin ran
  BY <1>1 DEF Truthful
<1>3. /\ f.decision_id \in DOMAIN decisions'
      /\ decisions'[f.decision_id] = decisions[f.decision_id]
  BY <1>2 DEF StepOn
<1>4. Rooted(f.decision_id)' <=> Rooted(f.decision_id)
  BY <1>2, RootsStay
<1>5. f.decision_id \in ran' <=> f.decision_id \in ran
  BY <1>2, RanStays
<1> QED BY <1>1, <1>2, <1>3, <1>4, <1>5 DEF Truthful

(* The decisions on another escalation are the same.                       *)
LEMMA ChildrenStay ==
    ASSUME NEW id, StepOn(id), NEW other \in DOMAIN approvals', other # id,
           NEW i \in DOMAIN decisions', decisions'[i].parent = other
    PROVE  i \in DOMAIN decisions /\ decisions'[i] = decisions[i] /\ other \in DOMAIN decisions
<1>1. i \in DOMAIN decisions
  <2>1. SUFFICES ASSUME i \notin DOMAIN decisions PROVE FALSE
    OBVIOUS
  <2>2. Rooted(i)' /\ Types'
    BY <2>1 DEF StepOn
  <2>3. 0 \notin DOMAIN decisions' /\ other \in DOMAIN decisions'
    BY <2>2 DEF Types
  <2>4. other # 0 /\ decisions'[other].decision = "allow"
    BY <2>2, <2>3 DEF Rooted
  <2> QED BY <2>2, <2>4 DEF Types
<1>2. decisions'[i] = decisions[i]
  BY <1>1 DEF StepOn
<1>3. other \in DOMAIN decisions' /\ 0 \notin DOMAIN decisions'
  BY DEF StepOn, Types
<1> QED BY <1>1, <1>2, <1>3 DEF StepOn, Types
(* What is kept of another escalation keeps its status.                    *)
LEMMA StatusStays ==
    ASSUME NEW id, StepOn(id), Statuses, NEW other \in DOMAIN approvals', other # id
    PROVE  Status(other)'
<1>1. CASE other \in DOMAIN approvals
  <2>1. approvals'[other] = approvals[other] /\ approvals[other] \in Record
    BY <1>1 DEF StepOn, Types
  <2>2. Status(other)
    BY <1>1 DEF Statuses
  <2>3. approvals[other].status = "pending" => Childless(other)'
    <3>1. SUFFICES ASSUME Childless(other), NEW i \in DOMAIN decisions', decisions'[i].parent = other
                   PROVE  FALSE
      BY <2>2 DEF Status, Childless
    <3>2. i \in DOMAIN decisions /\ decisions'[i] = decisions[i]
      BY <3>1, ChildrenStay
    <3> QED BY <3>1, <3>2 DEF Childless
  <2>4. approvals[other].verdict \in {"rejected", "superseded"} =>
           \A i \in DOMAIN decisions' : decisions'[i].parent = other => decisions'[i].decision = "deny"
    BY <2>2, ChildrenStay DEF Status
  <2>5. approvals[other].result # None => Truthful(other, approvals[other].result)'
    BY <1>1, <2>1, <2>2, TruthStays DEF Status, Record
  <2> QED BY <2>1, <2>2, <2>3, <2>4, <2>5 DEF Status
<1>2. CASE other \notin DOMAIN approvals
  <2>1. approvals'[other] = Pending /\ other \notin DOMAIN decisions
    <3>1. approvals'[other] = Pending
      BY <1>2 DEF StepOn
    <3>2. other \in DOMAIN decisions => decisions'[other] = decisions[other]
      BY DEF StepOn
    <3>3. decisions'[other].decision = "escalate"
      BY DEF StepOn, Types
    <3> QED BY <1>2, <3>1, <3>2, <3>3 DEF StepOn, Types
  <2>2. Childless(other)'
    BY <2>1, ChildrenStay DEF Childless
  <2>3. Pending.verdict = None /\ Pending.result = None
    BY DEF Pending
  <2>4. None \notin {"rejected", "superseded"}
    BY Nothing DEF Verdicts
  <2> QED BY <2>1, <2>2, <2>3, <2>4 DEF Status
<1> QED BY <1>1, <1>2

(* A thread that works on another escalation goes on.                      *)
LEMMA WorkingStays ==
    ASSUME NEW id, StepOn(id), NEW t \in Threads, thread'[t] = thread[t], thread[t].id # id, Working(t)
    PROVE  Working(t)'
<1>1. PICK w : w = thread[t]
  OBVIOUS
<1>2. w.id \in DOMAIN approvals /\ w.id \in DOMAIN approvals' /\ approvals'[w.id] = approvals[w.id]
  <2>1. w.id \in DOMAIN approvals
    BY <1>1 DEF Working
  <2> QED BY <1>1, <2>1 DEF StepOn, Types
<1>3. \A i \in DOMAIN decisions' : decisions'[i].parent = w.id =>
         i \in DOMAIN decisions /\ decisions'[i] = decisions[i]
  BY <1>1, <1>2, ChildrenStay
<1>4. w.at = "reject" => Childless(w.id)'
  BY <1>1, <1>3 DEF Working, Childless
<1>5. w.at # "reject" =>
         /\ w.made \in DOMAIN decisions /\ w.made \in DOMAIN decisions'
         /\ decisions'[w.made] = decisions[w.made] /\ decisions[w.made].parent = w.id
         /\ \A i \in DOMAIN decisions' : decisions'[i].parent = w.id <=> i = w.made
  BY <1>1, <1>3 DEF Working, StepOn
<1>6. w.at # "reject" => (w.made \in ran' <=> w.made \in ran)
  BY <1>1, <1>5, RanStays
<1>7. w.at = "annotate" => w.body \in Body /\ Truthful(w.id, w.body)'
  BY <1>1, <1>2, TruthStays DEF Working
<1> QED BY <1>1, <1>2, <1>4, <1>5, <1>6, <1>7 DEF Working

(* A step on one escalation keeps the invariant if it keeps it there, of   *)
(* the one thread at work on it and of what is told now.                   *)
LEMMA StepKeeps ==
    ASSUME NEW id, StepOn(id), IInv,
           id = 0 \/ Status(id)',
           \A u \in Threads : thread'[u].at # "idle" =>
              (thread'[u] = thread[u] /\ thread[u].id # id) \/ (thread'[u].id = id /\ Working(u)'),
           \A t, u \in Threads : thread'[t].id = id /\ thread'[u].id = id
              /\ thread'[t].at # "idle" /\ thread'[u].at # "idle" => t = u,
           \A r \in replies' : r \in replies \/ Told(r)'
    PROVE  IInv'
<1>1. Types' /\ Types
  BY DEF StepOn
<1>2. \A i \in DOMAIN approvals' : Status(i)'
  <2>1. 0 \notin DOMAIN approvals'
    BY <1>1 DEF Types
  <2> QED BY <2>1, StatusStays DEF IInv
<1>3. \A r \in replies' : Told(r)'
  BY ToldStays DEF IInv, Replies
<1>4. \A u \in Threads : thread'[u].at # "idle" => Working(u)'
  BY WorkingStays DEF IInv, Workers
<1>5. \A t, u \in Threads :
         thread'[t].at # "idle" /\ thread'[u].at # "idle" /\ thread'[t].id = thread'[u].id => t = u
  BY DEF IInv, Workers
<1>6. Workers'
  BY <1>4, <1>5 DEF Workers
<1> QED BY <1>1, <1>2, <1>3, <1>6 DEF IInv, Statuses, Replies
(* Decisions are added at the end, with an approval record for those that  *)
(* escalate.                                                               *)
LEMMA Deciding ==
    ASSUME Types, NEW new \in Seq(Decision), Decide(new)
    PROVE  /\ decisions' \in Seq(Decision) /\ Len(decisions') = Len(decisions) + Len(new)
           /\ \A i \in DOMAIN decisions : i \in DOMAIN decisions' /\ decisions'[i] = decisions[i]
           /\ \A j \in 1 .. Len(new) : decisions'[Len(decisions) + j] = new[j]
           /\ \A i \in DOMAIN decisions' \ DOMAIN decisions :
                 \E j \in 1 .. Len(new) : i = Len(decisions) + j
           /\ DOMAIN approvals' = {i \in DOMAIN decisions' : decisions'[i].decision = "escalate"}
           /\ approvals' \in [DOMAIN approvals' -> Record]
           /\ \A i \in DOMAIN approvals : approvals'[i] = approvals[i]
           /\ \A i \in DOMAIN approvals' \ DOMAIN approvals : approvals'[i] = Pending
<1>0. decisions \in Seq(Decision) /\ decisions' = decisions \o new
  BY DEF Types, Decide
<1>1. decisions' \in Seq(Decision) /\ Len(decisions') = Len(decisions) + Len(new)
  BY <1>0
<1>2. \A i \in DOMAIN decisions : i \in DOMAIN decisions' /\ decisions'[i] = decisions[i]
  BY <1>0
<1>3. \A j \in 1 .. Len(new) : decisions'[Len(decisions) + j] = new[j]
  BY <1>0
<1>4. ASSUME NEW i \in DOMAIN decisions' \ DOMAIN decisions
      PROVE  \E j \in 1 .. Len(new) : i = Len(decisions) + j
  <2>1. i - Len(decisions) \in 1 .. Len(new) /\ i = Len(decisions) + (i - Len(decisions))
    BY <1>0, <1>1, <1>4
  <2> QED BY <2>1
<1>5. PICK ids : ids = {i \in DOMAIN decisions' : decisions'[i].decision = "escalate"}
  OBVIOUS
<1>6. approvals' = [i \in DOMAIN approvals \cup ids |->
                      IF i \in DOMAIN approvals THEN approvals[i] ELSE Pending]
  BY <1>5 DEF Decide, PutApprovals
<1>7. DOMAIN approvals \subseteq ids
  BY <1>2, <1>5 DEF Types
<1>8. DOMAIN approvals' = ids
  BY <1>6, <1>7
<1>9. Pending \in Record
  BY DEF Pending, Record
<1>10. \A i \in ids : approvals'[i] \in Record
  BY <1>6, <1>7, <1>9 DEF Types
<1>11. approvals' \in [ids -> Record]
  BY <1>6, <1>8, <1>10
<1> QED BY <1>1, <1>2, <1>3, <1>4, <1>5, <1>6, <1>7, <1>8, <1>11

(* A step that decides so, and runs at most one of the new decisions.      *)
LEMMA DecidingSteps ==
    ASSUME Types, NEW id \in DOMAIN approvals \cup {0}, NEW new \in Seq(Decision), Decide(new),
           \A i \in DOMAIN decisions' \ DOMAIN decisions :
              /\ Rooted(i)'
              /\ decisions'[i].parent \in DOMAIN decisions' \cup {0},
           ran' = ran \/ \E i \in DOMAIN decisions' \ DOMAIN decisions :
                            decisions'[i].decision = "allow" /\ ran' = ran \cup {i},
           thread' \in [Threads -> Thread], abandoned' = abandoned
    PROVE  StepOn(id)
<1>1. /\ decisions' \in Seq(Decision)
      /\ \A i \in DOMAIN decisions : i \in DOMAIN decisions' /\ decisions'[i] = decisions[i]
      /\ DOMAIN approvals' = {i \in DOMAIN decisions' : decisions'[i].decision = "escalate"}
      /\ approvals' \in [DOMAIN approvals' -> Record]
      /\ \A i \in DOMAIN approvals : approvals'[i] = approvals[i]
      /\ \A i \in DOMAIN approvals' \ DOMAIN approvals : approvals'[i] = Pending
  BY Deciding
<1>2. ran \subseteq ran' /\ \A i \in ran' \ ran : i \notin DOMAIN decisions /\ i \in DOMAIN decisions'
                                                  /\ decisions'[i].decision = "allow"
  OBVIOUS
<1>3. \A i \in DOMAIN decisions' : decisions'[i].parent \in DOMAIN decisions' \cup {0}
  BY <1>1 DEF Types
<1>4. ran' \subseteq DOMAIN decisions' /\ \A i \in ran' : decisions'[i].decision = "allow"
  BY <1>1, <1>2 DEF Types
<1>5. abandoned' \subseteq DOMAIN approvals'
  BY <1>1 DEF Types
<1>6. Types'
  BY <1>1, <1>3, <1>4, <1>5 DEF Types
<1> QED BY <1>1, <1>2, <1>6 DEF StepOn

(* One decision on a request.                                              *)
LEMMA OneDecision ==
    ASSUME Types, NEW d \in Decision,
           \/ d.parent = 0
           \/ d.parent \in DOMAIN decisions /\ decisions[d.parent].decision = "allow",
           NEW id \in DOMAIN approvals \cup {0}, Decide(<<d>>),
           NEW n, n = Next_id, NEW x, Effect(n, d.decision, x) \/ UNCHANGED ran,
           thread' \in [Threads -> Thread], abandoned' = abandoned
    PROVE  /\ StepOn(id)
           /\ n \in Nat /\ n \in DOMAIN decisions' /\ decisions'[n] = d
           /\ n \notin ran /\ n \notin DOMAIN decisions /\ Rooted(n)'
           /\ Effect(n, d.decision, x) => (n \in ran' <=> Effective(d, x))
<1>1. n \in Nat /\ n >= 1 /\ n = Next_id
  <2>1. Len(decisions) \in Nat
    BY DEF Types
  <2> QED BY <2>1 DEF Next_id
<1>2. /\ DOMAIN decisions = 1 .. (n - 1) /\ DOMAIN decisions' = 1 .. n /\ decisions'[n] = d
      /\ \A i \in DOMAIN decisions : decisions'[i] = decisions[i]
  <2>1. <<d>> \in Seq(Decision) /\ Len(<<d>>) = 1 /\ <<d>>[1] = d
    OBVIOUS
  <2>2. /\ decisions' \in Seq(Decision) /\ Len(decisions') = Len(decisions) + Len(<<d>>)
        /\ \A i \in DOMAIN decisions : decisions'[i] = decisions[i]
        /\ \A j \in 1 .. Len(<<d>>) : decisions'[Len(decisions) + j] = <<d>>[j]
    BY <2>1, Deciding
  <2>3. Len(decisions') = n /\ Len(decisions) = n - 1 /\ decisions'[n] = d
    BY <1>1, <2>1, <2>2 DEF Next_id, Types
  <2> QED BY <2>2, <2>3 DEF Types
<1>3. n \in DOMAIN decisions' /\ n \notin DOMAIN decisions /\ n # 0
      /\ \A i \in DOMAIN decisions' \ DOMAIN decisions : i = n
  BY <1>1, <1>2
<1>4. Rooted(n)' /\ d.parent \in DOMAIN decisions' \cup {0}
  <2>1. CASE d.parent = 0
    BY <1>2, <2>1 DEF Rooted
  <2>2. CASE d.parent \in DOMAIN decisions /\ decisions[d.parent].decision = "allow"
    <3>1. d.parent \in DOMAIN decisions' /\ decisions'[d.parent] = decisions[d.parent]
      BY <1>1, <1>2, <2>2
    <3> QED BY <1>2, <2>2, <3>1 DEF Rooted
  <2> QED BY <2>1, <2>2
<1>5. n \notin ran
  BY <1>3 DEF Types
<1>6. ran' = ran \/ (d.decision = "allow" /\ ran' = ran \cup {n})
  BY <1>1 DEF Effect
<1>7. <<d>> \in Seq(Decision)
  OBVIOUS
<1>8. StepOn(id)
  BY <1>2, <1>3, <1>4, <1>6, <1>7, DecidingSteps
<1>9. Effect(n, d.decision, x) => (n \in ran' <=> Effective(d, x))
  BY <1>5 DEF Effect, Effective
<1> QED BY <1>1, <1>2, <1>3, <1>4, <1>5, <1>8, <1>9
(* A response, or a 500 in its place, is told truthfully.                  *)
LEMMA Telling ==
    ASSUME IInv, StepOn(0), UNCHANGED thread, NEW a, NEW kind, NEW first, NEW last, NEW response,
           NEW fails \in BOOLEAN, Tell(a, kind, first, last, response, fails),
           last \in DOMAIN decisions', Rooted(last)', response.body \in Body,
           Says(response, kind, first = last, last, last \in ran'),
           Reads(response, kind, last, decisions'[last]), first = last => decisions'[last].agent = a
    PROVE  IInv'
<1>1. PICK said : said = IF fails THEN ServerError ELSE response
  OBVIOUS
<1>2. PICK r : r = [agent |-> a, kind |-> kind, first |-> first, last |-> last, response |-> said]
  OBVIOUS
<1>3. replies' = replies \cup {r}
  BY <1>1, <1>2 DEF Tell
<1>4. /\ Says(said, kind, first = last, last, last \in ran') /\ said.body \in Body
      /\ Reads(said, kind, last, decisions'[last])
  <2>1. CASE fails = TRUE
    <3>1. said = ServerError
      BY <1>1, <2>1
    <3>2. /\ Says(ServerError, kind, first = last, last, last \in ran') /\ ServerError.body \in Body
          /\ Reads(ServerError, kind, last, decisions'[last])
      <4>1. PICK single, effect, d : single = (first = last) /\ effect = (last \in ran')
                                       /\ d = decisions'[last]
        OBVIOUS
      <4>2. Says(ServerError, kind, single, last, effect) /\ Reads(ServerError, kind, last, d)
        BY ServerErrorSays
      <4> QED BY <4>1, <4>2, ServerErrorSays, Zenon
    <3> QED BY <3>1, <3>2
  <2>2. CASE fails = FALSE
    BY <1>1, <2>2
  <2> QED BY <2>1, <2>2
<1>5. Told(r)'
  BY <1>2, <1>4 DEF Told
<1>6. \A u \in Threads : thread[u].at # "idle" => thread[u].id # 0
  BY DEF IInv, Workers, Working, Types
<1>7. thread' = thread
  OBVIOUS
<1> QED BY <1>3, <1>5, <1>6, <1>7, StepKeeps

(* What Judged makes is a decision.                                        *)
LEMMA JudgedIs ==
    ASSUME NEW a \in Agents, NEW kind \in Kinds, NEW d \in Decisions, NEW parent \in Nat,
           NEW j, j = Judged(a, kind, d, parent)
    PROVE  j \in Decision /\ j.agent = a /\ j.kind = kind /\ j.decision = d /\ j.parent = parent
BY DEF Judged, Decision

(* HandleAction keeps the invariant.                                       *)
LEMMA ActionKeeps ==
    ASSUME IInv, NEW a \in Agents, HandleAction(a)
    PROVE  IInv'
<1>1. PICK d \in Decisions, x \in Executions, fails \in BOOLEAN :
         /\ Decide(<<Judged(a, "action", d, 0)>>)
         /\ Effect(Next_id, d, x)
         /\ Tell(a, "action", Next_id, Next_id, respond(to_dict(Next_id, decisions'[Next_id]), x), fails)
         /\ UNCHANGED <<thread, abandoned>>
  BY DEF HandleAction
<1>2. PICK j : j = Judged(a, "action", d, 0)
  OBVIOUS
<1>3. j \in Decision /\ j.agent = a /\ j.decision = d /\ j.parent = 0
  BY <1>2, JudgedIs DEF Kinds
<1>4. PICK n : n = Next_id
  OBVIOUS
<1>5. Types /\ thread' \in [Threads -> Thread] /\ 0 \in DOMAIN approvals \cup {0}
      /\ Decide(<<j>>) /\ Effect(n, j.decision, x) /\ abandoned' = abandoned
  BY <1>1, <1>2, <1>3, <1>4 DEF IInv, Types
<1>6. /\ StepOn(0) /\ n \in Nat /\ n \in DOMAIN decisions' /\ decisions'[n] = j /\ Rooted(n)'
      /\ n \in ran' <=> Effective(j, x)
  BY <1>3, <1>4, <1>5, OneDecision
<1>7. PICK response : response = respond(to_dict(n, j), x)
  OBVIOUS
<1>8. Tell(a, "action", n, n, response, fails)
  BY <1>1, <1>4, <1>6, <1>7 DEF Tell
<1>9. PICK single : single = TRUE
  OBVIOUS
<1>10. /\ Says(response, "action", single, n, Effective(j, x)) /\ response.body \in Body
       /\ Reads(response, "action", n, j)
  BY <1>3, <1>6, <1>7, ActionSays
<1>11. Says(response, "action", n = n, n, n \in ran')
  BY <1>6, <1>9, <1>10 DEF Says
<1> QED BY <1>1, <1>3, <1>6, <1>8, <1>10, <1>11, Telling
(* HandleMessage keeps the invariant.                                      *)
LEMMA MessageKeeps ==
    ASSUME IInv, NEW a \in Agents, HandleMessage(a)
    PROVE  IInv'
<1>1. PICK d \in Decisions, x \in Executions, fails \in BOOLEAN :
         /\ Decide(<<Judged(a, "message", d, 0)>>)
         /\ Effect(Next_id, d, x)
         /\ Tell(a, "message", Next_id, Next_id,
                 respond_message(to_dict(Next_id, decisions'[Next_id]), x), fails)
         /\ UNCHANGED <<thread, abandoned>>
  BY DEF HandleMessage
<1>2. PICK j : j = Judged(a, "message", d, 0)
  OBVIOUS
<1>3. j \in Decision /\ j.agent = a /\ j.decision = d /\ j.parent = 0
  BY <1>2, JudgedIs DEF Kinds
<1>4. PICK n : n = Next_id
  OBVIOUS
<1>5. Types /\ thread' \in [Threads -> Thread] /\ 0 \in DOMAIN approvals \cup {0}
      /\ Decide(<<j>>) /\ Effect(n, j.decision, x) /\ abandoned' = abandoned
  BY <1>1, <1>2, <1>3, <1>4 DEF IInv, Types
<1>6. /\ StepOn(0) /\ n \in Nat /\ n \in DOMAIN decisions' /\ decisions'[n] = j /\ Rooted(n)'
      /\ n \in ran' <=> Effective(j, x)
  BY <1>3, <1>4, <1>5, OneDecision
<1>7. PICK response : response = respond_message(to_dict(n, j), x)
  OBVIOUS
<1>8. Tell(a, "message", n, n, response, fails)
  BY <1>1, <1>4, <1>6, <1>7 DEF Tell
<1>9. PICK single : single = TRUE
  OBVIOUS
<1>10. /\ Says(response, "message", single, n, Effective(j, x)) /\ response.body \in Body
       /\ Reads(response, "message", n, j)
  BY <1>3, <1>6, <1>7, MessageSays
<1>11. Says(response, "message", n = n, n, n \in ran')
  BY <1>6, <1>9, <1>10 DEF Says
<1> QED BY <1>1, <1>3, <1>6, <1>8, <1>10, <1>11, Telling

(* So does a delegation whose first stage stops it...                      *)
LEMMA StoppedKeeps ==
    ASSUME IInv, NEW a \in Agents, NEW d \in Decisions, d # "allow", NEW x, NEW fails \in BOOLEAN,
           Decide(<<Judged(a, "delegate", d, 0)>>), UNCHANGED <<ran, thread, abandoned>>,
           Tell(a, "delegate", Next_id, Next_id,
                respond_delegation(to_dict(Next_id, decisions'[Next_id]), NoPayload, x), fails)
    PROVE  IInv'
<1>2. PICK j : j = Judged(a, "delegate", d, 0)
  OBVIOUS
<1>3. j \in Decision /\ j.agent = a /\ j.decision = d /\ j.parent = 0
  BY <1>2, JudgedIs DEF Kinds
<1>4. PICK n : n = Next_id
  OBVIOUS
<1>5. Types /\ thread' \in [Threads -> Thread] /\ 0 \in DOMAIN approvals \cup {0}
      /\ Decide(<<j>>) /\ UNCHANGED ran /\ abandoned' = abandoned
  BY <1>2 DEF IInv, Types
<1>6. /\ StepOn(0) /\ n \in Nat /\ n \in DOMAIN decisions' /\ decisions'[n] = j /\ Rooted(n)'
      /\ n \notin ran
  BY <1>3, <1>4, <1>5, OneDecision
<1>7. PICK response : response = respond_delegation(to_dict(n, j), NoPayload, x)
  OBVIOUS
<1>8. Tell(a, "delegate", n, n, response, fails)
  BY <1>4, <1>6, <1>7 DEF Tell
<1>11. n \notin ran'
  BY <1>5, <1>6
<1>9. PICK single, effect : single = (n = n) /\ effect = (n \in ran')
  OBVIOUS
<1>13. ~effect
  BY <1>9, <1>11, Zenon
<1>10. /\ Says(response, "delegate", single, n, effect) /\ response.body \in Body
       /\ Reads(response, "delegate", n, j)
  BY <1>3, <1>6, <1>7, <1>13, StoppedSays
<1>12. Says(response, "delegate", n = n, n, n \in ran')
  BY <1>9, <1>10, Zenon
<1>14. UNCHANGED thread
  OBVIOUS
<1> QED BY <1>3, <1>6, <1>8, <1>10, <1>12, <1>14, Telling

(* ... and one that reaches the recipient.                                 *)
LEMMA DelegatedKeeps ==
    ASSUME IInv, NEW a \in Agents, NEW b \in Agents, NEW e \in Decisions, NEW x \in Executions,
           NEW fails \in BOOLEAN,
           Decide(<<Judged(a, "delegate", "allow", 0), Judged(b, "action", e, Next_id)>>),
           Effect(Next_id + 1, e, x), UNCHANGED <<thread, abandoned>>,
           Tell(a, "delegate", Next_id, Next_id + 1,
                respond_delegation(to_dict(Next_id, decisions'[Next_id]),
                                   to_dict(Next_id + 1, decisions'[Next_id + 1]), x), fails)
    PROVE  IInv'
<1>1. PICK n \in Nat, m \in Nat : n = Next_id /\ m = Next_id + 1 /\ m = n + 1 /\ n >= 1
  <2>1. Len(decisions) \in Nat
    BY DEF IInv, Types
  <2> QED BY <2>1 DEF Next_id
<1>2. PICK j, k : j = Judged(a, "delegate", "allow", 0) /\ k = Judged(b, "action", e, n)
  OBVIOUS
<1>3. /\ j \in Decision /\ j.agent = a /\ j.decision = "allow" /\ j.parent = 0
      /\ k \in Decision /\ k.decision = e /\ k.parent = n
  BY <1>1, <1>2, JudgedIs DEF Kinds, Decisions
<1>4. PICK new : new = <<j, k>> /\ new \in Seq(Decision) /\ Len(new) = 2 /\ new[1] = j /\ new[2] = k
  <2>1. <<j, k>> \in Seq(Decision) /\ Len(<<j, k>>) = 2 /\ <<j, k>>[1] = j /\ <<j, k>>[2] = k
    BY <1>3
  <2> QED BY <2>1, Zenon
<1>5. Types /\ thread' \in [Threads -> Thread] /\ 0 \in DOMAIN approvals \cup {0}
      /\ Decide(new) /\ Effect(m, e, x) /\ abandoned' = abandoned
  BY <1>1, <1>2, <1>4 DEF IInv, Types
<1>6. /\ decisions' \in Seq(Decision) /\ Len(decisions') = Len(decisions) + 2
      /\ \A i \in 1 .. 2 : decisions'[Len(decisions) + i] = new[i]
  BY <1>4, <1>5, Deciding
<1>7. Len(decisions) \in Nat /\ n = Len(decisions) + 1 /\ DOMAIN decisions = 1 .. Len(decisions)
  BY <1>1, <1>5 DEF Next_id, Types
<1>8. /\ DOMAIN decisions = 1 .. (n - 1) /\ DOMAIN decisions' = 1 .. m
      /\ decisions'[n] = j /\ decisions'[m] = k
  BY <1>1, <1>4, <1>6, <1>7
<1>9. /\ n \in DOMAIN decisions' /\ m \in DOMAIN decisions' /\ m \notin DOMAIN decisions
      /\ \A i \in DOMAIN decisions' \ DOMAIN decisions : i = n \/ i = m
  BY <1>1, <1>8
<1>10. Rooted(n)' /\ Rooted(m)'
  BY <1>3, <1>8, <1>9 DEF Rooted
<1>11. ran' = ran \/ (e = "allow" /\ ran' = ran \cup {m})
  BY <1>5 DEF Effect
<1>12. StepOn(0)
  <2>1. \A i \in DOMAIN decisions' \ DOMAIN decisions :
           Rooted(i)' /\ decisions'[i].parent \in DOMAIN decisions' \cup {0}
    BY <1>3, <1>8, <1>9, <1>10
  <2>2. ran' = ran \/ \E i \in DOMAIN decisions' \ DOMAIN decisions :
                         decisions'[i].decision = "allow" /\ ran' = ran \cup {i}
    BY <1>3, <1>8, <1>9, <1>11
  <2> QED BY <1>4, <1>5, <2>1, <2>2, DecidingSteps
<1>13. m \in ran' <=> Effective(k, x)
  BY <1>3, <1>5, <1>9 DEF Effect, Effective, Types
<1>14. PICK response : response = respond_delegation(to_dict(n, j), to_dict(m, k), x)
  OBVIOUS
<1>15. Tell(a, "delegate", n, m, response, fails)
  BY <1>1, <1>8, <1>14 DEF Tell
<1>16. to_dict(n, j) \in Payload /\ to_dict(n, j).approval_id = None
  BY <1>3, Payloads DEF to_dict
<1>17. /\ Says(response, "delegate", FALSE, m, Effective(k, x)) /\ response.body \in Body
       /\ Reads(response, "delegate", m, k)
  BY <1>3, <1>14, <1>16, DelegationSays
<1>18. n # m
  BY <1>1
<1>19. Says(response, "delegate", n = m, m, m \in ran')
  BY <1>13, <1>17, <1>18, Zenon DEF Says
<1> QED BY <1>5, <1>8, <1>9, <1>10, <1>12, <1>15, <1>17, <1>18, <1>19, Telling

(* HandleDelegation keeps the invariant.                                   *)
LEMMA DelegationKeeps ==
    ASSUME IInv, NEW a \in Agents, NEW b \in Agents, HandleDelegation(a, b)
    PROVE  IInv'
<1>1. PICK d \in Decisions, x \in Executions, fails \in BOOLEAN :
         /\ \/ /\ d # "allow"
               /\ Decide(<<Judged(a, "delegate", d, 0)>>)
               /\ UNCHANGED ran
               /\ Tell(a, "delegate", Next_id, Next_id,
                       respond_delegation(to_dict(Next_id, decisions'[Next_id]), NoPayload, x), fails)
            \/ /\ d = "allow"
               /\ \E e \in Decisions :
                     /\ Decide(<<Judged(a, "delegate", d, 0), Judged(b, "action", e, Next_id)>>)
                     /\ Effect(Next_id + 1, e, x)
               /\ Tell(a, "delegate", Next_id, Next_id + 1,
                       respond_delegation(to_dict(Next_id, decisions'[Next_id]),
                                          to_dict(Next_id + 1, decisions'[Next_id + 1]), x), fails)
         /\ UNCHANGED <<thread, abandoned>>
  BY DEF HandleDelegation
<1>2. CASE d # "allow"
  BY <1>1, <1>2, StoppedKeeps
<1>3. CASE d = "allow"
  BY <1>1, <1>3, DelegatedKeeps
<1> QED BY <1>2, <1>3
----------------------------------------------------------------------------
(* Verdicts                                                                *)

(* The thread at work on an escalation takes a step.                       *)
LEMMA WorkKeeps ==
    ASSUME IInv, NEW t \in Threads, NEW id \in DOMAIN approvals, StepOn(id), UNCHANGED replies,
           NEW w, thread' = [thread EXCEPT ![t] = w],
           w.at # "idle" => w.id = id /\ Working(t)',
           Status(id)',
           \A u \in Threads : u # t /\ thread[u].at # "idle" => thread[u].id # id
    PROVE  IInv'
<1>1. thread'[t] = w /\ \A u \in Threads : u # t => thread'[u] = thread[u]
  BY DEF IInv, Types
<1>2. \A u \in Threads : thread'[u].at # "idle" =>
         (thread'[u] = thread[u] /\ thread[u].id # id) \/ (thread'[u].id = id /\ Working(u)')
  <2>1. SUFFICES ASSUME NEW u \in Threads, thread'[u].at # "idle"
        PROVE (thread'[u] = thread[u] /\ thread[u].id # id) \/ (thread'[u].id = id /\ Working(u)')
    OBVIOUS
  <2>2. CASE u = t
    BY <1>1, <2>1, <2>2
  <2>3. CASE u # t
    BY <1>1, <2>1, <2>3
  <2> QED BY <2>2, <2>3
<1>3. \A r, u \in Threads : thread'[r].id = id /\ thread'[u].id = id
              /\ thread'[r].at # "idle" /\ thread'[u].at # "idle" => r = u
  BY <1>1
<1>4. \A r \in replies' : r \in replies \/ Told(r)'
  OBVIOUS
<1> QED BY <1>2, <1>3, <1>4, StepKeeps

(* A human's decision on an escalation is added.                           *)
LEMMA Judging ==
    ASSUME Types, NEW id \in DOMAIN approvals, NEW j \in Decision, j.parent = id,
           j.decision # "escalate", decisions' = Append(decisions, j), NEW n, n = Next_id,
           approvals' \in [DOMAIN approvals -> Record],
           \A i \in DOMAIN approvals : i # id => approvals'[i] = approvals[i],
           ran' = ran, abandoned' = abandoned, thread' \in [Threads -> Thread]
    PROVE  /\ StepOn(id)
           /\ n \in Nat /\ n \in DOMAIN decisions' /\ decisions'[n] = j /\ n \notin ran
           /\ \A i \in DOMAIN decisions' : i # n => i \in DOMAIN decisions /\ decisions'[i] = decisions[i]
<1>1. decisions \in Seq(Decision) /\ Len(decisions) \in Nat /\ n = Len(decisions) + 1
  BY DEF Types, Next_id
<1>2. /\ decisions' \in Seq(Decision) /\ Len(decisions') = n /\ decisions'[n] = j
      /\ DOMAIN decisions = 1 .. (n - 1) /\ DOMAIN decisions' = 1 .. n
      /\ \A i \in 1 .. (n - 1) : decisions'[i] = decisions[i]
  BY <1>1
<1>3. /\ n \in Nat /\ n \in DOMAIN decisions' /\ n \notin DOMAIN decisions
      /\ \A i \in DOMAIN decisions' : i # n => i \in DOMAIN decisions
      /\ \A i \in DOMAIN decisions : i \in DOMAIN decisions' /\ decisions'[i] = decisions[i]
  BY <1>1, <1>2
<1>4. /\ DOMAIN approvals' = DOMAIN approvals
      /\ DOMAIN approvals = {i \in DOMAIN decisions' : decisions'[i].decision = "escalate"}
  BY <1>2, <1>3 DEF Types
<1>5. \A i \in DOMAIN decisions' : decisions'[i].parent \in DOMAIN decisions' \cup {0}
  BY <1>2, <1>3 DEF Types
<1>6. n \notin ran /\ ran \subseteq DOMAIN decisions' /\ \A i \in ran : decisions'[i].decision = "allow"
  BY <1>3 DEF Types
<1>7. Types'
  BY <1>2, <1>4, <1>5, <1>6 DEF Types
<1>8. StepOn(id)
  BY <1>2, <1>3, <1>4, <1>7 DEF StepOn
<1> QED BY <1>2, <1>3, <1>6, <1>8

(* What Takes does: the approval was pending, and none works on it.        *)
LEMMA Taking ==
    ASSUME IInv, NEW t \in Threads, NEW ap, NEW id \in DOMAIN approvals, Takes(t, ap, id)
    PROVE  /\ approvals[id].verdict = None /\ approvals[id].result = None /\ Childless(id)
           /\ approvals' \in [DOMAIN approvals -> Record]
           /\ \A i \in DOMAIN approvals : i # id => approvals'[i] = approvals[i]
           /\ approvals'[id].status = "decided" /\ approvals'[id].verdict = None
           /\ approvals'[id].result = None
           /\ \A u \in Threads : thread[u].at # "idle" => thread[u].id # id
           /\ id \in Nat /\ id \in DOMAIN decisions /\ decisions[id] \in Decision
           /\ decisions[id].decision = "escalate"
<1>1. approvals \in [DOMAIN approvals -> Record] /\ approvals[id].status = "pending"
      /\ approvals' = [approvals EXCEPT ![id].status = "decided"]
  BY DEF IInv, Types, Takes
<1>2. approvals[id].verdict = None /\ approvals[id].result = None /\ Childless(id)
  BY <1>1 DEF IInv, Statuses, Status
<1>3. /\ approvals' \in [DOMAIN approvals -> Record]
      /\ \A i \in DOMAIN approvals : i # id => approvals'[i] = approvals[i]
      /\ approvals'[id].status = "decided" /\ approvals'[id].verdict = None
      /\ approvals'[id].result = None
  BY <1>1, <1>2 DEF Record
<1>4. \A u \in Threads : thread[u].at # "idle" => thread[u].id # id
  BY <1>1 DEF IInv, Workers, Working
<1>5. id \in Nat /\ id \in DOMAIN decisions /\ decisions[id] \in Decision
      /\ decisions[id].decision = "escalate"
  BY DEF IInv, Types
<1> QED BY <1>2, <1>3, <1>4, <1>5

(* An approval that is decided, without verdict and result, says nothing.  *)
LEMMA NothingSaid ==
    ASSUME NEW id, approvals'[id].status = "decided", approvals'[id].verdict = None,
           approvals'[id].result = None
    PROVE  Status(id)'
BY Nothing DEF Status, Verdicts

(* Approve keeps the invariant.                                            *)
LEMMA ApproveKeeps ==
    ASSUME IInv, NEW t \in Threads, NEW ap, NEW id \in DOMAIN approvals, Approve(t, ap, id)
    PROVE  IInv'
<1>1. /\ approvals[id].verdict = None /\ approvals[id].result = None /\ Childless(id)
      /\ approvals' \in [DOMAIN approvals -> Record]
      /\ \A i \in DOMAIN approvals : i # id => approvals'[i] = approvals[i]
      /\ approvals'[id].status = "decided" /\ approvals'[id].verdict = None
      /\ approvals'[id].result = None
      /\ \A u \in Threads : thread[u].at # "idle" => thread[u].id # id
      /\ id \in Nat /\ decisions[id] \in Decision
  BY Taking DEF Approve
<1>2. PICK d \in {"allow", "deny"} :
         decisions' = Append(decisions, Judged(decisions[id].agent, decisions[id].kind, d, id))
  BY DEF Approve
<1>3. PICK j : j = Judged(decisions[id].agent, decisions[id].kind, d, id) /\ j \in Decision
         /\ j.decision = d /\ j.parent = id
  <2>1. decisions[id].agent \in Agents /\ decisions[id].kind \in Kinds /\ d \in Decisions
    BY <1>1 DEF Decision, Decisions
  <2> QED BY <1>1, <2>1, JudgedIs
<1>4. PICK n : n = Next_id
  OBVIOUS
<1>13. PICK w : w = [NoThread EXCEPT !.at = "verdict", !.id = id, !.made = n]
  OBVIOUS
<1>5. w = [at |-> "verdict", id |-> id, made |-> n, body |-> None]
  BY <1>13 DEF NoThread
<1>6. thread' = [thread EXCEPT ![t] = w]
  BY <1>4, <1>13 DEF Approve
<1>7. n \in Nat
  BY <1>4 DEF IInv, Types, Next_id
<1>8. thread' \in [Threads -> Thread] /\ thread'[t] = w
  BY <1>1, <1>5, <1>6, <1>7 DEF IInv, Types, Thread, Stages
<1>9. decisions' = Append(decisions, j) /\ ran' = ran /\ abandoned' = abandoned /\ UNCHANGED replies
  BY <1>2, <1>3 DEF Approve
<1>10. /\ StepOn(id)
       /\ n \in DOMAIN decisions' /\ decisions'[n] = j /\ n \notin ran
       /\ \A i \in DOMAIN decisions' : i # n => i \in DOMAIN decisions /\ decisions'[i] = decisions[i]
  BY <1>1, <1>3, <1>4, <1>8, <1>9, Judging DEF IInv
<1>11. \A i \in DOMAIN decisions' : decisions'[i].parent = id <=> i = n
  BY <1>1, <1>3, <1>10 DEF Childless
<1>12. Working(t)'
  <2>1. w.at = "verdict" /\ w.id = id /\ w.made = n
    BY <1>5
  <2> QED BY <1>1, <1>3, <1>8, <1>9, <1>10, <1>11, <2>1 DEF Working
<1> QED BY <1>1, <1>5, <1>6, <1>9, <1>10, <1>12, WorkKeeps, NothingSaid
(* Reject keeps the invariant.                                             *)
LEMMA RejectKeeps ==
    ASSUME IInv, NEW t \in Threads, NEW ap, NEW id \in DOMAIN approvals, Reject(t, ap, id)
    PROVE  IInv'
<1>1. /\ Childless(id)
      /\ approvals' \in [DOMAIN approvals -> Record]
      /\ \A i \in DOMAIN approvals : i # id => approvals'[i] = approvals[i]
      /\ approvals'[id].status = "decided" /\ approvals'[id].verdict = None
      /\ approvals'[id].result = None
      /\ \A u \in Threads : thread[u].at # "idle" => thread[u].id # id
      /\ id \in Nat
  BY Taking DEF Reject
<1>2. PICK w : w = [NoThread EXCEPT !.at = "reject", !.id = id]
  OBVIOUS
<1>3. w = [at |-> "reject", id |-> id, made |-> 0, body |-> None]
  BY <1>2 DEF NoThread
<1>4. thread' = [thread EXCEPT ![t] = w]
  BY <1>2 DEF Reject
<1>5. thread' \in [Threads -> Thread] /\ thread'[t] = w
  BY <1>1, <1>3, <1>4 DEF IInv, Types, Thread, Stages
<1>6. UNCHANGED <<decisions, ran, replies, abandoned>> /\ DOMAIN approvals' = DOMAIN approvals
  BY <1>1 DEF Reject
<1>7. Types'
  BY <1>1, <1>5, <1>6 DEF IInv, Types
<1>8. StepOn(id)
  BY <1>1, <1>6, <1>7 DEF StepOn, IInv
<1>9. Childless(id)'
  BY <1>1, <1>6 DEF Childless
<1>10. Working(t)'
  <2>1. w.at = "reject" /\ w.id = id
    BY <1>3
  <2> QED BY <1>1, <1>5, <1>6, <1>9, <2>1 DEF Working
<1>11. w.id = id /\ UNCHANGED replies
  BY <1>3, <1>6
<1>12. Status(id)'
  BY <1>1, NothingSaid
<1> QED BY <1>1, <1>4, <1>8, <1>10, <1>11, <1>12, WorkKeeps

(* What is known of a thread at work.                                      *)
LEMMA AtWork ==
    ASSUME IInv, NEW t \in Threads, thread[t].at # "idle"
    PROVE  /\ thread[t] \in Thread /\ Working(t)
           /\ thread[t].id \in DOMAIN approvals /\ thread[t].id # 0
           /\ approvals[thread[t].id] \in Record
           /\ approvals[thread[t].id].status = "decided" /\ approvals[thread[t].id].result = None
           /\ decisions[thread[t].id] \in Decision /\ decisions[thread[t].id].decision = "escalate"
           /\ \A u \in Threads : u # t /\ thread[u].at # "idle" => thread[u].id # thread[t].id
           /\ thread[t].at # "reject" =>
                 /\ thread[t].made \in DOMAIN decisions
                 /\ decisions[thread[t].made] \in Decision
                 /\ decisions[thread[t].made].parent = thread[t].id
                 /\ decisions[thread[t].made].decision # "escalate"
                 /\ \A i \in DOMAIN decisions : decisions[i].parent = thread[t].id <=> i = thread[t].made
<1>1. thread[t] \in Thread /\ Working(t)
  BY DEF IInv, Types, Workers
<1>2. /\ thread[t].id \in DOMAIN approvals
      /\ approvals[thread[t].id].status = "decided" /\ approvals[thread[t].id].result = None
  BY <1>1 DEF Working
<1>3. /\ thread[t].id # 0 /\ approvals[thread[t].id] \in Record
      /\ decisions[thread[t].id] \in Decision /\ decisions[thread[t].id].decision = "escalate"
  BY <1>2 DEF IInv, Types
<1>4. \A u \in Threads : u # t /\ thread[u].at # "idle" => thread[u].id # thread[t].id
  BY DEF IInv, Workers
<1>5. thread[t].at # "reject" =>
         /\ thread[t].made \in DOMAIN decisions
         /\ decisions[thread[t].made].decision # "escalate"
         /\ \A i \in DOMAIN decisions : decisions[i].parent = thread[t].id <=> i = thread[t].made
  BY <1>1 DEF Working
<1>6. \A i \in DOMAIN decisions : decisions[i] \in Decision
  BY DEF IInv, Types
<1> QED BY <1>1, <1>2, <1>3, <1>4, <1>5, <1>6

(* RecordRejection keeps the invariant.                                    *)
LEMMA RecordKeeps ==
    ASSUME IInv, NEW t \in Threads, RecordRejection(t)
    PROVE  IInv'
<1>0. PICK id : id = thread[t].id
  OBVIOUS
<1>1. /\ thread[t].at = "reject" /\ thread[t] \in Thread /\ Working(t)
      /\ id \in DOMAIN approvals /\ id \in Nat
      /\ approvals[id].status = "decided" /\ approvals[id].result = None
      /\ decisions[id] \in Decision
      /\ \A u \in Threads : u # t /\ thread[u].at # "idle" => thread[u].id # id
  <2>1. thread[t].at = "reject"
    BY DEF RecordRejection
  <2>2. thread[t].at # "idle"
    BY <2>1
  <2> QED BY <1>0, <2>1, <2>2, AtWork DEF Thread
<1>2. approvals[id].verdict = None /\ Childless(id)
  BY <1>0, <1>1 DEF Working
<1>3. PICK j : j = Judged(decisions[id].agent, decisions[id].kind, "deny", id) /\ j \in Decision
         /\ j.decision = "deny" /\ j.parent = id
  <2>1. decisions[id].agent \in Agents /\ decisions[id].kind \in Kinds /\ "deny" \in Decisions
    BY <1>1 DEF Decision, Decisions
  <2> QED BY <1>1, <2>1, JudgedIs
<1>4. PICK n : n = Next_id
  OBVIOUS
<1>5. PICK w : w = [thread[t] EXCEPT !.at = "rejected", !.made = n]
  OBVIOUS
<1>6. n \in Nat
  BY <1>4 DEF IInv, Types, Next_id
<1>7. thread' = [thread EXCEPT ![t] = w]
  BY <1>4, <1>5 DEF RecordRejection, IInv, Types
<1>8. w \in Thread /\ w.at = "rejected" /\ w.id = id /\ w.made = n
  BY <1>0, <1>1, <1>5, <1>6 DEF Thread, Stages
<1>9. thread' \in [Threads -> Thread] /\ thread'[t] = w
  BY <1>7, <1>8 DEF IInv, Types
<1>10. decisions' = Append(decisions, j) /\ UNCHANGED <<ran, approvals, replies, abandoned>>
  BY <1>0, <1>3 DEF RecordRejection
<1>11. approvals \in [DOMAIN approvals -> Record]
  BY DEF IInv, Types
<1>12. /\ StepOn(id)
       /\ n \in DOMAIN decisions' /\ decisions'[n] = j /\ n \notin ran
       /\ \A i \in DOMAIN decisions' : i # n => i \in DOMAIN decisions /\ decisions'[i] = decisions[i]
  BY <1>1, <1>3, <1>4, <1>9, <1>10, <1>11, Judging DEF IInv
<1>13. \A i \in DOMAIN decisions' : decisions'[i].parent = id <=> i = n
  BY <1>2, <1>3, <1>12 DEF Childless
<1>14. Working(t)'
  BY <1>1, <1>2, <1>3, <1>8, <1>9, <1>10, <1>12, <1>13 DEF Working
<1> QED BY <1>1, <1>2, <1>7, <1>8, <1>10, <1>12, <1>14, WorkKeeps, NothingSaid
(* AnnotateVerdict keeps the invariant.                                    *)
LEMMA VerdictKeeps ==
    ASSUME IInv, NEW t \in Threads, AnnotateVerdict(t)
    PROVE  IInv'
<1>0. PICK id, made : id = thread[t].id /\ made = thread[t].made
  OBVIOUS
<1>1. /\ thread[t].at \in {"verdict", "rejected"} /\ thread[t] \in Thread /\ Working(t)
      /\ id \in DOMAIN approvals /\ approvals[id] \in Record
      /\ approvals[id].status = "decided" /\ approvals[id].result = None
      /\ \A u \in Threads : u # t /\ thread[u].at # "idle" => thread[u].id # id
      /\ made \in DOMAIN decisions /\ decisions[made] \in Decision
      /\ decisions[made].decision # "escalate"
      /\ \A i \in DOMAIN decisions : decisions[i].parent = id <=> i = made
  <2>1. thread[t].at \in {"verdict", "rejected"}
    BY DEF AnnotateVerdict
  <2>2. thread[t].at # "idle" /\ thread[t].at # "reject"
    BY <2>1
  <2> QED BY <1>0, <2>1, <2>2, AtWork
<1>2. /\ made \notin ran
      /\ thread[t].at = "rejected" => decisions[made].decision = "deny"
  BY <1>0, <1>1 DEF Working
<1>3. PICK v : v = IF thread[t].at = "rejected" THEN "rejected"
                   ELSE IF decisions[thread[t].made].decision = "allow" THEN "granted"
                   ELSE "superseded"
  OBVIOUS
<1>4. v \in Verdicts /\ (v \in {"rejected", "superseded"} => decisions[made].decision = "deny")
  BY <1>0, <1>1, <1>2, <1>3 DEF Verdicts, Decision, Decisions
<1>5. PICK w : w = [thread[t] EXCEPT !.at = "respond"]
  OBVIOUS
<1>6. thread' = [thread EXCEPT ![t] = w]
  BY <1>5 DEF AnnotateVerdict, IInv, Types
<1>7. w \in Thread /\ w.at = "respond" /\ w.id = id /\ w.made = made
  BY <1>0, <1>1, <1>5 DEF Thread, Stages
<1>8. thread' \in [Threads -> Thread] /\ thread'[t] = w
  BY <1>6, <1>7 DEF IInv, Types
<1>9. decisions' = decisions /\ ran' = ran /\ replies' = replies /\ abandoned' = abandoned
      /\ approvals' = [approvals EXCEPT ![id].verdict = v]
  BY <1>0, <1>3 DEF AnnotateVerdict
<1>10. /\ approvals' \in [DOMAIN approvals -> Record] /\ DOMAIN approvals' = DOMAIN approvals
       /\ \A i \in DOMAIN approvals : i # id => approvals'[i] = approvals[i]
       /\ approvals'[id].status = "decided" /\ approvals'[id].verdict = v
       /\ approvals'[id].result = None
  BY <1>1, <1>4, <1>9 DEF IInv, Types, Record
<1>11. Types'
  BY <1>8, <1>9, <1>10 DEF IInv, Types
<1>12. StepOn(id)
  BY <1>1, <1>9, <1>10, <1>11 DEF StepOn, IInv
<1>13. Working(t)'
  BY <1>1, <1>2, <1>7, <1>8, <1>9, <1>10 DEF Working
<1>14. Status(id)'
  BY <1>1, <1>4, <1>9, <1>10 DEF Status
<1> QED BY <1>1, <1>6, <1>7, <1>9, <1>12, <1>13, <1>14, WorkKeeps

(* What respond says of the human's decision is true...                    *)
LEMMA ExecutedTruly ==
    ASSUME NEW id, NEW made \in DOMAIN decisions', decisions' \in Seq(Decision),
           decisions'[made].parent = id, NEW d, d = decisions'[made], NEW x \in Executions,
           made \in ran' <=> Effective(d, x), NEW b, b = respond(to_dict(made, d), x).body
    PROVE  b \in Body /\ Truthful(id, b)'
<1>1. d \in Decision /\ made \in Nat
  OBVIOUS
<1>2. PICK q, r : q = respond_payload(to_dict(made, d), x) /\ r = respond(to_dict(made, d), x)
  OBVIOUS
<1>3. r.body \in Body /\ r.body.action = NoPayload /\ r.body.whole = q.payload
  BY <1>1, <1>2, ActionSays
<1>4. /\ q.payload.decision_id = made
      /\ q.payload.execution \in {"succeeded", "says_error"} => Effective(d, x)
      /\ q.payload.execution \in {None, "refused"} => ~Effective(d, x)
  BY <1>1, <1>2, PayloadTells
<1>5. Final(b) = q.payload
  BY <1>2, <1>3 DEF Final
<1> QED BY <1>2, <1>3, <1>4, <1>5 DEF Truthful

(* ... and so is what respond_delegation says of the second stage.         *)
LEMMA DelegatedTruly ==
    ASSUME NEW id, NEW n \in DOMAIN decisions', decisions' \in Seq(Decision), Rooted(n)',
           NEW e, e = decisions'[n], NEW x \in Executions, NEW first \in Payload,
           n \in ran' <=> Effective(e, x), NEW b, b = respond_delegation(first, to_dict(n, e), x).body
    PROVE  b \in Body /\ Truthful(id, b)'
<1>1. e \in Decision /\ n \in Nat
  OBVIOUS
<1>2. PICK q, r : q = respond_payload(to_dict(n, e), x) /\ r = respond_delegation(first, to_dict(n, e), x)
  OBVIOUS
<1>3. Says(r, "delegate", FALSE, n, Effective(e, x)) /\ r.body \in Body /\ r.body.action = q.payload
  <2>1. r = respond_delegation(first, to_dict(n, e), x) /\ q = respond_payload(to_dict(n, e), x)
    BY <1>2
  <2> HIDE <1>2
  <2> QED BY ONLY <1>1, <2>1, x \in Executions, first \in Payload, DelegationSays
<1>4. /\ q.payload.decision_id = n /\ q.payload # NoPayload
      /\ q.payload.execution \in {"succeeded", "says_error"} => Effective(e, x)
      /\ q.payload.execution \in {None, "refused"} => ~Effective(e, x)
  BY <1>1, <1>2, PayloadTells
<1>5. Final(b) = q.payload
  BY <1>2, <1>3, <1>4 DEF Final
<1> QED BY <1>2, <1>3, <1>4, <1>5 DEF Truthful
(* Respond keeps the invariant.                                            *)
LEMMA RespondKeeps ==
    ASSUME IInv, NEW t \in Threads, Respond(t)
    PROVE  IInv'
<1>0. PICK id, made, d : id = thread[t].id /\ made = thread[t].made /\ d = decisions[made]
  OBVIOUS
<1>1. /\ thread[t].at = "respond" /\ thread[t] \in Thread /\ Working(t)
      /\ id \in DOMAIN approvals /\ id # 0 /\ approvals[id] \in Record
      /\ approvals[id].status = "decided" /\ approvals[id].result = None
      /\ decisions[id].decision = "escalate"
      /\ \A u \in Threads : u # t /\ thread[u].at # "idle" => thread[u].id # id
      /\ made \in DOMAIN decisions /\ d \in Decision /\ d.parent = id
      /\ d.decision # "escalate"
      /\ \A i \in DOMAIN decisions : decisions[i].parent = id <=> i = made
  <2>1. thread[t].at = "respond"
    BY DEF Respond
  <2>2. thread[t].at # "idle" /\ thread[t].at # "reject"
    BY <2>1
  <2> QED BY <1>0, <2>1, <2>2, AtWork
<1>2. made \notin ran /\ UNCHANGED <<replies, abandoned>> /\ made \in Nat
  BY <1>0, <1>1 DEF Working, Respond, Thread
<1>3. PICK x \in Executions :
         \/ /\ d.kind = "delegate" /\ d.decision = "allow"
            /\ \E b \in Agents, e \in Decisions :
                  /\ Decide(<<Judged(b, "action", e, made)>>)
                  /\ Effect(Next_id, e, x)
                  /\ thread' = [thread EXCEPT ![t].at = "annotate", ![t].body =
                        respond_delegation(to_dict(made, d),
                                           to_dict(Next_id, decisions'[Next_id]), x).body]
         \/ /\ Effect(made, d.decision, x)
            /\ thread' = [thread EXCEPT ![t].at = "annotate",
                                        ![t].body = respond(to_dict(made, d), x).body]
            /\ UNCHANGED <<decisions, approvals>>
  BY <1>0 DEF Respond
<1>4. ASSUME NEW b \in Body, thread' = [thread EXCEPT ![t].at = "annotate", ![t].body = b],
             StepOn(id), Truthful(id, b)', approvals'[id] = approvals[id], id \in DOMAIN approvals',
             \A i \in DOMAIN decisions' : decisions'[i].parent = id <=> i = made,
             made \in DOMAIN decisions', decisions'[made] = decisions[made]
      PROVE  IInv'
  <2>1. PICK w : w = [thread[t] EXCEPT !.at = "annotate", !.body = b]
    OBVIOUS
  <2>2. thread' = [thread EXCEPT ![t] = w]
    BY <1>4, <2>1 DEF IInv, Types
  <2>3. w.at = "annotate" /\ w.id = id /\ w.made = made /\ w.body = b /\ thread'[t] = w
    BY <1>0, <1>1, <2>1, <2>2 DEF Thread, IInv, Types
  <2>4. Working(t)'
    <3>1. w.at \notin {"reject", "verdict", "rejected", "respond"}
      BY <2>3
    <3>2. /\ approvals'[w.id].status = "decided" /\ approvals'[w.id].result = None
          /\ w.id \in DOMAIN approvals' /\ w.made \in DOMAIN decisions'
          /\ decisions'[w.made].decision # "escalate"
      BY <1>0, <1>1, <1>4, <2>3
    <3> QED BY <1>4, <2>3, <3>1, <3>2 DEF Working
  <2>5. Status(id)'
    <3>1. Status(id)
      BY <1>1 DEF IInv, Statuses
    <3> QED BY <1>0, <1>1, <1>4, <3>1 DEF Status
  <2> QED BY <1>1, <1>2, <1>4, <2>2, <2>3, <2>4, <2>5, WorkKeeps
<1>5. ASSUME NEW b \in Body, thread' = [thread EXCEPT ![t].at = "annotate", ![t].body = b]
      PROVE  thread' \in [Threads -> Thread]
  BY <1>1, <1>5 DEF IInv, Types, Thread, Stages
<1>6. ASSUME d.kind = "delegate", d.decision = "allow", NEW b \in Agents, NEW e \in Decisions,
             Decide(<<Judged(b, "action", e, made)>>), Effect(Next_id, e, x),
             thread' = [thread EXCEPT ![t].at = "annotate", ![t].body =
                        respond_delegation(to_dict(made, d),
                                           to_dict(Next_id, decisions'[Next_id]), x).body]
      PROVE  IInv'
  <2>1. PICK k : k = Judged(b, "action", e, made)
    OBVIOUS
  <2>2. k \in Decision /\ k.decision = e /\ k.parent = made
    BY <1>2, <2>1, JudgedIs DEF Kinds
  <2>3. PICK n : n = Next_id
    OBVIOUS
  <2>4. /\ decisions' \in Seq(Decision) /\ n \in DOMAIN decisions' /\ decisions'[n] = k
        /\ n \in Nat
    <3>1. <<k>> \in Seq(Decision) /\ Len(<<k>>) = 1 /\ <<k>>[1] = k
      BY <2>2
    <3>2. Decide(<<k>>) /\ Types /\ decisions \in Seq(Decision)
      BY <1>6, <2>1 DEF IInv, Types
    <3>3. /\ decisions' \in Seq(Decision) /\ Len(decisions') = Len(decisions) + Len(<<k>>)
          /\ \A i \in 1 .. Len(<<k>>) : decisions'[Len(decisions) + i] = <<k>>[i]
      BY <3>1, <3>2, Deciding
    <3> QED BY <2>3, <3>1, <3>2, <3>3 DEF Next_id
  <2>5. to_dict(made, d) \in Payload
    BY <1>1, <1>2, Payloads
  <2>6. PICK said : said = respond_delegation(to_dict(made, d), to_dict(n, k), x).body
    OBVIOUS
  <2>7. said \in Body
    BY <2>2, <2>4, <2>5, <2>6, DelegationSays
  <2>8. thread' = [thread EXCEPT ![t].at = "annotate", ![t].body = said]
    BY <1>6, <2>3, <2>4, <2>6
  <2>9. Types /\ Decide(<<k>>) /\ Effect(n, k.decision, x) /\ abandoned' = abandoned
        /\ thread' \in [Threads -> Thread] /\ id \in DOMAIN approvals \cup {0}
    BY <1>1, <1>2, <1>5, <1>6, <2>1, <2>2, <2>3, <2>7, <2>8 DEF IInv
  <2>10. /\ StepOn(id) /\ Rooted(n)' /\ n \notin DOMAIN decisions
         /\ n \in ran' <=> Effective(k, x)
    BY <1>0, <1>1, <1>6, <2>2, <2>3, <2>9, OneDecision
  <2>11. Truthful(id, said)'
    BY <2>4, <2>5, <2>6, <2>10, DelegatedTruly
  <2>12. /\ approvals'[id] = approvals[id] /\ id \in DOMAIN approvals'
         /\ \A i \in DOMAIN decisions : i \in DOMAIN decisions' /\ decisions'[i] = decisions[i]
         /\ \A i \in DOMAIN decisions' \ DOMAIN decisions : i = n
    <3>1. <<k>> \in Seq(Decision) /\ Len(<<k>>) = 1
      BY <2>2
    <3>2. /\ \A i \in DOMAIN approvals : approvals'[i] = approvals[i]
          /\ \A i \in DOMAIN decisions : i \in DOMAIN decisions' /\ decisions'[i] = decisions[i]
          /\ \A i \in DOMAIN decisions' \ DOMAIN decisions :
                \E j \in 1 .. Len(<<k>>) : i = Len(decisions) + j
          /\ DOMAIN approvals' = {i \in DOMAIN decisions' : decisions'[i].decision = "escalate"}
      BY <2>9, <3>1, Deciding
    <3>3. id \in DOMAIN decisions
      BY <1>1, <2>9 DEF Types
    <3> QED BY <1>1, <2>3, <3>1, <3>2, <3>3 DEF Next_id
  <2>13. made # id
    BY <1>0, <1>1
  <2>14. \A i \in DOMAIN decisions' : decisions'[i].parent = id <=> i = made
    BY <1>1, <2>2, <2>4, <2>10, <2>12, <2>13
  <2> QED BY <1>1, <1>4, <2>7, <2>8, <2>10, <2>11, <2>12, <2>14
<1>7. ASSUME Effect(made, d.decision, x), UNCHANGED <<decisions, approvals>>,
             thread' = [thread EXCEPT ![t].at = "annotate",
                                      ![t].body = respond(to_dict(made, d), x).body]
      PROVE  IInv'
  <2>1. PICK said : said = respond(to_dict(made, d), x).body
    OBVIOUS
  <2>2. decisions' = decisions /\ approvals' = approvals /\ decisions \in Seq(Decision)
    BY <1>7 DEF IInv, Types
  <2>3. made \in ran' <=> Effective(d, x)
    BY <1>2, <1>7 DEF Effect, Effective
  <2>4. said \in Body /\ Truthful(id, said)'
    BY <1>0, <1>1, <2>1, <2>2, <2>3, ExecutedTruly
  <2>5. thread' = [thread EXCEPT ![t].at = "annotate", ![t].body = said]
    BY <1>7, <2>1
  <2>6. thread' \in [Threads -> Thread] /\ abandoned' = abandoned
    BY <1>2, <1>5, <2>4, <2>5
  <2>7. ran' = ran \/ (d.decision = "allow" /\ ran' = ran \cup {made})
    BY <1>7 DEF Effect
  <2>8. ~Rooted(made)
    BY <1>0, <1>1 DEF Rooted
  <2>9. Types'
    BY <1>0, <1>1, <2>2, <2>6, <2>7 DEF IInv, Types
  <2>10. StepOn(id)
    BY <1>0, <1>1, <2>2, <2>7, <2>8, <2>9 DEF StepOn, IInv
  <2> QED BY <1>1, <1>4, <2>2, <2>4, <2>5, <2>10
<1> QED BY <1>3, <1>6, <1>7

(* AnnotateResult keeps the invariant.                                     *)
LEMMA ResultKeeps ==
    ASSUME IInv, NEW t \in Threads, AnnotateResult(t)
    PROVE  IInv'
<1>0. PICK id, b : id = thread[t].id /\ b = thread[t].body
  OBVIOUS
<1>1. /\ thread[t].at = "annotate" /\ Working(t)
      /\ id \in DOMAIN approvals /\ approvals[id] \in Record
      /\ approvals[id].status = "decided"
      /\ \A u \in Threads : u # t /\ thread[u].at # "idle" => thread[u].id # id
  <2>1. thread[t].at = "annotate"
    BY DEF AnnotateResult, Annotate
  <2>2. thread[t].at # "idle"
    BY <2>1
  <2> QED BY <1>0, <2>1, <2>2, AtWork
<1>2. b \in Body /\ Truthful(id, b)
  BY <1>0, <1>1 DEF Working
<1>3. /\ thread' = [thread EXCEPT ![t] = NoThread]
      /\ approvals' = [approvals EXCEPT ![id] = [approvals[id] EXCEPT !.result = b]]
      /\ decisions' = decisions /\ ran' = ran /\ replies' = replies /\ abandoned' = abandoned
  BY <1>0 DEF AnnotateResult, Annotate
<1>4. thread' \in [Threads -> Thread] /\ NoThread.at = "idle"
  BY <1>3 DEF IInv, Types, Thread, Stages, NoThread
<1>5. /\ approvals' \in [DOMAIN approvals -> Record] /\ DOMAIN approvals' = DOMAIN approvals
      /\ \A i \in DOMAIN approvals : i # id => approvals'[i] = approvals[i]
      /\ approvals'[id].status = "decided" /\ approvals'[id].verdict = approvals[id].verdict
      /\ approvals'[id].result = b
  BY <1>1, <1>2, <1>3 DEF IInv, Types, Record
<1>6. Types'
  BY <1>3, <1>4, <1>5 DEF IInv, Types
<1>7. StepOn(id)
  BY <1>1, <1>3, <1>5, <1>6 DEF StepOn, IInv
<1>8. Truthful(id, b)'
  BY <1>2, <1>3 DEF Truthful, Rooted
<1>9. Status(id)'
  <2>1. Status(id)
    BY <1>1 DEF IInv, Statuses
  <2> QED BY <1>1, <1>3, <1>5, <1>8, <2>1 DEF Status
<1> QED BY <1>1, <1>3, <1>4, <1>7, <1>9, WorkKeeps

(* Die keeps the invariant.                                                *)
LEMMA DieKeeps ==
    ASSUME IInv, NEW t \in Threads, Die(t)
    PROVE  IInv'
<1>0. PICK id : id = thread[t].id
  OBVIOUS
<1>1. /\ id \in DOMAIN approvals
      /\ \A u \in Threads : u # t /\ thread[u].at # "idle" => thread[u].id # id
  BY <1>0, AtWork DEF Die
<1>2. /\ thread' = [thread EXCEPT ![t] = NoThread] /\ abandoned' = abandoned \cup {id}
      /\ decisions' = decisions /\ ran' = ran /\ replies' = replies /\ approvals' = approvals
  BY <1>0 DEF Die
<1>3. thread' \in [Threads -> Thread] /\ NoThread.at = "idle"
  BY <1>2 DEF IInv, Types, Thread, Stages, NoThread
<1>4. Types'
  BY <1>1, <1>2, <1>3 DEF IInv, Types
<1>5. StepOn(id)
  BY <1>1, <1>2, <1>4 DEF StepOn, IInv
<1>6. Status(id)'
  <2>1. Status(id)
    BY <1>1 DEF IInv, Statuses
  <2> QED BY <1>2, <2>1 DEF Status, Childless, Truthful, Rooted
<1> QED BY <1>1, <1>2, <1>3, <1>5, <1>6, WorkKeeps
----------------------------------------------------------------------------
(* Theorems                                                                *)

(* The invariant holds: every reply and every status is true of what ran,  *)
(* and a thread that serves an approver is alone on its escalation, whose  *)
(* one decision has not run before it responds.                            *)
THEOREM AnswersFollowTheCode == Spec => []IInv
<1>1. Init => IInv
  <2>1. SUFFICES ASSUME Init PROVE IInv
    OBVIOUS
  <2>2. decisions = <<>> /\ DOMAIN decisions = {} /\ decisions \in Seq(Decision)
    BY <2>1 DEF Init
  <2>3. approvals = <<>> /\ DOMAIN approvals = {} /\ approvals \in [DOMAIN approvals -> Record]
    BY <2>1 DEF Init
  <2>4. thread \in [Threads -> Thread] /\ \A t \in Threads : thread[t].at = "idle"
    BY <2>1 DEF Init, NoThread, Thread, Stages
  <2>5. Types
    BY <2>1, <2>2, <2>3, <2>4 DEF Init, Types
  <2>6. Workers
    BY <2>4 DEF Workers
  <2> QED BY <2>1, <2>3, <2>5, <2>6 DEF Init, IInv, Statuses, Replies
<1>2. IInv /\ [Next]_vars => IInv'
  <2>1. SUFFICES ASSUME IInv, [Next]_vars PROVE IInv'
    OBVIOUS
  <2>2. CASE UNCHANGED vars
    <3>1. Types'
      BY <2>1, <2>2 DEF vars, IInv, Types
    <3>2. Workers'
      BY <2>1, <2>2 DEF vars, IInv, Workers, Working, Childless, Truthful, Rooted
    <3>3. Statuses'
      BY <2>1, <2>2 DEF vars, IInv, Statuses, Status, Childless, Truthful, Rooted
    <3>4. Replies'
      BY <2>1, <2>2 DEF vars, IInv, Replies, Told, Rooted
    <3> QED BY <3>1, <3>2, <3>3, <3>4 DEF IInv
  <2>3. ASSUME NEW a \in Agents, NEW b \in Agents,
               HandleAction(a) \/ HandleMessage(a) \/ HandleDelegation(a, b)
        PROVE  IInv'
    BY <2>1, <2>3, ActionKeeps, MessageKeeps, DelegationKeeps
  <2>4. ASSUME NEW t \in Threads, NEW ap \in Approvers, NEW id \in DOMAIN approvals,
               Approve(t, ap, id) \/ Reject(t, ap, id)
        PROVE  IInv'
    BY <2>1, <2>4, ApproveKeeps, RejectKeeps
  <2>5. ASSUME NEW t \in Threads, ThreadStep(t) PROVE IInv'
    BY <2>1, <2>5, RecordKeeps, VerdictKeeps, RespondKeeps, ResultKeeps DEF ThreadStep
  <2>6. ASSUME NEW t \in Threads, Die(t) PROVE IInv'
    BY <2>1, <2>6, DieKeeps
  <2> QED BY <2>1, <2>2, <2>3, <2>4, <2>5, <2>6 DEF Next
<1> QED BY <1>1, <1>2, PTL DEF Spec

(* An agent is told the truth, over HTTP and MCP, of whether its call ran  *)
(* or waits, and finds in the reply what it needs to act on it (respond,   *)
(* respond_delegation, handle_message, _decision_result, Outcome).         *)
THEOREM AgentsAreToldWhatRan == Spec => []RepliesTellWhatRan
<1>1. IInv => RepliesTellWhatRan
  <2> SUFFICES ASSUME IInv, NEW r \in replies
               PROVE  LET status == r.response.status
                          http == Outcome(r.response)
                          mcp == decision_result(r.response)
                      IN  /\ http.execution \in {"succeeded", "says_error"} => r.last \in ran
                          /\ ~mcp.isError => r.last \in ran \/ r.kind = "message"
                          /\ http.escalated \/ status \in {403, 502} => r.last \notin ran
                          /\ mcp.says \in {"denied", "needs approval"} => r.last \notin ran
                          /\ status # 500 => http.decision = decisions[r.last].decision
                          /\ status \in {202, 403} => http.reason_of = r.last
                          /\ http.allowed /\ r.kind # "message" => http.execution \notin {None, Raised}
                          /\ http.escalated =>
                                /\ http.approval_id = r.last
                                /\ approval_status(decisions[r.last].agent, r.last).found
                          /\ http.escalated /\ r.first = r.last =>
                                mcp.approval_id = r.last /\ decisions[r.last].agent = r.agent
    BY Zenon DEF RepliesTellWhatRan
  <2>1. Told(r) /\ Types
    BY DEF IInv, Replies
  <2>2. /\ HttpRan(r.response) => r.last \in ran
        /\ McpOk(r.response) => r.last \in ran \/ r.kind = "message"
        /\ r.response.status \in {202, 403, 502} => r.last \notin ran
        /\ McpNo(r.response) => r.last \notin ran
        /\ r.response.status = 202 /\ r.first = r.last => decision_result(r.response).approval_id = r.last
    BY <2>1, Zenon DEF Told, Says
  <2>3. /\ r.response.status # 500 => Outcome(r.response).decision = decisions[r.last].decision
        /\ r.response.status \in {202, 403} => Outcome(r.response).reason_of = r.last
        /\ r.response.status = 200 /\ r.kind # "message" =>
              Outcome(r.response).execution \notin {None, Raised}
        /\ r.response.status = 202 =>
              Outcome(r.response).approval_id = r.last /\ decisions[r.last].decision = "escalate"
        /\ r.first = r.last => decisions[r.last].agent = r.agent
    BY <2>1, Zenon DEF Told, Reads
  <2>4. /\ Outcome(r.response).escalated <=> r.response.status = 202
        /\ Outcome(r.response).allowed <=> r.response.status = 200
    BY DEF Outcome
  <2>5. r.response.status = 202 => approval_status(decisions[r.last].agent, r.last).found
    <3>1. SUFFICES ASSUME r.response.status = 202
                   PROVE  approval_status(decisions[r.last].agent, r.last).found
      OBVIOUS
    <3>2. r.last \in DOMAIN approvals
      BY <2>1, <2>3, <3>1 DEF Told, Types
    <3> QED BY <3>2 DEF approval_status
  <2>6. Outcome(r.response).escalated \/ r.response.status \in {403, 502} => r.last \notin ran
    BY <2>2, <2>4
  <2>7. /\ Outcome(r.response).execution \in {"succeeded", "says_error"} => r.last \in ran
        /\ ~decision_result(r.response).isError => r.last \in ran \/ r.kind = "message"
        /\ decision_result(r.response).says \in {"denied", "needs approval"} => r.last \notin ran
    BY <2>2, Zenon DEF HttpRan, McpOk, McpNo
  <2>8. /\ Outcome(r.response).allowed /\ r.kind # "message" =>
              Outcome(r.response).execution \notin {None, Raised}
        /\ Outcome(r.response).escalated =>
              /\ Outcome(r.response).approval_id = r.last
              /\ approval_status(decisions[r.last].agent, r.last).found
        /\ Outcome(r.response).escalated /\ r.first = r.last =>
              decision_result(r.response).approval_id = r.last /\ decisions[r.last].agent = r.agent
    BY <2>2, <2>3, <2>4, <2>5, Zenon
  <2> QED BY <2>3, <2>6, <2>7, <2>8, Zenon
<1> QED BY <1>1, AnswersFollowTheCode, PTL

(* The status of an escalation is true of what has run because of it, at   *)
(* every moment of its handling (handle_approval, annotate_approval,       *)
(* approval_status).                                                       *)
THEOREM StatusIsTrue == Spec => []StatusTellsWhatRan
<1>1. IInv => StatusTellsWhatRan
  <2>1. SUFFICES ASSUME IInv, NEW a \in Agents, NEW id \in DOMAIN decisions,
                        NEW s, s = approval_status(a, id), s.found
        PROVE  /\ s.status = "pending" \/ s.verdict \in {"rejected", "superseded"} =>
                     {i \in ran : decisions[i].parent = id} = {}
               /\ s.result # None =>
                     /\ Final(s.result).execution \in {"succeeded", "says_error"} =>
                           Final(s.result).decision_id \in ran
                     /\ Final(s.result).execution \in {None, "refused"} =>
                           Final(s.result).decision_id \notin ran
    BY Zenon DEF StatusTellsWhatRan, Final
  <2>2. id \in DOMAIN approvals
    <3>1. Unknown.found = FALSE
      BY DEF Unknown
    <3> QED BY <2>1, <3>1, Zenon DEF approval_status
  <2>3. s.status = approvals[id].status /\ s.verdict = approvals[id].verdict
        /\ s.result = approvals[id].result
    <3>1. s # Unknown
      BY <2>1 DEF Unknown
    <3> QED BY <2>1, <3>1 DEF approval_status
  <2>4. Status(id) /\ Types
    BY <2>1, <2>2 DEF IInv, Statuses
  <2>5. ASSUME s.status = "pending" \/ s.verdict \in {"rejected", "superseded"}
        PROVE  {i \in ran : decisions[i].parent = id} = {}
    BY <2>3, <2>4, <2>5 DEF Status, Types, Childless
  <2>6. s.result # None => Truthful(id, s.result)
    BY <2>3, <2>4 DEF Status
  <2> QED BY <2>5, <2>6 DEF Truthful
<1> QED BY <1>1, AnswersFollowTheCode, PTL

(* Deciding changes no approval record.                                    *)
LEMMA DecidingKeepsRecords ==
    ASSUME NEW new, Decide(new), NEW i \in DOMAIN approvals
    PROVE  approvals'[i] = approvals[i]
BY DEF Decide, PutApprovals

(* What an agent has heard of its escalation is never taken back           *)
(* (annotate_approval writes the record back whole).                       *)
THEOREM NothingHeardIsTakenBack == Spec => HeardStaysTrue
<1>1. IInv /\ [Next]_vars =>
         [\A id \in DOMAIN approvals :
             /\ approvals[id].status = "decided" => approvals'[id].status = "decided"
             /\ approvals[id].verdict # None => approvals'[id].verdict = approvals[id].verdict
             /\ approvals[id].result # None => approvals'[id].result = approvals[id].result]_vars
  <2>1. SUFFICES ASSUME IInv, Next, NEW i \in DOMAIN approvals
        PROVE  /\ approvals[i].status = "decided" => approvals'[i].status = "decided"
               /\ approvals[i].verdict # None => approvals'[i].verdict = approvals[i].verdict
               /\ approvals[i].result # None => approvals'[i].result = approvals[i].result
    OBVIOUS
  <2>2. approvals \in [DOMAIN approvals -> Record]
    BY <2>1 DEF IInv, Types
  <2>3. ASSUME NEW a \in Agents, NEW b \in Agents,
               HandleAction(a) \/ HandleMessage(a) \/ HandleDelegation(a, b)
        PROVE  approvals'[i] = approvals[i]
    <3>1. \E new : Decide(new)
      BY <2>3, Zenon DEF HandleAction, HandleMessage, HandleDelegation
    <3> QED BY <3>1, DecidingKeepsRecords
  <2>4. ASSUME NEW t \in Threads, NEW ap \in Approvers, NEW id \in DOMAIN approvals,
               Approve(t, ap, id) \/ Reject(t, ap, id)
        PROVE  /\ approvals[i].status = "decided" => approvals'[i].status = "decided"
               /\ approvals'[i].verdict = approvals[i].verdict
               /\ approvals'[i].result = approvals[i].result
    <3>1. approvals' = [approvals EXCEPT ![id].status = "decided"]
      BY <2>4 DEF Approve, Reject, Takes
    <3> QED BY <2>2, <3>1 DEF Record
  <2>5. ASSUME NEW t \in Threads, AnnotateVerdict(t)
        PROVE  /\ approvals'[i].status = approvals[i].status
               /\ approvals[i].verdict # None => approvals'[i].verdict = approvals[i].verdict
               /\ approvals'[i].result = approvals[i].result
    <3>1. thread[t].at \in {"verdict", "rejected"}
      BY <2>5 DEF AnnotateVerdict
    <3>2. approvals[thread[t].id].verdict = None
      BY <2>1, <3>1 DEF IInv, Workers, Working
    <3>3. PICK id, v : id = thread[t].id /\ approvals' = [approvals EXCEPT ![id].verdict = v]
      BY <2>5 DEF AnnotateVerdict
    <3> QED BY <2>2, <3>2, <3>3 DEF Record
  <2>6. ASSUME NEW t \in Threads, AnnotateResult(t)
        PROVE  /\ approvals'[i].status = approvals[i].status
               /\ approvals'[i].verdict = approvals[i].verdict
               /\ approvals[i].result # None => approvals'[i].result = approvals[i].result
    <3>1. thread[t].at = "annotate"
      BY <2>6 DEF AnnotateResult, Annotate
    <3>2. approvals[thread[t].id].result = None
      BY <2>1, <3>1 DEF IInv, Workers, Working
    <3>3. PICK id, b : id = thread[t].id /\
             approvals' = [approvals EXCEPT ![id] = [approvals[id] EXCEPT !.result = b]]
      BY <2>6 DEF AnnotateResult, Annotate
    <3> QED BY <2>2, <3>2, <3>3 DEF Record
  <2>7. ASSUME NEW t \in Threads, RecordRejection(t) \/ Respond(t) \/ Die(t)
        PROVE  approvals'[i] = approvals[i]
    <3>1. (\E new : Decide(new)) \/ UNCHANGED approvals
      BY <2>7, Zenon DEF RecordRejection, Respond, Die
    <3> QED BY <3>1, DecidingKeepsRecords
  <2> QED BY <2>1, <2>3, <2>4, <2>5, <2>6, <2>7 DEF Next, ThreadStep
<1> QED BY <1>1, AnswersFollowTheCode, PTL DEF Spec, HeardStaysTrue

(* Types: the approvals are the decisions that escalate, what ran was      *)
(* decided, and every body told is a response of the API.                  *)
THEOREM AnswersAreTyped == Spec => []TypeOK
<1>1. IInv => TypeOK
  BY DEF IInv, Types, Replies, Told, TypeOK, Record, Decision
<1> QED BY <1>1, AnswersFollowTheCode, PTL

============================================================================
