# A TLA+ model of the Capgate harness

Capgate sits between AI agents and their tools. An agent proposes an action; the harness
judges the proposal against the agent's contract, records the decision in a hash-chained
trail, and, if the decision is "allow", mints a signed grant that is good for one tool call.
"Escalate" waits for a human. Agents may also message each other and delegate actions.
Several threads, processes and hosts share one state store.

This directory holds TLA+ modules of that core, TLC configurations that check them on small
instances, and TLAPS proofs. Paths below are relative to the Python package `src/capgate`.

## 1. Inventory

| Component | State it keeps | Operations | Works with | Hard behaviour | What makes it correct |
|---|---|---|---|---|---|
| Policy engine (`policy.py`, `capability.py`, `netaddr.py`) | none | `evaluate`, `check_constraints` | interceptor, `approve` | an order of early returns; re-evaluation later | same verdict as a declarative reading; what is denied stays denied |
| Contracts (`contract.py`, `request.py`) | immutable after load | loading, `problems`, `delegated_action` | policy | none at run time | every agent is bound to at most one contract |
| Harness core (`core.py`) | process lock | `authorize`, `execute`, `send_message`, `receive`, `delegate`, `approve`, `reject` | all below | concurrent approvers, failures between its transactions | an escalation is decided once, by a designated human; delegation never adds authority |
| Interceptor (`interceptor.py`) | process lock | `usage_for`, `decide`, `record`, `reject_before_policy` | store, trail, policy | read-judge-increment against other replicas; lock order | budgets hold; no wait cycle |
| Executor (`executor.py`) | none | `_check`, claim, tool call, record | store, trail | replays, expiry, prune, failed record | a grant runs once, with the audited arguments |
| State stores (`state.py`) | counters, used grants, approvals, mailboxes, revocations, rate buckets | one per table, `transaction`, `prune` | everybody | three backends with different locks and rollback | a transaction is one step |
| Audit trail (`audit.py`) | chain head per process; file or table | `record`, `verify_chain`, restart | everybody | writes that fail late or in part, crashes, edits | an untouched trail verifies; a failure costs at most one acknowledged record |
| Identity (`identity.py`, `workload.py`) | keyring, its stamp; revocations in the store | rotate, retire, reload, issue, verify, revoke | API, command line | rotation and revocation against requests in flight | a revoked token stays out; rotation needs no restart |
| Rate limits (`ratelimit.py`, store) | buckets, LRU order, suppressed counts | `take`, `admit` | API | clocks read before locks, eviction, split transactions | burst + rate bound; every refusal is accounted for once |
| HTTP API (`api.py`) | none of its own | `_gate`, handlers, `approval_status` | all above | several steps between a verdict and its result | what callers are told is what happened |
| MCP gateway (`mcp/gateway.py`) | none | `tools/list`, `tools/call` | API handlers | the shapes of a two-stage result | as for the API; the list shows what may be called |
| MCP upstream (`mcp/upstream.py`) | process, lock, pending waiters, catalogue | `request`, `tools`, `close`, reader thread per process | executor, gateway | late replies, dead processes, readers that outlive a restart | a call is made once, and answered with its own answer or given up |
| Transports (`asgi.py`, `server.py`, `mtlsedge.py`) | a handler per request, the thread pool | read, forward, dispatch, answer | API | stalls, disconnects, timeouts, forged headers, handshakes | whole bodies, true identities, safe refusals, an answer for everyone |
| Tools (`tools.py`) | none | `HttpFetchTool.__call__` | executor | the resolver changes its mind | public addresses only |
| Inspection (`inspect/model.py`) | none | `explain`, `diff`, `audit_view` | policy, trail | a second implementation of what is decided elsewhere | it agrees with the first |
| Client SDK (`sdk/python`) | none | `Outcome` | API | reading three shapes of response | as for the API |
| Simulation, command line, bridge, tool service, deployment | I/O | | | | mostly not modelled; section 8 |

`PROJECT.json` lists the hazards line by line, each with the properties that would catch it.

## 2. Modules

```
Contracts <- Policy <- Harness <- MCHarness
                    <- Views, HttpFetch <- PolicyWalk <- MCPolicy
CallBudget <- HarnessLocks <- MCHarnessLocks       (HarnessLocks implements CallBudget)
RemoteCall <- McpUpstream  <- MCMcpUpstream        (McpUpstream implements RemoteCall)
FrontDoors <- MCFrontDoors     Transport <- MCTransport
AuditChain <- MCAuditChain     Identity <- MCIdentity     Gate <- MCGate

Harness_proofs (of Harness and PolicyWalk), HarnessLocks_proofs, FrontDoors_proofs,
AuditChain_proofs, Identity_proofs, Gate_proofs, Transport_proofs, McpUpstream_proofs
```

A request passes Transport, then Gate and Identity (who asks, how often), then FrontDoors,
which calls the operations of Harness; Harness calls Policy, and its executor may call
McpUpstream or HttpFetch. Each module takes the others' results as they come: any outcome of
`dispatch` in Transport, any decision in FrontDoors, any tool result in Harness.

**Contracts.** The constants: contracts, agents, actions, requests, and the attributes of
arguments that policy looks at. What the loaders accept is the assumption `ContractsLoaded`:
`ValidCapability` and `ValidConstraints` are what they check of a capability, an unknown
constraint is an error.
`problems`, `bindings`, `delegated_action` keep the source's names.

**Policy.** `evaluate`, `evaluate_capability` and `check_constraints` as functions, in the
order of the code's early returns. A URL is absent, unusable, or a host; a host is an IP
literal (public or not) or a sequence of labels, and domain suffix matching is done on labels
(`Spelling` says where labels are needed).

**Harness.** The core module. A step is one store transaction, one audit record or one tool
call: the points at which another thread, a failure or a crash can come in between.

| Action | Code |
|---|---|
| `Propose`, `decide`, `record` | `authorize_request`, `Interceptor.decide`, `Interceptor.record` |
| `RejectBeforePolicy` | `Interceptor.reject_before_policy` |
| `ResultFor` | `Harness._result_for`: put the approval or mint the grant |
| `DelegatedStage` | `Harness._delegated_stage` |
| `CheckGrant`, `ClaimGrant`, `RunTool`, `RecordExecution` | `Executor.execute` and `_check` |
| `Approve`, `RecordApproval`, `Annotate` | `Harness.approve`, `annotate_approval` |
| `RejectTake`, `RejectRecord` | `Harness.reject` (two transactions) |
| `Receive` | `Harness.receive` / `drain_messages` |
| `Crash`, `Prune`, `Tick` | a process dies; `StateStore.prune`; time |

Store variables are `steps, calls, used, approvals, mailbox`; trail variables are `audited,
executions, verdicts`; `ids, decisions, minted, ran, received` are history, what happened in
the world. `record` has a failing branch (the audit write or the commit fails): with a durable
store everything is undone, with `MemoryStateStore` (`Durable = FALSE`) what was written stays.

**HarnessLocks.** Each operation as its sequence of acquisitions and releases of the four
locks (interceptor, harness, audit log, store transaction), interleaved inside transactions.
It justifies taking a transaction as one step in `Harness`, by implementing **CallBudget**,
whose only step is an atomic "one more call, if the limit allows".

**AuditChain.** The trail as lines, each with sequence, previous hash, hash and whether it is
whole; each process's own idea of the head; failures, crashes, restarts, edits from outside.
`medium` is a file or a table. A hash stands for the content it commits to. A write to a file may
be cut in the middle of the line, which then does not parse, or just before its newline, which
leaves a line that parses and verifies, so that a restart resumes from it (`CutShort`). `unended`
says that the file's last line lacks its newline: what is appended next becomes part of that line,
the two no longer parse, and its newline ends them.

**Identity.** The keyring file with its stamp, what each server has loaded, tokens,
verification in five steps (stat, reload, look up, ask the store, answer), revocation, prune.
`LoadKeyring` and `TakeStamp` are the two halves of `TokenAuthority.__init__`.

**Gate.** `HarnessAPI._gate`: the client's bucket, the principal's bucket, the sampler of
audit records for refusals, for three backends. The clock is read before the bucket's lock, as
in the code; in PostgreSQL the row lock and the upsert are separate steps. Tokens are counted
in units so that rates below one per tick stay exact. Asking the sampler about a refusal takes
three steps: its bucket; the count, which `Suppress` adds to and `Admit` pops; and the audit record
(`Report`). `AccountFails` is the exception that ends the request before the last: the audit write
raises after the count was popped, or the shared store fails. Each refusal has a number, so that it
can be followed; `refusals`, `reported` and `lost` are history.

In a shared bucket `rewound` and `overwritten` are history: by how much writes set its time
back, and how many writes did not see the row they replaced.

**McpUpstream.** Callers (executor threads and the gateway's listings) take the client's lock,
start a process if none runs, register a waiter, write, and wait with a timeout. Each process
has a reader thread; taking a waiter out of `pending` and putting the reply are two steps, and
the put blocks on a full queue. Pipes hold a few messages; the server (external) reads,
performs, answers, speaks unasked, exits. **RemoteCall** says what a client can promise
without asking twice; the mapping hides the lock, the processes, and the pipes.

| Action | Code |
|---|---|
| `Begin`, `Acquire` | `call_tool` / `tools`, `request`'s lock |
| `EnsureRunning`, `Launch`, `LaunchFails`, `SendInitialized` | `_ensure` |
| `Register`, `Send`, `Get`, `TimeOut` | `_request_locked`, `_send` |
| `StoreTools`, `Close` | the end of `tools`, `close` |
| `Skip`, `Refuse`, `TakeWaiter`, `EndOfPipe`, `Put`, `Leave` | `_reader` |

**FrontDoors.** What callers are told. `respond`, `respond_delegation`, `respond_message`,
`approval_status` are the API's response shapes, `Outcome` is how the SDK reads them and
`decision_result` what the MCP gateway makes of them. Agents propose; approvers go through
`handle_approval` step by step (`Approve` or `Reject` and `RecordRejection`,
`AnnotateVerdict`, `Respond`, `AnnotateResult`), and any of these steps may be the last
(`Die`). A plain body has its action's name under `action`, where a delegation's has a payload:
an accessor of `Outcome` that looks into the name gives `Raised`, as the code raises. An execution
succeeds, fails before or after its effect, is refused, or returns an
upstream result that says it is an error.

**Transport.** One request per client, through the ASGI app, the stdlib server, or that server
with TLS, directly or through the edge. A body is counted in pieces; what a client declares
and what it sends are independent. The edge's handler and the server's are two processes with
a connection between them, so that one may give up while the other goes on. `Accept`, `Greet`
and `GreetingBreaks` model that a wrapped listening socket shakes hands inside `accept`.

**Views.** `_tools_list`, `explain` and `diff`, over the same contracts that `evaluate` reads;
`Edited` is the policy over edited contracts, for what a diff should have announced.
**HttpFetch.** From URL to connected address, with the defaults of `HttpFetchTool`
(`allow_private` false, a set of allowed ports).
**PolicyWalk.** These three are pure. PolicyWalk asks them one question after another, while
calls and steps are spent, time passes and an edit is compared, and states their properties;
`MCPolicy` gives the vocabulary of questions.

`AuditChain` also has the audit browser: `audit_view` takes `view_line` from line to line.

An operator introduced by "Mistake:" is a deliberately wrong variant of the definition after
it. It is never used by the model; substituting it must make the corresponding property fail.

## 3. Runs

Passing runs:

| Run | Bounds | Question |
|---|---|---|
| `policy` | 14 argument shapes, 9 actions, 3 agents, counters to 2, time to 3, 7 edits of the contracts, 2 answers of the resolver | Does the ladder of early returns agree with the documented constraints, does authority only shrink, do the views show it, does a fetch stay public? |
| `grants` | 2 threads of 2 replicas, 3 decisions, time 0-3, TTL 1, grace 1, 2 failures | Do grants run once, as audited, within `max_calls` and `max_steps`? |
| `verdicts` | 2 threads, 4 decisions, time 0-1, 1 failure | Are escalations and both stages of a delegation kept, decided once, by a designated human, finally, within `max_calls`? Are messages delivered once? |
| `locks_sqlite` | 5 threads of 2 processes, limit 1 | Does the counter behave as `CallBudget` although threads interleave inside transactions, and does every request end? |
| `audit_trail` | 1 process on a file, 2 on one stream, 7 records, 3 failures, 2 edits | Does an untouched trail verify, lose at most one acknowledged record per failure, stay broken once broken, and does the browser agree? |
| `identity_tokens` | 2 threads on a running server, 1 on a starting one, 2 keys, 1 token, 1 workload, lifetimes to 2, revocable to 1, time 0-3 | Do rotation and revocation reach requests in flight? |
| `gate_limits` | 2 threads, 2 clients, 1 principal, 4 requests, 1 failure, time 0-1, table of 1 key, 3 backends | Do the limiters keep their bounds, and is every refusal told of once, counted, or lost to an eviction or a failure? |
| `mcp_calls` | 1 call, 1 listing, 3 processes of which 2 die, 1 line unasked, a pipe of 1 message | Does a call behave as `RemoteCall` says, and can a reader block for good? |
| `doors_replies` | 2 agents, 2 approvers, 2 threads, 2 proposals, 5 decisions, 1 failure | Is what agents hear true, and do they hear of the verdict? |
| `transport_requests` | a client that may do anything, an honest one, `MAX_BODY` 2 pieces, a pool of 1 thread, 3 servers | Does the API see only whole bodies of clients it can name, and is everyone answered? |

Violations, each a disagreement between the code and what the repository says (section 7):
`locks_deadlock`, `audit_torn`.

**Why the bounds are enough.** Two threads show every pairwise race, and the races of this
code are pairwise (two claims, two verdicts, two reloads). Three decisions in `grants` allow
two competing proposals for a `max_calls` of 1 and one more for the steps. Four in `verdicts`
are the longest chain: delegation escalated, approved, second stage escalated, approved; or
two escalations that compete for one call. Time 3 with TTL 1 and grace 1 passes expiry and
prune. A table of one key evicts at once. In `gate_limits` a first
refusal takes the sampler's token, a second is counted, a third, a tick later, reports the count,
and a fourth is refused meanwhile. Five decisions in `doors_replies` are a delegation
escalated in both stages with both verdicts, or two escalations decided at once. In
`mcp_calls` a second process can be replaced while the first one's reader has yet to see its
end, and a pipe of one message blocks a writer. In `transport_requests` lengths are zero, one,
at and one over the limit, and with a pool of one every second request waits. `MaxIds`,
`MaxTime`, `MaxFaults`, `MaxHashes`, `MaxEdits`, `MaxKeys` (of Identity), `MaxTokens`, `MaxRequests`, `MaxDeaths`, `MaxAsides`,
`MaxProposals`, `MaxDecisions`, `MaxUse` and `MaxMoment` exist only to bound the search.

**Symmetry** is used for threads and clients, which no definition tells apart, and only in
runs without liveness properties.

**Deadlock.** The configurations say `CHECK_DEADLOCK FALSE` because a bounded run ends when
all requests are served. Hanging is asked for explicitly, by `EveryRequestEnds`,
`NoWaitCycle`, `ImplementsRemoteCall`, `VerdictIsReported` and `EveryClientIsAnswered`.

**Fairness** is weak fairness of threads, and nothing else: the operating system runs every
runnable thread, and a thread blocked on a lock, a full queue or a full pipe is not enabled.

- `HarnessLocks`: every thread. With SQLite a waiting `BEGIN IMMEDIATE` gives up after its 30 s
  busy timeout, which is a step of the waiting thread.
- `McpUpstream`: every caller and every reader; the timeout of `waiter.get` is a caller's step.
  Of the server it is assumed only that it reads its input while it lives.
- `FrontDoors`: a thread in `handle_approval` goes on, unless it dies. This presumes that it gets
  the locks it waits for, as with SQLite; `locks_deadlock` is where it does not.
- `Transport`: every handler, with its timeouts; `dispatch` returns, which is what `locks_sqlite`
  and `mcp_calls` show under their assumptions (section 7 has the exceptions). Clients owe nothing.

**Environment assumptions.** `ClaimsArePrompt` (Harness) and `VerifyIsPrompt` (Identity): no
thread rests between reading the clock and asking the store for as long as prune's grace,
which is an hour. Nothing in the repository calls `prune`; it is modelled as an operator's
call at any time.

## 4. Properties

- `AtMostOnce`, `ExecutedAsAudited`: the executor, against replays, expiry, prune, crashes.
- `WithinBudget`: what was really executed, not the counters, is within `max_calls` and `max_steps`.
- `EscalatedNeedsHuman`, `DecidedOnce`, `DecisionsAreFinal`, `TakeNotLost`: approvals.
- `EscalationsHeld`: an escalation that nobody can approve is the work of a failure, which strands
  at most as many as a replica has threads.
  `SupersededOnlyBySpending`: an approval is superseded because calls, steps or time were spent
  since, or because the escalation took the contract's last step.
- `DelegationTraced`, `MessagesAuthorized`: authority between agents.
- `ImplementsCallBudget`, `EveryRequestEnds`, `NoWaitCycle`: locking.
- `VerifiesUnlessTouched`, `ChainVouchesForPrefix`, `BreaksStayVisible`, `BrowserAgrees`: the trail.
  "Touched" means edited, or with a line that does not parse, on which the code refuses to start.
  Of a file, `VerifiesUnlessTouched` is checked with one process and without writes that raise
  late; section 7 has what they do.
- `FailuresCostOneRecord`: until it is edited, a file has lost at most one acknowledged record per
  failed write or crash, and a table none. `AcknowledgedIsStored`, that none is ever lost, is what
  the code says of itself; it is the property of `audit_torn`, which violates it.
- `RotationNeedsNoRestart`, `RevokedStaysOut`: credentials. That every accepted token can be revoked
  is not a property: it is false (section 7), and with the false cases excluded it is the
  condition of `revoke` itself.
- `RefusalsAccounted`: each refusal is told of by one audit record, stands in the count for the next
  one, or is in one thread's hands, and in no two of these; evicted counts, failed audit writes and
  failures of a shared store lose the rest.
- `RateBound`: limits. In process a residence in the
  table admits burst + rate x time. A shared bucket admits that, plus the time it was set back,
  plus one burst for every write that did not see the row it replaced; both terms are needed.
- `ImplementsRemoteCall`, `BlockedOnlyByOutlived`: the MCP upstream. A lock that is never given
  back, by a call or a listing, keeps the next call from ending and so violates the first.
- `RepliesTellWhatRan`, `StatusTellsWhatRan`, `HeardStaysTrue`, `VerdictIsReported`: what callers
  are told. The first also says which accessors of the SDK can be read: the decision of every
  answer that has one, the reason of a call that was stopped, the execution of an action or
  delegation that was let through, the approval_id of one that waits, for either stage. It excepts
  a failed delivery of a message, the execution of a message, and the gateway's approval_id of the
  recipient's stage.
- `WholeBodiesOnly`, `IdentityIsThePeers`, `RefusedWasNotSeen`, `EveryClientIsAnswered`: transports.
- `EvaluateAgrees`, `AuthorityOnlyShrinks`: policy. `ViewsBoundDecisions`,
  `DiffShowsEveryChange`: what is shown of it. `FetchStaysPublic`: the fetch tool.

`TypeOK` of `Harness` is checked and proved; those of `Identity`, `FrontDoors`, `HarnessLocks` and
`AuditChain` are proved, the last two within `IInv` and `CInv`. Those of the other modules
document the shape of their variables.

## 5. Proofs

`tlapm` checks the eight `*_proofs.tla` to the last leaf. All constants are arbitrary: any
contracts, agents, threads, replicas, requests, time limits, rates, body limits, numbers of
processes, keys, tokens and failures, either kind of store, simulating or not. What is assumed
of them are the modules' own assumptions (`ContractsLoaded`, `Vocabulary`, `NoneIsNoReason`,
`Spelling`, `EditsLoad`, `Deployment`, `Trails`, `Setup` of Identity, of Gate and of
HarnessLocks, `Setting`, `Offered`, `Pipes`), which the runs evaluate, and the two environment assumptions of section 3, which are guards of `Tick`. All that
is assumed of model values such as `None` is that they are none of the values they stand beside.

| Module | Theorem | Statement |
|---|---|---|
| Policy | `DenialsLast` | a request that policy denies is denied with more spent and later in time |
| PolicyWalk | `PolicyIsTheTable` | `[]EvaluateAgrees` |
| | `ViewsAreBounds`, `ChangesAreShown` | `[]ViewsBoundDecisions`, `[]DiffShowsEveryChange` |
| | `FetchesStayPublic`, `AuthorityShrinks` | `[]FetchStaysPublic`; `AuthorityOnlyShrinks` (an action property) |
| Harness | `HarnessTypes`, `HarnessInvariant` | `[](TypeOK /\ Holding)`, `[]IInv` |
| | `GrantsRunOnce`, `EscalationsDecidedOnce` | `[]AtMostOnce`, `[]DecidedOnce` |
| | `HarnessAuthority`, `HarnessTraces` | `[]AInv`, `[]TInv` |
| | `ToolsRunAsAudited`, `EscalationsNeedAHuman` | `[]ExecutedAsAudited`, `[]EscalatedNeedsHuman` |
| | `DelegationsAreTraced`, `MessagesAreAuthorized` | `[]DelegationTraced`, `[]MessagesAuthorized` |
| | `VerdictsAreFinal` | `DecisionsAreFinal` (an action property) |
| | `BudgetsHold`, `OnlyFailuresStrand` | `[]WithinBudget`, `[]EscalationsHeld` |
| | `TakesAreNotLost`, `OnlySpendingSupersedes` | `TakeNotLost` and `SupersededOnlyBySpending`, if `Durable` |
| HarnessLocks | `LocksFollowTheCode`, `LocksAreLeft` | `[]IInv`, `[]NoLockLeaks` |
| | `TransactionsAreSteps` | `ImplementsCallBudget` (a refinement) |
| | `OnlyApprovalsCross` | `[](WaitsUpward /\ NoWaitCycle)`, if `Apart` |
| FrontDoors | `AnswersFollowTheCode`, `AnswersAreTyped` | `[]IInv`, `[]TypeOK` |
| | `AgentsAreToldWhatRan`, `StatusIsTrue` | `[]RepliesTellWhatRan`, `[]StatusTellsWhatRan` |
| | `NothingHeardIsTakenBack` | `HeardStaysTrue` (an action property) |
| AuditChain | `TrailHeads`, `ChainVouches` | `[]CInv`, `[]ChainVouchesForPrefix` |
| | `BrowserIsRight` | `[]BrowserAgrees` |
| | `BreaksShow` | `BreaksStayVisible` (an action property) |
| | `FailuresCostLittle` | `[]FailuresCostOneRecord` |
| | `TrailKept`, `TrailVerifies` | `KInv` and `VerifiesUnlessTouched`, if `Reliable` |
| Identity | `KeyringsAreCurrent`, `IdentityTypes` | `[]KeysInv`, `[]TypeOK` |
| | `RotationIsSeen` | `RotationNeedsNoRestart` (an action property) |
| | `RevocationHolds` | `[]RevokedStaysOut` |
| Gate | `GateHolds`, `RatesHold`, `RefusalsLeaveTraces` | `[]GateInv`, `[]RateBound`, `[]RefusalsAccounted` |
| Transport | `RequestsAreTracked` | `[]TrInv` |
| | `BodiesAreWhole`, `IdentitiesAreThePeers`, `RefusalsAreSafe` | `[]WholeBodiesOnly`, `[]IdentityIsThePeers`, `[]RefusedWasNotSeen` |
| McpUpstream | `CallsInOrder`, `ReadersDoNotBlock` | `[]CallInv`, `[]BlockedOnlyByOutlived` |
| | `CallsAreRemoteCalls` | `Spec => Remote!Init /\ [][Remote!Next]_(Remote!vars)` |

**Hypotheses.** Some properties hold only where the code's own promise does, and section 7 has
what happens elsewhere. `Durable`: the store rolls back. `Reliable`: a trail in a file is
appended to by one process, and no write to it raises after it has taken effect; of a table
nothing is asked. The passing runs satisfy these two. `Apart`: no process serves an
approval beside a proposal or a rejection; `locks_deadlock` is what happens where one does.

**Policy.** `Reaches` is what `evaluate` asks before it looks at a capability, `Grants` what it asks
of the capability: two lemmas reduce the ladder of early returns to them (`EvaluateReaches`,
`CapabilityDecides`). `ConstraintsAgree` and `EndsWithLabels` show that the checks in their order
say what the documented constraints say, domain suffixes label by label. For a diff,
`EditedCapability` and `EditedReaches` carry both lemmas over to the edited contracts, and
`GrantChangesMean` says that a grant it does not list is the same grant in both.

**Harness.** None of the twelve safety properties is inductive. The invariant comes in layers, and
each layer's proof uses the ones before it. Layers 1 to 3 are `IInv`.

1. `TypeOK` and `Holding`: a thread past its first step works on a committed decision;
   approvals and grants exist only for committed decisions; ids not handed out are unused.
   Five actions write a decision; `RecordStep` is the shape they share, and one lemma per
   layer treats them together.
2. `Private`: until `_result_for`, a decision is known to one thread, has no grant and no
   approval, so a grant is minted once. `OneClaim`: a thread about to call the tool is alone,
   its grant is claimed and nothing ran under it; what ran is claimed or too old to be
   claimed. The last disjunct is why prune is harmless, and where `ClaimsArePrompt` is used.
3. `OneVerdict`: an escalation with a successor is no longer pending and no thread is about to
   reject it; a thread about to reject holds a decided approval. `DecidedOnce` follows.
4. `Warranted`, `Consented`, `Granted` (`AInv`): what is decided is audited; what is not denied
   is within the capability; an approver's name is on an allowed decision only if it
   repeats an escalation which that approver, whom the contract designates, took; only allowed
   decisions are granted and only what was granted runs.
5. `Traced`, `Delivered` (`TInv`): a decision on somebody's behalf goes back to an allowed
   delegation, also through an approval of either stage; a message is in one place, and there
   by its sender's executed call.
6. `Unannotated`: whoever is about to write a verdict finds none. So verdicts are final.
7. `Charged`: the allowed decisions on an action are at most its counter and the counter at most
   `max_calls`; the decisions that a step paid for are at most the contract's steps and at most
   `max_steps`. Each execution is an allowed decision, and each approved one goes back to an
   escalation that paid, a different one each: a cardinality argument, which needs layer 3.
8. `Accounted`: steps are counted only for decisions of the contract's agents, and an escalation
   whose action has no call left has had one of them since. For `EscalationsHeld`, a stranded
   escalation is charged to the failure that ended its thread.

`EscalationsHeld` used to say "one escalation per failure". The proof attempt showed that this
depends on the deployment: a crash ends every thread of a replica, and each may be
between the commit of an escalation and `put_approval`. It now says n per failure for n threads on a
replica. In the run each replica has one thread, so that it checks what it checked before.

**HarnessLocks.** `IInv`: what a thread has left to do is the rest of its operation's listing
(`Positions`); it is inside exactly the with-statements its position says (`Held`, by a table of
how often each operation is inside each lock), and locks are used by the threads of their process
(`Own`); what it has read is the counter's value until it charges (`Fresh`, since nobody else can
be inside the transaction). So a charge is a step of `CallBudget`, and every other step a stutter.
`OnlyApprovalsCross` gives the locks levels, with the interceptor's above the transaction in a
process that serves approvals and below it elsewhere: whoever waits holds only lower ones. That
rules out circles of any length; `NoWaitCycle` is the case of two.

**FrontDoors.** `IInv`: an approval that is pending has no verdict, no result and no successor; one
that is being decided has one thread, and the thread's decision is its only successor and has not
run before the thread responds (`Workers`); verdicts and results say what their decision became
(`Statuses`), and so do the replies (`Replies`), which a later step never makes untrue, because a
decision runs only in the step that answers for it. `Reads` is what the SDK finds in each of them,
and where it raises.

**AuditChain.** `CInv`: what a process takes for the head is the end of the chain it verified and
extended, and two whole lines with one hash are one line. From equal hashes at the end and
equal lengths, equality of the trails follows line by line backwards. `KInv` adds that, until
somebody edits it or a line of it is spoilt, the trail verifies and a running process knows a
beginning of it, on a file all of it. `LInv` counts: the records lost so far, and one more if the
last line lacks its newline, are at most the failures. Such a line was not acknowledged itself, and
the record that is glued to it ends it. `BrowserIsRight` needs an induction along the
trail; it is done with the least line after which the browser's pass would have found something
wrong (`PassFinds`), as is the existence of the recursive function itself (`PassExists`).

**Identity.** `KeysInv`: a server's keyring is the file as it was no earlier than its stamp says,
key ids only grow, and what a verification saw of the file at its start is not newer than
what its server holds when it looks the key up, although other threads reload in between.
`RevInv`: the store remembers a revocation for as long as the token can be accepted.

**Gate.** `GateInv` has a potential: what a bucket let through, plus what is left in it, less
what the rate has added up to its time stamp, does not grow, except by an eviction (in process), a
write that did not see the row it replaced, or a time set back (shared). It needs to know
that a selected row is locked and still as it was seen; only its absence may be out of date.
`Accounts` says for each key where its refusals are, in disjoint parts: most steps leave it alone
(`AccountQuiet`), a refusal adds the next number (`AccountRefused`), the sampler's steps move numbers
from one part to another (`AccountSampler`).

**Transport.** `TrInv` relates, for each client, what was sent, what the edge and the server have
read, where the request is, what was dispatched and what was answered.

**McpUpstream.** `CallInv`: one caller holds the lock from `_ensure` to the end of its request;
the request of a call is in one place at a time (pipe, server, performed); whatever is said
under an id, in the pipes, by a reader or in a waiter, is of the caller that waits under it,
and says "done" only of what was performed. With it every step of the client is a step of
`RemoteCall` or a stutter. `WaitInv` adds, as long as no reader has outlived its process's
replacement: the ids that successive processes speak of ascend, those of a replaced process are
below all that anyone waits for now, and the waiters of a reader are empty.

Each layer and invariant was checked with TLC on a small instance before it was proved.

Three proofs made the model say more than it did: that an unknown constraint does not load
(`ValidConstraints`), that an empty domain matches no host (`Under`), and that `None` is none of
the verdicts (`Setting`).

**Only model-checked.**

- `EveryRequestEnds`, `VerdictIsReported`, `EveryClientIsAnswered` and the fairness of
  `ImplementsRemoteCall`: liveness needs `ENABLED`, which is outside what this prover does.
- That Gate's list of recently used keys is no longer than its table.
- `NoWaitCycle` without `Apart`, and `AcknowledgedIsStored`: these fail (section 7), and the runs
  show how.

## 6. Plan

1. *Done*: Contracts, Policy, Harness, HarnessLocks with CallBudget, AuditChain, Identity,
   Gate; `DenialsLast`, `AtMostOnce`, `DecidedOnce`.
2. *Done*: McpUpstream with RemoteCall, FrontDoors, Transport, Views, HttpFetch; the audit
   browser; the bound of shared buckets.
3. *Done*: every safety and action property of Harness, AuditChain, Identity, Gate, Transport
   and McpUpstream, and the safety part of the refinement of RemoteCall.
4. *Done*: the properties of FrontDoors and PolicyWalk, the audit browser, that HarnessLocks
   implements CallBudget, and when the locks are free of cycles. Every safety and action property
   that a passing run checks is now a theorem.

## 7. Where code and documentation disagree

Shown by a run:

- `locks_deadlock`: `decide` takes the interceptor lock, then the store; `approve` the store,
  then the interceptor lock. With the in-memory store or PostgreSQL both wait for ever. SQLite
  gives up after 30 s (`locks_sqlite`). `reject`, in its second transaction, takes them in
  `decide`'s order. There is no other crossing: `OnlyApprovalsCross`.
- `audit_torn`: a write cut short leaves half a line; the next record, acknowledged, is glued
  to it and cannot be read back. The same happens without any exception when a process dies just
  before the newline: the line parses (`audit.py:127`), the restart verifies it and resumes
  (`audit.py:46`), and its first record is glued on. The restart after that refuses to start.

Other disagreements. The passing runs are set up around these: the property is qualified, or
the constant named is chosen, so that it holds.

Harness and store:

- `approve` (`core.py:323`) judges the request with a step count that includes the escalation's
  own step, so an escalation on the last step can never be approved, although `docs/state.md:36`
  gives the re-check's purpose as not pushing past what was spent after the escalation
  (`SupersededOnlyBySpending` without its last disjunct).
- `revoke` (`identity.py:216`) verifies the token first, without a workload and with the command's
  own limit on lifetimes. So a token that is bound to a workload cannot be revoked, nor one that
  lives longer than the default hour (`cli.py:380`) where the servers' `max_ttl_seconds`
  (`cli.py:209`) lets it, although `identity.py:14` says tokens are revocable until they expire
  (`CanRevoke`; the run has both kinds of token).
- The sampler pops the count of suppressed refusals (`ratelimit.py:95`, `rate_admit`) before
  `_gate` or `_limited` writes the audit record that tells of them (`api.py:151`, `api.py:166`).
  If that write fails, nothing puts the count back, although `ratelimit.py:13` says evidence of a
  flood is kept (`RefusalsAccounted` without `lost`).
- `_bucket_step` (`state.py:33`) stores the time it was given, so a take that read the clock
  earlier and comes later sets the bucket back and the interval is credited twice; and
  PostgreSQL's `FOR UPDATE` locks nothing before a key's first row exists. `docs/state.md:62`
  says the limits hold across the whole fleet (`RateBound` without its excess terms).
- `MemoryStateStore` does not undo a failed transaction, so `TakeNotLost` fails with
  `Durable = FALSE`, although `core.py:319` says the take cannot be lost.
- A tool runs before its execution record is written, so a failed write leaves an execution
  without record, although `api.py:77` says nothing was executed without one
  (`RunTool`, then the failing branch of `RecordExecution`).
- If `fsync` fails after the line is in the file, the next record repeats its sequence number
  and the trail no longer verifies (`"file" \in LateFailure`).
- Two processes appending to one audit file fork the chain (`Sharing.file` of two processes).
- After a lost acknowledgement of an `INSERT` every later append of that process conflicts
  until it restarts (`Conflict`).
- A keyring rotated between the load and the stat of a starting server goes unnoticed until
  the next change (`RotationNeedsNoRestart` without its exception for `Starting`).

What callers are told:

- Over MCP, the recipient's stage of a delegation that needs approval gives no `approval_id`
  (`mcp/gateway.py:202` looks at the first stage only), although HTTP does; whoever delegated gets
  404 for its status anyway. `docs/mcp.md:26` promises an id (`RepliesTellWhatRan` without
  `r.first = r.last` before its last line).
- A plain body has the action's name under `action` (`decision.py:99`), where the SDK's `Outcome`
  looks for the payload of a second stage. So `execution` of a denial, an escalation or a message,
  `approval_id` of a call that does not wait, and `reason_code` of a call that was allowed raise
  `AttributeError`, although lines 43, 49 and 54 of the SDK declare `| None` and its docstring
  reads `outcome.execution` of anything that was allowed (`RepliesTellWhatRan` without
  `r.kind # "message"`).
- `send_message` (`core.py:253`) drops the result of the execution, so a delivery that failed is
  answered 200 and "delivered" (`RepliesTellWhatRan` without its exception for messages).
- Of a delegation that is denied at the sender the gateway's `_meta` has no decision: `final` is
  the envelope. A grant that the executor refuses (502) is worded as denied.
- A thread of `handle_approval` that raises after the take leaves the approval decided without
  verdict or result, and the agent asks for ever (`VerdictIsReported` without `abandoned`).
- `diff` does not show that an agent moved to another contract or was added without grants
  (`DiffShowsEveryChange` without `bindings`), and calls a grant "narrowed" when its effect is
  lowered while its constraints are relaxed; `docs/inspect.md:25` says it classifies each change.

MCP upstream:

- At the end of its pipe a reader tells every waiter that is pending now, though another
  process may have been started since: a request to the new process fails, and the new reader
  may block for good on the full waiter (`BlockedOnlyByOutlived` without `outlived`).
- `_ensure` keeps a process whose `initialize` failed; the next request goes to it
  uninitialised. A reader refuses a server's request on whatever process is the present one.
- The write to the pipe is made with the lock held and no timeout: a server that lives and
  stops reading holds every caller (`ImplementsRemoteCall` without fairness of `ServerRead`).

Transports:

- A handshake runs inside `accept`, where no timeout is set: one client that does not finish it
  holds the listener of the edge or of the stdlib server with TLS, although `server.py:171` says
  stalled clients cannot hold a thread (`EveryClientIsAnswered` without its premise).
- The edge keeps headers in a dict, so a header repeated in the same letters goes on once, where
  `asgi.py:101` would refuse it.
- The edge turns an `OSError` of its connection into 502 (`mtlsedge.py:137`).
  `http.client.HTTPException`, which a reply cut off by the harness raises, is none: the client's
  connection then ends without an answer. The model has replies that come whole, late or not at all.
- The fetch tool takes port 0 for "no port given" (`port_of`).

## 8. Not modelled

- Cryptography: a grant or token that the harness did not issue does not verify, and equal
  hashes mean equal records.
- YAML loading, argument parsing, URL and IP parsing, SPIFFE and certificate parsing.
- Refusals that leave only their own audit record (a grant that does not verify, an approval
  that is not pending): stuttering steps of `Harness`.
- The echo stream of the trail (it may fail after the head has moved), the queries of the
  command line and the browser's filters: they read.
- Connections to the stores, and schema creation.
- Loss of what the file system had not written when the whole machine stops, and the counts and
  buckets in memory that end with their process.
- The pages of an upstream listing: the loop of `tools` (`mcp/upstream.py:122-129`) is one request.
- The 400 for a Content-Length that is not a number (`asgi.py:108`), which reads nothing.
- `rate_admit` with a rate of zero, which divides by zero.
- JSON and JSON-RPC parsing, routing, tool descriptions, the stdio bridge (`mcp/bridge.py`), and
  the listing of pending approvals.
- uvicorn, its `limit_concurrency`, and starting and stopping a server.
- The simulation (a driver of `Harness` with `Simulate = TRUE`), the inspection server and its
  pages, the tool service, the demo, the deployment files: no state that the modelled parts share.
