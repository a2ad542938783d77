---------------------------- MODULE HarnessLocks ----------------------------
(***************************************************************************)
(* The locks under Harness: every operation as the sequence of acquisitions*)
(* and releases its with-statements perform, for request threads of one or *)
(* more processes.  Where Harness takes a transaction as one step, this    *)
(* module interleaves threads inside it.                                   *)
(*                                                                         *)
(*   "I"  Interceptor._lock, an RLock per process                          *)
(*   "H"  Harness._lock, an RLock per process                              *)
(*   "A"  AuditLog._lock, per process                                      *)
(*   "T"  the store's transaction(): one for all who share the store, and  *)
(*        reentrant (an RLock in memory, a nesting depth around BEGIN      *)
(*        IMMEDIATE or pg_advisory_xact_lock in the SQL stores)            *)
(***************************************************************************)
EXTENDS Naturals, Sequences

CONSTANTS
    Threads,
    process,     \* thread -> the process it belongs to
    operation,   \* thread -> the operation it is running
    BusyTimeout, \* BEGIN IMMEDIATE gives up after 30 s (SQLite); the others wait
    Limit,       \* max_calls of the one capability that everybody uses
    Nobody

VARIABLES
    todo,        \* thread -> instructions left
    holder,      \* lock -> the thread that holds it
    depth,       \* lock -> how many times it has been entered
    seen,        \* thread -> the usage it read
    count        \* the persisted call counter

vars == <<todo, holder, depth, seen, count>>

acquire(l) == [do |-> "acquire", lock |-> l]
release(l) == [do |-> "release", lock |-> l]
read == [do |-> "read", lock |-> "T"]
charge == [do |-> "charge", lock |-> "T"]

(* AuditLog.record *)
audit == <<acquire("A"), release("A")>>

(* Interceptor.record; what is the charge of an allowed decision.          *)
record(what) ==
    <<acquire("I"), acquire("T")>> \o what \o audit \o <<release("T"), release("I")>>

(* Mistake: the usage is read before the transaction begins.               *)
decide_read_first ==
    <<acquire("I"), read, acquire("T")>> \o record(<<charge>>) \o <<release("T"), release("I")>>

(* Interceptor.decide *)
decide ==
    <<acquire("I"), acquire("T"), read>> \o record(<<charge>>) \o <<release("T"), release("I")>>

(* One store call on its own: claim_grant, put_approval, annotate_approval.*)
store_call == <<acquire("T"), release("T")>>

(* Harness._take_approval *)
take == <<acquire("H"), acquire("T"), release("T"), release("H")>>

(* Harness.approve: its transaction, the approval record, the annotation.  *)
approve ==
    <<acquire("H"), acquire("T")>> \o take \o <<read>> \o record(<<charge>>)
        \o <<release("T"), release("H")>> \o audit \o store_call

(* Harness.reject *)
reject == take \o record(<<>>) \o store_call \o audit

(* Executor.execute: the claim, then the tool, then the record.            *)
execute == store_call \o audit

Program ==
    [decide |-> decide \o store_call, approve |-> approve,
     reject |-> reject, execute |-> execute]

----------------------------------------------------------------------------
(* The lock a thread means by a name: its own process's, or the store's.   *)
instance(t, l) == IF l = "T" THEN <<l, "store">> ELSE <<l, process[t]>>

Locks == {instance(t, l) : t \in Threads, l \in {"I", "H", "A", "T"}}

ASSUME Setup ==
    /\ operation \in [Threads -> DOMAIN Program]
    /\ BusyTimeout \in BOOLEAN
    /\ Limit \in Nat
    /\ Nobody \notin Threads

Init ==
    /\ todo = [t \in Threads |-> Program[operation[t]]]
    /\ holder = [l \in Locks |-> Nobody]
    /\ depth = [l \in Locks |-> 0]
    /\ seen = [t \in Threads |-> 0]
    /\ count = 0

Next_is(t, do) == todo[t] # <<>> /\ Head(todo[t]).do = do
Wanted(t) == instance(t, Head(todo[t]).lock)
Advance(t) == todo' = [todo EXCEPT ![t] = Tail(@)]

(* Entering a lock that is free or, being reentrant, already one's own.    *)
Acquire(t) ==
    /\ Next_is(t, "acquire")
    /\ holder[Wanted(t)] \in {Nobody, t}
    /\ holder' = [holder EXCEPT ![Wanted(t)] = t]
    /\ depth' = [depth EXCEPT ![Wanted(t)] = @ + 1]
    /\ Advance(t)
    /\ UNCHANGED <<seen, count>>

Release(t) ==
    /\ Next_is(t, "release")
    /\ depth' = [depth EXCEPT ![Wanted(t)] = @ - 1]
    /\ holder' = [holder EXCEPT ![Wanted(t)] = IF depth[Wanted(t)] = 1 THEN Nobody ELSE t]
    /\ Advance(t)
    /\ UNCHANGED <<seen, count>>

(* usage_for, inside the transaction.                                      *)
Read(t) ==
    /\ Next_is(t, "read")
    /\ seen' = [seen EXCEPT ![t] = count]
    /\ Advance(t)
    /\ UNCHANGED <<holder, depth, count>>

(* add_call, if the usage that was read allows the call.                   *)
Charge(t) ==
    /\ Next_is(t, "charge")
    /\ count' = IF seen[t] < Limit THEN count + 1 ELSE count
    /\ Advance(t)
    /\ UNCHANGED <<holder, depth, seen>>

(* Mistake: the exception leaves the locks held.                           *)
GiveUpHolding(t) ==
    /\ BusyTimeout
    /\ Next_is(t, "acquire") /\ Head(todo[t]).lock = "T"
    /\ holder[Wanted(t)] \notin {Nobody, t}
    /\ todo' = [todo EXCEPT ![t] = <<>>]
    /\ UNCHANGED <<holder, depth, seen, count>>

(* SQLite: "database is locked" while another holds the write lock.  The   *)
(* exception leaves every with-statement on the way out.                   *)
GiveUp(t) ==
    /\ BusyTimeout
    /\ Next_is(t, "acquire") /\ Head(todo[t]).lock = "T"
    /\ holder[Wanted(t)] \notin {Nobody, t}
    /\ todo' = [todo EXCEPT ![t] = <<>>]
    /\ holder' = [l \in Locks |-> IF holder[l] = t THEN Nobody ELSE holder[l]]
    /\ depth' = [l \in Locks |-> IF holder[l] = t THEN 0 ELSE depth[l]]
    /\ UNCHANGED <<seen, count>>

Step(t) == Acquire(t) \/ Release(t) \/ Read(t) \/ Charge(t) \/ GiveUp(t)

AllDone == \A t \in Threads : todo[t] = <<>>

Next == \E t \in Threads : Step(t)

(* The operating system runs every thread that can run, and SQLite's busy  *)
(* handler does give up.                                                   *)
Fairness == \A t \in Threads : WF_vars(Step(t))

Spec == Init /\ [][Next]_vars /\ Fairness

----------------------------------------------------------------------------
(* A lock is held exactly while it has been entered more often than left.  *)
TypeOK ==
    /\ holder \in [Locks -> Threads \cup {Nobody}]
    /\ depth \in [Locks -> Nat]
    /\ \A l \in Locks : holder[l] = Nobody <=> depth[l] = 0
    /\ seen \in [Threads -> Nat]
    /\ count \in Nat

(* The transactions of decide and approve, interleaved with everything     *)
(* else, count calls as if each were a single step (docs/state.md).        *)
Abstract == INSTANCE CallBudget
ImplementsCallBudget == Abstract!Spec

WaitsFor(s, t) ==
    /\ Next_is(s, "acquire")
    /\ holder[Wanted(s)] = t
    /\ s # t

(* No two threads wait for each other: an agent's proposal and an          *)
(* approver's verdict cannot hang the harness (decide, approve).           *)
NoWaitCycle == \A s, t \in Threads : ~(WaitsFor(s, t) /\ WaitsFor(t, s))

(* Every request is answered, whatever else is going on (decide, approve,  *)
(* reject, execute on a shared store).                                     *)
EveryRequestEnds == <>AllDone
============================================================================
