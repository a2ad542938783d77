------------------------- MODULE HarnessLocks_proofs -------------------------
(***************************************************************************)
(* The locks of the harness, for any number of threads, processes and      *)
(* operations in progress: who is inside which with-statement, and that    *)
(* the transactions of decide and approve count calls as one step each.    *)
(***************************************************************************)
EXTENDS HarnessLocks, TLAPS

Names == {"I", "H", "A", "T"}
Instruction == [do : {"acquire", "release", "read", "charge"}, lock : Names]

(* How often an operation is inside each lock after 0, 1, ... instructions.*)
Entered ==
    [decide  |-> [I |-> <<0, 1, 1, 1, 2, 2, 2, 2, 2, 2, 1, 1, 0, 0, 0>>,
                  H |-> <<0, 0, 0, 0, 0, 0, 0, 0, 0, 0, 0, 0, 0, 0, 0>>,
                  A |-> <<0, 0, 0, 0, 0, 0, 0, 1, 0, 0, 0, 0, 0, 0, 0>>,
                  T |-> <<0, 0, 1, 1, 1, 2, 2, 2, 2, 1, 1, 0, 0, 1, 0>>],
     approve |-> [I |-> <<0, 0, 0, 0, 0, 0, 0, 0, 1, 1, 1, 1, 1, 1, 0, 0, 0, 0, 0, 0, 0>>,
                  H |-> <<0, 1, 1, 2, 2, 2, 1, 1, 1, 1, 1, 1, 1, 1, 1, 1, 0, 0, 0, 0, 0>>,
                  A |-> <<0, 0, 0, 0, 0, 0, 0, 0, 0, 0, 0, 1, 0, 0, 0, 0, 0, 1, 0, 0, 0>>,
                  T |-> <<0, 0, 1, 1, 2, 1, 1, 1, 1, 2, 2, 2, 2, 1, 1, 0, 0, 0, 0, 1, 0>>],
     reject  |-> [I |-> <<0, 0, 0, 0, 0, 1, 1, 1, 1, 1, 0, 0, 0, 0, 0>>,
                  H |-> <<0, 1, 1, 1, 0, 0, 0, 0, 0, 0, 0, 0, 0, 0, 0>>,
                  A |-> <<0, 0, 0, 0, 0, 0, 0, 1, 0, 0, 0, 0, 0, 1, 0>>,
                  T |-> <<0, 0, 1, 0, 0, 0, 1, 1, 1, 0, 0, 1, 0, 0, 0>>],
     execute |-> [I |-> <<0, 0, 0, 0, 0>>, H |-> <<0, 0, 0, 0, 0>>,
                  A |-> <<0, 0, 0, 1, 0>>, T |-> <<0, 1, 0, 0, 0>>]]

(* Where an operation has read the usage and not charged yet.              *)
Owes(op, k) == (op = "decide" /\ k \in 3 .. 5) \/ (op = "approve" /\ k \in 7 .. 9)

Steps(t) == Program[operation[t]]
Done(t) == Len(Steps(t)) - Len(todo[t])
Inside(t, l) == Entered[operation[t]][l][Done(t) + 1]

(* What is left to do is the rest of the operation.                        *)
Positions ==
    /\ todo \in [Threads -> Seq(Instruction)]
    /\ \A t \in Threads :
          /\ Len(todo[t]) <= Len(Steps(t))
          /\ \A i \in 1 .. Len(todo[t]) : todo[t][i] = Steps(t)[Done(t) + i]

(* A thread holds the locks of the with-statements it is inside, and no    *)
(* others.                                                                 *)
Held ==
    \A t \in Threads, l \in Names :
       IF Inside(t, l) > 0
       THEN holder[instance(t, l)] = t /\ depth[instance(t, l)] = Inside(t, l)
       ELSE holder[instance(t, l)] # t

(* What a thread has read is the counter's value until it charges.         *)
Fresh == \A t \in Threads : Owes(operation[t], Done(t)) => seen[t] = count

(* A thread uses the locks of its own process, and the store's.            *)
Own == \A k \in Locks : holder[k] # Nobody => \E l \in Names : k = instance(holder[k], l)

IInv == TypeOK /\ Positions /\ Held /\ Fresh /\ Own

----------------------------------------------------------------------------
(* The operations                                                          *)

(* The operations, instruction by instruction.                             *)
Listing ==
    [decide  |-> <<acquire("I"), acquire("T"), read, acquire("I"), acquire("T"), charge,
                  acquire("A"), release("A"), release("T"), release("I"), release("T"), release("I"),
                  acquire("T"), release("T")>>,
     approve |-> <<acquire("H"), acquire("T"), acquire("H"), acquire("T"), release("T"), release("H"),
                  read, acquire("I"), acquire("T"), charge, acquire("A"), release("A"), release("T"),
                  release("I"), release("T"), release("H"), acquire("A"), release("A"),
                  acquire("T"), release("T")>>,
     reject  |-> <<acquire("H"), acquire("T"), release("T"), release("H"), acquire("I"), acquire("T"),
                  acquire("A"), release("A"), release("T"), release("I"), acquire("T"), release("T"),
                  acquire("A"), release("A")>>,
     execute |-> <<acquire("T"), release("T"), acquire("A"), release("A")>>]

Length == [decide |-> 14, approve |-> 20, reject |-> 14, execute |-> 4]

(* The with-statements of the operations unfold to the listing.            *)
LEMMA Unfolded ==
    ASSUME NEW op \in DOMAIN Program
    PROVE  /\ Program[op] \in Seq(Instruction)
           /\ Len(Program[op]) = Length[op]
           /\ \A i \in 1 .. Length[op] : Program[op][i] = Listing[op][i]
<1>1. /\ acquire("I") \in Instruction /\ acquire("H") \in Instruction
      /\ acquire("A") \in Instruction /\ acquire("T") \in Instruction
      /\ release("I") \in Instruction /\ release("H") \in Instruction
      /\ release("A") \in Instruction /\ release("T") \in Instruction
      /\ read \in Instruction /\ charge \in Instruction
  BY DEF acquire, release, read, charge, Instruction, Names
<1>2. CASE op = "decide"
  <2>1. Program[op] \in Seq(Instruction) /\ Len(Program[op]) = 14
    BY <1>1, <1>2 DEF Program, decide, record, store_call, audit
  <2>2. \A i \in 1 .. 14 : Program[op][i] = Listing[op][i]
    BY <1>1, <1>2 DEF Program, Listing, decide, record, store_call, audit
  <2> QED BY <2>1, <2>2, <1>2 DEF Length
<1>3. CASE op = "approve"
  <2>1. Program[op] \in Seq(Instruction) /\ Len(Program[op]) = 20
    BY <1>1, <1>3 DEF Program, approve, take, record, store_call, audit
  <2>2. \A i \in 1 .. 20 : Program[op][i] = Listing[op][i]
    BY <1>1, <1>3 DEF Program, Listing, approve, take, record, store_call, audit
  <2> QED BY <2>1, <2>2, <1>3 DEF Length
<1>4. CASE op = "reject"
  <2>1. Program[op] \in Seq(Instruction) /\ Len(Program[op]) = 14
    BY <1>1, <1>4 DEF Program, reject, take, record, store_call, audit
  <2>2. \A i \in 1 .. 14 : Program[op][i] = Listing[op][i]
    BY <1>1, <1>4 DEF Program, Listing, reject, take, record, store_call, audit
  <2> QED BY <2>1, <2>2, <1>4 DEF Length
<1>5. CASE op = "execute"
  <2>1. Program[op] \in Seq(Instruction) /\ Len(Program[op]) = 4
    BY <1>1, <1>5 DEF Program, execute, store_call, audit
  <2>2. \A i \in 1 .. 4 : Program[op][i] = Listing[op][i]
    BY <1>1, <1>5 DEF Program, Listing, execute, store_call, audit
  <2> QED BY <2>1, <2>2, <1>5 DEF Length
<1> QED BY <1>2, <1>3, <1>4, <1>5 DEF Program

(* The with-statements of every operation nest, it ends outside all of     *)
(* them, and it reads and charges inside the store's transaction.          *)
Follows(op, k, l, i) ==
    LET before == Entered[op][l][k + 1]
        after == Entered[op][l][k + 2]
    IN  /\ before \in Nat /\ after \in Nat
        /\ i.do = "acquire" /\ i.lock = l => after = before + 1
        /\ i.do = "release" /\ i.lock = l => before = after + 1
        /\ i.do \in {"read", "charge"} \/ i.lock # l => after = before

Guarded(op, k, i) ==
    /\ i.do = "charge" => Owes(op, k)
    /\ Owes(op, k) => Entered[op]["T"][k + 1] > 0
    /\ Owes(op, k + 1) => i.do = "read" \/ (i.do # "charge" /\ Owes(op, k))

Nests(op) ==
    /\ Program[op] \in Seq(Instruction)
    /\ \A k \in 0 .. Len(Program[op]) - 1 : 
          /\ Guarded(op, k, Program[op][k + 1])
          /\ \A l \in Names : Follows(op, k, l, Program[op][k + 1])
    /\ ~Owes(op, 0) /\ ~Owes(op, Len(Program[op]))
    /\ \A l \in Names : Entered[op][l][1] = 0 /\ Entered[op][l][Len(Program[op]) + 1] = 0

(* Each operation by its table.                                            *)
LEMMA OperationsNest == ASSUME NEW op \in DOMAIN Program PROVE Nests(op)
<1>1. ASSUME NEW k \in 0 .. Length[op] - 1, NEW i, i = Listing[op][k + 1], NEW l \in Names
      PROVE  Follows(op, k, l, i) /\ Guarded(op, k, i)
  <2>1. CASE op = "decide"
    <3>1. k \in 0 .. 13
      BY <2>1 DEF Length
    <3>2. Follows("decide", k, l, i)
      BY <1>1, <2>1, <3>1 DEF Listing, Follows, Names, Entered, acquire, release, read, charge
    <3>3. Owes("decide", k) => Entered["decide"]["T"][k + 1] > 0
      BY <3>1 DEF Owes, Entered
    <3>4. i.do = "charge" => k = 5
      BY <1>1, <2>1, <3>1 DEF Listing, acquire, release, read, charge
    <3>5. k = 2 => i.do = "read"
      BY <1>1, <2>1 DEF Listing, read
    <3>6. /\ i.do = "charge" => Owes("decide", k)
          /\ Owes("decide", k + 1) => i.do = "read" \/ (i.do # "charge" /\ Owes("decide", k))
      BY <3>1, <3>4, <3>5 DEF Owes
    <3> QED BY <3>2, <3>3, <3>6, <2>1 DEF Guarded
  <2>2. CASE op = "approve"
    <3>1. k \in 0 .. 19
      BY <2>2 DEF Length
    <3>2. Follows("approve", k, l, i)
      BY <1>1, <2>2, <3>1 DEF Listing, Follows, Names, Entered, acquire, release, read, charge
    <3>3. Owes("approve", k) => Entered["approve"]["T"][k + 1] > 0
      BY <3>1 DEF Owes, Entered
    <3>4. i.do = "charge" => k = 9
      BY <1>1, <2>2, <3>1 DEF Listing, acquire, release, read, charge
    <3>5. k = 6 => i.do = "read"
      BY <1>1, <2>2 DEF Listing, read
    <3>6. /\ i.do = "charge" => Owes("approve", k)
          /\ Owes("approve", k + 1) => i.do = "read" \/ (i.do # "charge" /\ Owes("approve", k))
      BY <3>1, <3>4, <3>5 DEF Owes
    <3> QED BY <3>2, <3>3, <3>6, <2>2 DEF Guarded
  <2>3. CASE op = "reject"
    <3>1. k \in 0 .. 13
      BY <2>3 DEF Length
    <3>2. Follows("reject", k, l, i)
      BY <1>1, <2>3, <3>1 DEF Listing, Follows, Names, Entered, acquire, release, read, charge
    <3>3. Guarded("reject", k, i)
      BY <1>1, <2>3, <3>1 DEF Listing, Guarded, Owes, Entered, acquire, release, read, charge
    <3> QED BY <3>2, <3>3, <2>3
  <2>4. CASE op = "execute"
    <3>1. k \in 0 .. 3
      BY <2>4 DEF Length
    <3>2. Follows("execute", k, l, i)
      BY <1>1, <2>4, <3>1 DEF Listing, Follows, Names, Entered, acquire, release, read, charge
    <3>3. Guarded("execute", k, i)
      BY <1>1, <2>4, <3>1 DEF Listing, Guarded, Owes, Entered, acquire, release, read, charge
    <3> QED BY <3>2, <3>3, <2>4
  <2> QED BY <2>1, <2>2, <2>3, <2>4 DEF Program
<1>2. Length[op] \in Nat
  BY DEF Length, Program
<1>3. ASSUME NEW k \in 0 .. Len(Program[op]) - 1
      PROVE  /\ Guarded(op, k, Program[op][k + 1])
             /\ \A l \in Names : Follows(op, k, l, Program[op][k + 1])
  <2>1. k \in 0 .. Length[op] - 1 /\ Program[op][k + 1] = Listing[op][k + 1]
    BY Unfolded, <1>2
  <2>2. "T" \in Names
    BY DEF Names
  <2> QED BY <2>1, <2>2, <1>1, Zenon
<1>4. ~Owes(op, 0) /\ ~Owes(op, Len(Program[op]))
  <2>1. op = "decide" => Length[op] = 14
    BY DEF Length
  <2>2. op = "approve" => Length[op] = 20
    BY DEF Length
  <2>3. Len(Program[op]) = Length[op]
    BY Unfolded
  <2> QED BY <2>1, <2>2, <2>3 DEF Owes
<1>5. \A l \in Names : Entered[op][l][1] = 0 /\ Entered[op][l][Len(Program[op]) + 1] = 0
  <2>1. CASE op = "decide"
    BY <2>1, Unfolded DEF Length, Entered, Names
  <2>2. CASE op = "approve"
    BY <2>2, Unfolded DEF Length, Entered, Names
  <2>3. CASE op = "reject"
    BY <2>3, Unfolded DEF Length, Entered, Names
  <2>4. CASE op = "execute"
    BY <2>4, Unfolded DEF Length, Entered, Names
  <2> QED BY <2>1, <2>2, <2>3, <2>4 DEF Program
<1> QED BY <1>3, <1>4, <1>5, Unfolded DEF Nests

----------------------------------------------------------------------------
(* Locks and threads                                                       *)

(* A lock has one name.                                                    *)
LEMMA Instances ==
    /\ \A t \in Threads, l \in Names : instance(t, l) \in Locks
    /\ \A t, u \in Threads, l, m \in Names : instance(t, l) = instance(u, m) => l = m
    /\ \A t, u \in Threads : instance(t, "T") = instance(u, "T")
<1>1. \A t \in Threads, l \in Names : instance(t, l) \in Locks
  BY DEF Locks, Names
<1>2. \A t, u \in Threads, l, m \in Names : instance(t, l) = instance(u, m) => l = m
  BY DEF instance
<1>3. \A t, u \in Threads : instance(t, "T") = instance(u, "T")
  BY DEF instance
<1> QED BY <1>1, <1>2, <1>3

(* How far a thread is, and that its operation nests.                      *)
LEMMA Place ==
    ASSUME Positions, NEW t \in Threads
    PROVE  /\ Nests(operation[t]) /\ Steps(t) \in Seq(Instruction)
           /\ Len(Steps(t)) \in Nat /\ Len(todo[t]) \in Nat /\ todo[t] \in Seq(Instruction)
           /\ Done(t) \in 0 .. Len(Steps(t))
           /\ todo[t] # <<>> => /\ Done(t) \in 0 .. Len(Steps(t)) - 1
                                /\ Head(todo[t]) = Steps(t)[Done(t) + 1]
                                /\ Head(todo[t]) \in Instruction
           /\ \A l \in Names : Inside(t, l) \in Nat
<1>1. operation[t] \in DOMAIN Program
  BY Setup DEF Setup
<1>2. Nests(operation[t])
  BY <1>1, OperationsNest
<1>3. /\ Steps(t) \in Seq(Instruction) /\ Len(Steps(t)) \in Nat
      /\ todo[t] \in Seq(Instruction) /\ Len(todo[t]) \in Nat /\ Len(todo[t]) <= Len(Steps(t))
  BY <1>2 DEF Nests, Positions, Steps
<1>4. Done(t) \in 0 .. Len(Steps(t))
  BY <1>3 DEF Done
<1>5. ASSUME todo[t] # <<>>
      PROVE  /\ Done(t) \in 0 .. Len(Steps(t)) - 1
             /\ Head(todo[t]) = Steps(t)[Done(t) + 1]
             /\ Head(todo[t]) \in Instruction
  <2>1. Len(todo[t]) >= 1 /\ Head(todo[t]) = todo[t][1] /\ Head(todo[t]) \in Instruction
    BY <1>3, <1>5
  <2>2. todo[t][1] = Steps(t)[Done(t) + 1]
    BY <1>3, <2>1 DEF Positions
  <2>3. Done(t) \in 0 .. Len(Steps(t)) - 1
    BY <1>3, <2>1 DEF Done
  <2> QED BY <2>1, <2>2, <2>3
<1>6. ASSUME NEW l \in Names PROVE Inside(t, l) \in Nat
  <2>1. CASE Done(t) = Len(Steps(t))
    BY <1>2, <2>1 DEF Nests, Inside, Steps
  <2>2. CASE Done(t) \in 0 .. Len(Steps(t)) - 1
    BY <1>2, <2>2 DEF Nests, Follows, Inside, Steps
  <2> QED BY <1>3, <1>4, <2>1, <2>2
<1> QED BY <1>2, <1>3, <1>4, <1>5, <1>6

(* Taking the next instruction moves one thread one place on.              *)
LEMMA Advances ==
    ASSUME Positions, NEW t \in Threads, todo[t] # <<>>, Advance(t)
    PROVE  /\ Positions'
           /\ Done(t)' = Done(t) + 1
           /\ \A u \in Threads \ {t} : Done(u)' = Done(u)
<1>1. todo' = [todo EXCEPT ![t] = Tail(todo[t])]
  BY DEF Advance
<1>2. /\ todo[t] \in Seq(Instruction) /\ Len(Steps(t)) \in Nat
      /\ todo \in [Threads -> Seq(Instruction)] /\ Len(todo[t]) <= Len(Steps(t))
  BY Place DEF Positions
<1>3. /\ Tail(todo[t]) \in Seq(Instruction) /\ Len(Tail(todo[t])) = Len(todo[t]) - 1
      /\ \A i \in 1 .. Len(todo[t]) - 1 : Tail(todo[t])[i] = todo[t][i + 1]
  BY <1>2
<1>4. /\ todo' \in [Threads -> Seq(Instruction)] /\ todo'[t] = Tail(todo[t])
      /\ \A u \in Threads \ {t} : todo'[u] = todo[u]
  BY <1>1, <1>2, <1>3
<1>5. Done(t)' = Done(t) + 1
  BY <1>2, <1>3, <1>4 DEF Done, Steps
<1>6. \A u \in Threads \ {t} : Done(u)' = Done(u)
  BY <1>4 DEF Done, Steps
<1>7. ASSUME NEW u \in Threads
      PROVE  /\ Len(todo'[u]) <= Len(Steps(u))
             /\ \A i \in 1 .. Len(todo'[u]) : todo'[u][i] = Steps(u)[Done(u)' + i]
  <2>1. CASE u # t
    BY <1>4, <1>6, <2>1 DEF Positions
  <2>2. CASE u = t
    <3>1. Len(todo'[t]) = Len(todo[t]) - 1 /\ Len(todo'[t]) <= Len(Steps(t))
      BY <1>2, <1>3, <1>4
    <3>2. ASSUME NEW i \in 1 .. Len(todo'[t]) PROVE todo'[t][i] = Steps(t)[Done(t)' + i]
      <4>1. i + 1 \in 1 .. Len(todo[t]) /\ todo'[t][i] = todo[t][i + 1]
        BY <1>2, <1>3, <1>4, <3>1
      <4>2. todo[t][i + 1] = Steps(t)[Done(t) + (i + 1)]
        BY <4>1 DEF Positions
      <4>3. Done(t) \in Nat
        BY Place
      <4>4. Done(t) + (i + 1) = Done(t)' + i
        BY <1>5, <4>3, <4>1
      <4> QED BY <4>1, <4>2, <4>4
    <3> QED BY <2>2, <3>1, <3>2
  <2> QED BY <2>1, <2>2
<1>8. Positions'
  BY <1>4, <1>7 DEF Positions, Steps
<1> QED BY <1>5, <1>6, <1>8

(* What taking the next instruction means for the locks it is inside, and  *)
(* for the charge it owes.                                                 *)
LEMMA Moves ==
    ASSUME Positions, NEW t \in Threads, todo[t] # <<>>, Advance(t)
    PROVE  /\ Positions'
           /\ \A l \in Names :
                 /\ Inside(t, l) \in Nat /\ Inside(t, l)' \in Nat
                 /\ Head(todo[t]) = acquire(l) => Inside(t, l)' = Inside(t, l) + 1
                 /\ Head(todo[t]) = release(l) => Inside(t, l) = Inside(t, l)' + 1
                 /\ Head(todo[t]).do \in {"read", "charge"} \/ Head(todo[t]).lock # l
                       => Inside(t, l)' = Inside(t, l)
           /\ \A u \in Threads \ {t}, l \in Names : Inside(u, l)' = Inside(u, l)
           /\ Head(todo[t]).do = "charge" =>
                 Owes(operation[t], Done(t)) /\ ~Owes(operation[t], Done(t)')
           /\ Owes(operation[t], Done(t)') =>
                 Head(todo[t]).do = "read" \/ Owes(operation[t], Done(t))
<1>1. /\ Nests(operation[t]) /\ Done(t) \in 0 .. Len(Steps(t)) - 1
      /\ Head(todo[t]) = Steps(t)[Done(t) + 1]
  BY Place
<1>2. /\ Positions' /\ Done(t)' = Done(t) + 1
      /\ \A u \in Threads \ {t} : Done(u)' = Done(u)
  BY Advances
<1>3. /\ Guarded(operation[t], Done(t), Head(todo[t]))
      /\ \A l \in Names : Follows(operation[t], Done(t), l, Head(todo[t]))
  BY <1>1 DEF Nests, Steps
<1>4. ASSUME NEW l \in Names
      PROVE  /\ Inside(t, l) = Entered[operation[t]][l][Done(t) + 1]
             /\ Inside(t, l)' = Entered[operation[t]][l][Done(t) + 2]
  BY <1>1, <1>2 DEF Inside
<1>5. ASSUME NEW l \in Names
      PROVE  /\ Inside(t, l) \in Nat /\ Inside(t, l)' \in Nat
             /\ Head(todo[t]) = acquire(l) => Inside(t, l)' = Inside(t, l) + 1
             /\ Head(todo[t]) = release(l) => Inside(t, l) = Inside(t, l)' + 1
             /\ Head(todo[t]).do \in {"read", "charge"} \/ Head(todo[t]).lock # l
                   => Inside(t, l)' = Inside(t, l)
  BY <1>3, <1>4 DEF Follows, acquire, release
<1>6. \A u \in Threads \ {t}, l \in Names : Inside(u, l)' = Inside(u, l)
  BY <1>2 DEF Inside
<1>7. /\ Head(todo[t]).do = "charge" =>
            Owes(operation[t], Done(t)) /\ ~Owes(operation[t], Done(t)')
      /\ Owes(operation[t], Done(t)') =>
            Head(todo[t]).do = "read" \/ Owes(operation[t], Done(t))
  BY <1>2, <1>3 DEF Guarded
<1> QED BY <1>2, <1>5, <1>6, <1>7

(* Two threads that both owe a charge are one: each is inside the store's  *)
(* transaction.                                                            *)
LEMMA OneOwes ==
    ASSUME Positions, Held, NEW t \in Threads, NEW u \in Threads,
           Owes(operation[t], Done(t)), Owes(operation[u], Done(u))
    PROVE  t = u
<1>1. ASSUME NEW v \in Threads, Owes(operation[v], Done(v))
      PROVE  holder[instance(v, "T")] = v
  <2>1. Nests(operation[v]) /\ Done(v) \in 0 .. Len(Steps(v))
    BY Place
  <2>2. Done(v) # Len(Steps(v))
    BY <1>1, <2>1 DEF Nests, Steps
  <2>3. Done(v) \in 0 .. Len(Steps(v)) - 1
    BY <2>1, <2>2, Place
  <2>4. Guarded(operation[v], Done(v), Program[operation[v]][Done(v) + 1])
    BY <2>1, <2>3 DEF Nests, Steps
  <2>5. Inside(v, "T") > 0
    BY <1>1, <2>4 DEF Guarded, Inside
  <2> QED BY <2>5 DEF Held, Names
<1>2. instance(t, "T") = instance(u, "T")
  BY Instances
<1> QED BY <1>1, <1>2

----------------------------------------------------------------------------
(* The steps                                                               *)

(* Initially nobody is inside anything.                                    *)
LEMMA InitInv == Init => IInv
<1> SUFFICES ASSUME Init PROVE IInv
  OBVIOUS
<1>1. ASSUME NEW t \in Threads
      PROVE  /\ Steps(t) \in Seq(Instruction) /\ todo[t] = Steps(t) /\ Done(t) = 0
             /\ Nests(operation[t])
  <2>1. Nests(operation[t]) /\ todo[t] = Steps(t)
    BY OperationsNest, Setup DEF Init, Setup, Steps
  <2> QED BY <2>1 DEF Nests, Steps, Done
<1>2. TypeOK
  BY Setup DEF Init, TypeOK, Setup
<1>3. Positions
  <2>1. todo \in [Threads -> Seq(Instruction)]
    BY <1>1 DEF Init, Steps
  <2> QED BY <1>1, <2>1 DEF Positions
<1>4. Held
  <2>1. ASSUME NEW t \in Threads, NEW l \in Names
        PROVE  Inside(t, l) = 0 /\ holder[instance(t, l)] = Nobody
    <3>1. Inside(t, l) = 0
      BY <1>1 DEF Nests, Inside
    <3> QED BY <3>1, Instances DEF Init
  <2> QED BY <2>1, Setup DEF Held, Setup
<1>5. Fresh
  BY <1>1 DEF Fresh, Nests
<1> QED BY <1>2, <1>3, <1>4, <1>5 DEF IInv, Own, Init

(* What a lock instruction does to one lock, for a thread that is where    *)
(* the invariant says.                                                     *)
LEMMA NextInstruction ==
    ASSUME IInv, NEW t \in Threads, NEW do, Next_is(t, do)
    PROVE  /\ todo[t] # <<>> /\ Head(todo[t]) \in Instruction
           /\ Head(todo[t]).lock \in Names /\ Wanted(t) \in Locks
           /\ do = "acquire" => Head(todo[t]) = acquire(Head(todo[t]).lock)
           /\ do = "release" => Head(todo[t]) = release(Head(todo[t]).lock)
<1>1. todo[t] # <<>> /\ Head(todo[t]) \in Instruction /\ Head(todo[t]).do = do
  BY Place DEF IInv, Next_is
<1>2. Head(todo[t]).lock \in Names
  BY <1>1 DEF Instruction
<1>3. Wanted(t) \in Locks
  BY <1>2, Instances DEF Wanted
<1>4. /\ do = "acquire" => Head(todo[t]) = acquire(Head(todo[t]).lock)
      /\ do = "release" => Head(todo[t]) = release(Head(todo[t]).lock)
  BY <1>1 DEF Instruction, acquire, release
<1> QED BY <1>1, <1>2, <1>3, <1>4

(* A step of t that leaves the other locks alone, and enters or leaves the *)
(* wanted one as t does, keeps every thread inside what it holds.          *)
LEMMA HeldKept ==
    ASSUME IInv, NEW t \in Threads, NEW l \in Names, todo[t] # <<>>, Advance(t),
           Head(todo[t]).lock = l,
           \A k \in Locks \ {instance(t, l)} : holder'[k] = holder[k] /\ depth'[k] = depth[k],
           holder[instance(t, l)] \in {Nobody, t},
           IF Inside(t, l)' > 0
           THEN holder'[instance(t, l)] = t /\ depth'[instance(t, l)] = Inside(t, l)'
           ELSE holder'[instance(t, l)] = Nobody
    PROVE  Held'
<1> SUFFICES ASSUME NEW u \in Threads, NEW m \in Names
             PROVE  IF Inside(u, m)' > 0
                    THEN holder'[instance(u, m)] = u /\ depth'[instance(u, m)] = Inside(u, m)'
                    ELSE holder'[instance(u, m)] # u
  BY DEF Held, instance
<1>1. /\ IF Inside(u, m) > 0
         THEN holder[instance(u, m)] = u /\ depth[instance(u, m)] = Inside(u, m)
         ELSE holder[instance(u, m)] # u
      /\ instance(u, m) \in Locks /\ Nobody # u
  BY Instances, Setup DEF IInv, Held, Setup
<1>2. CASE u = t /\ m = l
  BY <1>1, <1>2
<1>3. CASE u = t /\ m # l
  <2>1. instance(u, m) # instance(t, l)
    BY <1>3, Instances
  <2>2. Inside(u, m)' = Inside(u, m)
    BY <1>3, Moves DEF IInv
  <2> QED BY <1>1, <2>1, <2>2
<1>4. CASE u # t
  <2>1. Inside(u, m)' = Inside(u, m)
    BY <1>4, Moves DEF IInv
  <2>2. CASE instance(u, m) # instance(t, l)
    BY <1>1, <2>1, <2>2
  <2>3. CASE instance(u, m) = instance(t, l)
    BY <1>1, <1>4, <2>1, <2>3
  <2> QED BY <2>2, <2>3
<1> QED BY <1>2, <1>3, <1>4

(* A step that is not a charge or a read, and does not count.              *)
LEMMA FreshKept ==
    ASSUME IInv, NEW t \in Threads, todo[t] # <<>>, Advance(t), Head(todo[t]).do # "read",
           UNCHANGED <<seen, count>>
    PROVE  Fresh'
<1> SUFFICES ASSUME NEW u \in Threads, Owes(operation[u], Done(u)')
             PROVE  seen'[u] = count'
  BY DEF Fresh, Owes
<1>1. CASE u = t
  BY <1>1, Moves DEF IInv, Fresh
<1>2. CASE u # t
  BY <1>2, Advances DEF IInv, Fresh
<1> QED BY <1>1, <1>2

(* Entering a lock.                                                        *)
LEMMA AcquireInv == ASSUME IInv, NEW t \in Threads, Acquire(t) PROVE IInv'
<1>0. PICK l \in Names : l = Head(todo[t]).lock
  BY NextInstruction DEF Acquire
<1>1. /\ todo[t] # <<>> /\ Wanted(t) \in Locks /\ Head(todo[t]) = acquire(l)
      /\ Wanted(t) = instance(t, l) /\ Advance(t)
  BY <1>0, NextInstruction DEF Acquire, Wanted
<1>2. /\ Inside(t, l) \in Nat /\ Inside(t, l)' = Inside(t, l) + 1
  BY <1>1, Moves DEF IInv
<1>3. /\ holder[Wanted(t)] \in {Nobody, t}
      /\ holder' = [holder EXCEPT ![Wanted(t)] = t]
      /\ depth' = [depth EXCEPT ![Wanted(t)] = depth[Wanted(t)] + 1]
      /\ UNCHANGED <<seen, count>>
  BY DEF Acquire
<1>4. /\ holder \in [Locks -> Threads \cup {Nobody}] /\ depth \in [Locks -> Nat]
      /\ \A k \in Locks : holder[k] = Nobody <=> depth[k] = 0
      /\ seen \in [Threads -> Nat] /\ count \in Nat
  BY DEF IInv, TypeOK
<1>5. depth[Wanted(t)] = Inside(t, l)
  <2>1. IF Inside(t, l) > 0 THEN holder[Wanted(t)] = t /\ depth[Wanted(t)] = Inside(t, l)
                            ELSE holder[Wanted(t)] # t
    BY <1>1 DEF IInv, Held
  <2> QED BY <1>1, <1>2, <1>3, <1>4, <2>1
<1>6. TypeOK'
  BY <1>1, <1>3, <1>4, Setup DEF TypeOK, Setup
<1>7. Held'
  <2>1. \A k \in Locks \ {instance(t, l)} : holder'[k] = holder[k] /\ depth'[k] = depth[k]
    BY <1>1, <1>3, <1>4
  <2>2. holder'[instance(t, l)] = t /\ depth'[instance(t, l)] = Inside(t, l)' /\ Inside(t, l)' > 0
    BY <1>1, <1>2, <1>3, <1>4, <1>5
  <2> QED BY <1>0, <1>1, <1>3, <2>1, <2>2, HeldKept
<1>8. Fresh' /\ Positions'
  BY <1>1, <1>3, FreshKept, Moves DEF IInv, acquire
<1>9. Own'
  BY <1>1, <1>3, <1>4 DEF IInv, Own
<1> QED BY <1>6, <1>7, <1>8, <1>9 DEF IInv

(* Leaving a lock.                                                         *)
LEMMA ReleaseInv == ASSUME IInv, NEW t \in Threads, Release(t) PROVE IInv'
<1>0. PICK l \in Names : l = Head(todo[t]).lock
  BY NextInstruction DEF Release
<1>1. /\ todo[t] # <<>> /\ Wanted(t) \in Locks /\ Head(todo[t]) = release(l)
      /\ Wanted(t) = instance(t, l) /\ Advance(t)
  BY <1>0, NextInstruction DEF Release, Wanted
<1>2. Inside(t, l)' \in Nat /\ Inside(t, l) = Inside(t, l)' + 1
  BY <1>1, Moves DEF IInv
<1>3. /\ depth' = [depth EXCEPT ![Wanted(t)] = depth[Wanted(t)] - 1]
      /\ holder' = [holder EXCEPT ![Wanted(t)] = IF depth[Wanted(t)] = 1 THEN Nobody ELSE t]
      /\ UNCHANGED <<seen, count>>
  BY DEF Release
<1>4. /\ holder \in [Locks -> Threads \cup {Nobody}] /\ depth \in [Locks -> Nat]
      /\ \A k \in Locks : holder[k] = Nobody <=> depth[k] = 0
      /\ seen \in [Threads -> Nat] /\ count \in Nat
  BY DEF IInv, TypeOK
<1>5. holder[Wanted(t)] = t /\ depth[Wanted(t)] = Inside(t, l)
  BY <1>1, <1>2 DEF IInv, Held
<1>6. TypeOK'
  BY <1>1, <1>2, <1>3, <1>4, <1>5, Setup DEF TypeOK, Setup
<1>7. Held'
  <2>1. \A k \in Locks \ {instance(t, l)} : holder'[k] = holder[k] /\ depth'[k] = depth[k]
    BY <1>1, <1>3, <1>4
  <2>2. IF Inside(t, l)' > 0
        THEN holder'[instance(t, l)] = t /\ depth'[instance(t, l)] = Inside(t, l)'
        ELSE holder'[instance(t, l)] = Nobody
    BY <1>1, <1>2, <1>3, <1>4, <1>5
  <2> QED BY <1>0, <1>1, <1>5, <2>1, <2>2, HeldKept
<1>8. Fresh' /\ Positions'
  BY <1>1, <1>3, FreshKept, Moves DEF IInv, release
<1>9. Own'
  BY <1>1, <1>3, <1>4, <1>5 DEF IInv, Own
<1> QED BY <1>6, <1>7, <1>8, <1>9 DEF IInv

(* A step that takes or leaves no lock.                                    *)
LEMMA HeldStays ==
    ASSUME IInv, NEW t \in Threads, todo[t] # <<>>, Advance(t),
           Head(todo[t]).do \in {"read", "charge"}, UNCHANGED <<holder, depth>>
    PROVE  Held' /\ Positions' /\ Own'
<1>1. \A u \in Threads, m \in Names : Inside(u, m)' = Inside(u, m)
  BY Moves DEF IInv
<1>2. Positions'
  BY Moves DEF IInv
<1>3. Own'
  BY DEF IInv, Own, instance
<1> QED BY <1>1, <1>2, <1>3 DEF IInv, Held, instance

(* Reading the usage.                                                      *)
LEMMA ReadInv == ASSUME IInv, NEW t \in Threads, Read(t) PROVE IInv'
<1>1. /\ todo[t] # <<>> /\ Head(todo[t]).do = "read" /\ Advance(t)
      /\ seen' = [seen EXCEPT ![t] = count] /\ UNCHANGED <<holder, depth, count>>
  BY DEF Read, Next_is
<1>2. Held' /\ Positions' /\ Own'
  BY <1>1, HeldStays
<1>3. TypeOK'
  BY <1>1 DEF IInv, TypeOK
<1>4. Fresh'
  <2> SUFFICES ASSUME NEW u \in Threads, Owes(operation[u], Done(u)')
               PROVE  seen'[u] = count'
    BY DEF Fresh, Owes
  <2>1. CASE u = t
    BY <1>1, <2>1 DEF IInv, TypeOK
  <2>2. CASE u # t
    BY <1>1, <2>2, Advances DEF IInv, Fresh, TypeOK
  <2> QED BY <2>1, <2>2
<1> QED BY <1>2, <1>3, <1>4 DEF IInv

(* Charging: the usage that was read is still the counter's value, so that *)
(* the call is counted within the limit or not at all.                     *)
LEMMA ChargeInv ==
    ASSUME IInv, NEW t \in Threads, Charge(t)
    PROVE  IInv' /\ [Abstract!Spend]_count
<1>1. /\ todo[t] # <<>> /\ Head(todo[t]).do = "charge" /\ Advance(t)
      /\ count' = IF seen[t] < Limit THEN count + 1 ELSE count
      /\ UNCHANGED <<holder, depth, seen>>
  BY DEF Charge, Next_is
<1>2. Held' /\ Positions' /\ Own'
  BY <1>1, HeldStays
<1>3. TypeOK'
  BY <1>1 DEF IInv, TypeOK
<1>4. Owes(operation[t], Done(t)) /\ ~Owes(operation[t], Done(t)')
  BY <1>1, Moves DEF IInv
<1>5. seen[t] = count
  BY <1>4 DEF IInv, Fresh
<1>6. Fresh'
  <2> SUFFICES ASSUME NEW u \in Threads, Owes(operation[u], Done(u)') PROVE FALSE
    BY DEF Fresh, Owes
  <2>1. u # t
    BY <1>4
  <2>2. Owes(operation[u], Done(u))
    BY <1>1, <2>1, Advances DEF IInv
  <2> QED BY <1>4, <2>1, <2>2, OneOwes DEF IInv
<1>7. [Abstract!Spend]_count
  BY <1>1, <1>5 DEF Abstract!Spend
<1> QED BY <1>2, <1>3, <1>6, <1>7 DEF IInv

(* Giving up: the exception leaves every with-statement.                   *)
LEMMA GiveUpInv == ASSUME IInv, NEW t \in Threads, GiveUp(t) PROVE IInv'
<1>1. /\ todo' = [todo EXCEPT ![t] = <<>>]
      /\ holder' = [l \in Locks |-> IF holder[l] = t THEN Nobody ELSE holder[l]]
      /\ depth' = [l \in Locks |-> IF holder[l] = t THEN 0 ELSE depth[l]]
      /\ UNCHANGED <<seen, count>>
  BY DEF GiveUp
<1>2. TypeOK'
  BY <1>1, Setup DEF IInv, TypeOK, Setup
<1>3. /\ todo' \in [Threads -> Seq(Instruction)] /\ todo'[t] = <<>>
      /\ \A u \in Threads \ {t} : todo'[u] = todo[u]
  BY <1>1 DEF IInv, Positions
<1>4. Len(Steps(t)) \in Nat /\ Done(t)' = Len(Steps(t)) /\ Nests(operation[t])
  <2>1. Len(Steps(t)) \in Nat /\ Nests(operation[t])
    BY Place DEF IInv
  <2>2. Done(t)' = Len(Steps(t)) - Len(todo'[t]) /\ Len(todo'[t]) = 0
    BY <1>3 DEF Done, Steps
  <2> QED BY <2>1, <2>2
<1>5. \A u \in Threads \ {t} : Done(u)' = Done(u)
  BY <1>3 DEF Done, Steps
<1>6. Positions'
  <2>1. ASSUME NEW u \in Threads
        PROVE  /\ Len(todo'[u]) <= Len(Steps(u))
               /\ \A i \in 1 .. Len(todo'[u]) : todo'[u][i] = Steps(u)[Done(u)' + i]
    <3>1. CASE u = t
      BY <1>3, <1>4, <3>1
    <3>2. CASE u # t
      BY <1>3, <1>5, <3>2 DEF IInv, Positions
    <3> QED BY <3>1, <3>2
  <2> QED BY <1>3, <2>1 DEF Positions, Steps
<1>7. Held'
  <2> SUFFICES ASSUME NEW u \in Threads, NEW m \in Names
               PROVE  IF Inside(u, m)' > 0
                      THEN holder'[instance(u, m)] = u /\ depth'[instance(u, m)] = Inside(u, m)'
                      ELSE holder'[instance(u, m)] # u
    BY DEF Held, instance
  <2>1. instance(u, m) \in Locks /\ Nobody # u /\ Nobody # t
    BY Instances, Setup DEF Setup
  <2>2. CASE u = t
    <3>1. Inside(t, m)' = 0
      BY <1>4 DEF Inside, Nests, Steps
    <3> QED BY <1>1, <2>1, <2>2, <3>1
  <2>3. CASE u # t
    <3>1. Inside(u, m)' = Inside(u, m)
      BY <1>5, <2>3 DEF Inside
    <3>2. IF Inside(u, m) > 0
          THEN holder[instance(u, m)] = u /\ depth[instance(u, m)] = Inside(u, m)
          ELSE holder[instance(u, m)] # u
      BY DEF IInv, Held
    <3> QED BY <1>1, <2>1, <2>3, <3>1, <3>2
  <2> QED BY <2>2, <2>3
<1>8. Fresh'
  <2> SUFFICES ASSUME NEW u \in Threads, Owes(operation[u], Done(u)')
               PROVE  seen'[u] = count'
    BY DEF Fresh, Owes
  <2>1. CASE u = t
    BY <1>4, <2>1 DEF Nests, Steps
  <2>2. CASE u # t
    BY <1>1, <1>5, <2>2 DEF IInv, Fresh
  <2> QED BY <2>1, <2>2
<1>9. Own'
  BY <1>1 DEF IInv, Own
<1> QED BY <1>2, <1>6, <1>7, <1>8, <1>9 DEF IInv

----------------------------------------------------------------------------
(* Every step keeps the invariant, and counts as the abstract budget does. *)
LEMMA StepInv ==
    ASSUME IInv, [Next]_vars
    PROVE  IInv' /\ [Abstract!Spend]_count
<1>1. CASE UNCHANGED vars
  BY <1>1 DEF IInv, TypeOK, Positions, Held, Fresh, Own, Inside, Done, Steps, vars, instance
<1>2. ASSUME NEW t \in Threads, Step(t) PROVE IInv' /\ [Abstract!Spend]_count
  <2>1. CASE Acquire(t)
    BY <2>1, AcquireInv DEF Acquire
  <2>2. CASE Release(t)
    BY <2>2, ReleaseInv DEF Release
  <2>3. CASE Read(t)
    BY <2>3, ReadInv DEF Read
  <2>4. CASE Charge(t)
    BY <2>4, ChargeInv
  <2>5. CASE GiveUp(t)
    BY <2>5, GiveUpInv DEF GiveUp
  <2> QED BY <1>2, <2>1, <2>2, <2>3, <2>4, <2>5 DEF Step
<1> QED BY <1>1, <1>2 DEF Next

(* The invariant of the locks: on every interleaving, a thread holds the   *)
(* locks of the with-statements it is inside, as often as it entered them, *)
(* and no others; and inside the transaction its reading stays current     *)
(* (decide, approve, reject, execute, for any processes and stores).       *)
THEOREM LocksFollowTheCode == Spec => []IInv
<1>1. IInv /\ [Next]_vars => IInv'
  BY StepInv
<1> QED BY InitInv, <1>1, PTL DEF Spec

(* The transactions of decide and approve, interleaved with everything     *)
(* else on any store, count calls as if each were one step: the counter    *)
(* behaves as CallBudget says, and so never passes max_calls.              *)
THEOREM TransactionsAreSteps == Spec => ImplementsCallBudget
<1>1. Init => Abstract!Init
  BY DEF Init, Abstract!Init
<1>2. IInv /\ [Next]_vars => [Abstract!Spend]_count
  BY StepInv
<1> QED BY <1>1, <1>2, LocksFollowTheCode, PTL DEF Spec, ImplementsCallBudget, Abstract!Spec

NoLockLeaks == \A t \in Threads : todo[t] = <<>> => \A k \in Locks : holder[k] # t

(* A thread that is done holds no lock, whether its operation ended or an  *)
(* exception did away with the rest of it ("database is locked").          *)
THEOREM LocksAreLeft == Spec => []NoLockLeaks
<1>1. IInv => NoLockLeaks
  <2> SUFFICES ASSUME IInv, NEW t \in Threads, todo[t] = <<>>, NEW k \in Locks, holder[k] = t
               PROVE  FALSE
    BY DEF NoLockLeaks
  <2>1. PICK l \in Names : k = instance(t, l)
    BY Setup DEF IInv, Own, Setup
  <2>2. Nests(operation[t]) /\ Len(Steps(t)) \in Nat
    BY Place DEF IInv
  <2>3. Done(t) = Len(Steps(t))
    BY <2>2 DEF Done
  <2>4. Inside(t, l) = 0
    BY <2>2, <2>3 DEF Nests, Inside, Steps
  <2> QED BY <2>1, <2>4 DEF IInv, Held
<1> QED BY <1>1, LocksFollowTheCode, PTL

----------------------------------------------------------------------------
(* Waiting                                                                 *)

(* The order in which a process enters its locks, depending on whether it  *)
(* serves approvals: approve enters the interceptor's lock inside the      *)
(* transaction, everybody else the transaction inside that lock.           *)
Level(approving, l) ==
    CASE l = "H" -> 1 [] l = "I" -> (IF approving THEN 4 ELSE 2) [] l = "T" -> 3 [] OTHER -> 5

(* An operation that enters w while it is inside l, by its table.          *)
Ascends(op, k, l, w) ==
    \A approving \in BOOLEAN :
       /\ Entered[op][l][k + 1] > 0 /\ Entered[op][w][k + 1] = 0
       /\ op = "execute" \/ (approving <=> op = "approve")
       => Level(approving, l) < Level(approving, w)

(* Each operation enters its locks in that order.                          *)
LEMMA OperationsAscend ==
    ASSUME NEW op \in DOMAIN Program, NEW k \in 0 .. Length[op] - 1, NEW i, i = Listing[op][k + 1],
           NEW w \in Names, i = acquire(w), NEW l \in Names
    PROVE  Ascends(op, k, l, w)
<1>1. CASE op = "decide"
  <2>1. k \in 0 .. 13
    BY <1>1 DEF Length
  <2> QED BY <1>1, <2>1 DEF Listing, Ascends, Level, Names, Entered, acquire, release, read, charge
<1>2. CASE op = "approve"
  <2>1. k \in 0 .. 19
    BY <1>2 DEF Length
  <2> QED BY <1>2, <2>1 DEF Listing, Ascends, Level, Names, Entered, acquire, release, read, charge
<1>3. CASE op = "reject"
  <2>1. k \in 0 .. 13
    BY <1>3 DEF Length
  <2> QED BY <1>3, <2>1 DEF Listing, Ascends, Level, Names, Entered, acquire, release, read, charge
<1>4. CASE op = "execute"
  <2>1. k \in 0 .. 3
    BY <1>4 DEF Length
  <2> QED BY <1>4, <2>1 DEF Listing, Ascends, Level, Names, Entered, acquire, release, read, charge
<1> QED BY <1>1, <1>2, <1>3, <1>4 DEF Program

(* No process serves an approval beside a proposal or a rejection.         *)
Apart ==
    \A s, t \in Threads :
       operation[s] = "approve" /\ operation[t] \in {"decide", "reject"} => process[s] # process[t]

Approves(p) == \E t \in Threads : process[t] = p /\ operation[t] = "approve"
LevelOf(t, l) == Level(Approves(process[t]), l)

(* Whoever has to wait for a lock holds only locks of lower levels, which  *)
(* rules out a circle of waiting threads of any length.                    *)
WaitsUpward ==
    \A t \in Threads, l, w \in Names :
       Next_is(t, "acquire") /\ Head(todo[t]).lock = w
          /\ holder[instance(t, w)] # t /\ holder[instance(t, l)] = t
          => LevelOf(t, l) < LevelOf(t, w)

(* The deadlock between decide and approve is the only one: where no       *)
(* process serves approvals beside proposals or rejections, threads enter  *)
(* the four locks in one order, on stores that wait for ever too, and no   *)
(* two wait for each other (decide, approve, reject, execute).             *)
THEOREM OnlyApprovalsCross ==
    ASSUME Apart
    PROVE  Spec => [](WaitsUpward /\ NoWaitCycle)
<1>1. IInv => WaitsUpward
  <2> SUFFICES ASSUME IInv, NEW t \in Threads, NEW l \in Names, NEW w \in Names,
                      Next_is(t, "acquire"), Head(todo[t]).lock = w,
                      holder[instance(t, w)] # t, holder[instance(t, l)] = t
               PROVE  LevelOf(t, l) < LevelOf(t, w)
    BY DEF WaitsUpward
  <2>1. /\ Head(todo[t]) = acquire(w) /\ Head(todo[t]) = Steps(t)[Done(t) + 1]
        /\ Done(t) \in 0 .. Len(Steps(t)) - 1
        /\ Inside(t, l) \in Nat /\ Inside(t, w) \in Nat
    BY NextInstruction, Place DEF IInv
  <2>2. Inside(t, l) > 0 /\ Inside(t, w) = 0
    BY <2>1 DEF IInv, Held
  <2>3. operation[t] \in DOMAIN Program
    BY Setup DEF Setup
  <2>4. /\ Len(Program[operation[t]]) = Length[operation[t]]
        /\ \A i \in 1 .. Length[operation[t]] : Program[operation[t]][i] = Listing[operation[t]][i]
    BY <2>3, Unfolded
  <2>5. Len(Steps(t)) \in Nat
    BY Place DEF IInv
  <2>6. Done(t) \in 0 .. Length[operation[t]] - 1 /\ acquire(w) = Listing[operation[t]][Done(t) + 1]
    <3>1. Steps(t) = Program[operation[t]]
      BY DEF Steps
    <3>2. Length[operation[t]] \in Nat /\ Done(t) \in 0 .. Length[operation[t]] - 1
      BY <2>1, <2>4, <2>5, <3>1
    <3>3. Done(t) + 1 \in 1 .. Length[operation[t]]
      BY <3>2
    <3> QED BY <2>1, <2>4, <3>1, <3>2, <3>3
  <2>7. Ascends(operation[t], Done(t), l, w)
    BY <2>3, <2>6, OperationsAscend
  <2>8. operation[t] = "execute" \/ (Approves(process[t]) <=> operation[t] = "approve")
    <3>1. operation[t] \in {"decide", "approve", "reject", "execute"}
      BY <2>3 DEF Program
    <3> QED BY <3>1 DEF Apart, Approves
  <2>9. Approves(process[t]) \in BOOLEAN
    BY DEF Approves
  <2> QED BY <2>2, <2>7, <2>8, <2>9 DEF Ascends, Inside, LevelOf
<1>2. IInv /\ WaitsUpward => NoWaitCycle
  <2> SUFFICES ASSUME IInv, WaitsUpward, NEW s \in Threads, NEW t \in Threads,
                      WaitsFor(s, t), WaitsFor(t, s)
               PROVE  FALSE
    BY DEF NoWaitCycle
  <2>1. PICK a \in Names : a = Head(todo[s]).lock
    BY NextInstruction DEF WaitsFor
  <2>2. PICK b \in Names : b = Head(todo[t]).lock
    BY NextInstruction DEF WaitsFor
  <2>3. /\ holder[instance(s, a)] = t /\ holder[instance(t, b)] = s /\ s # t
        /\ Next_is(s, "acquire") /\ Next_is(t, "acquire")
    BY <2>1, <2>2 DEF WaitsFor, Wanted
  <2>4. instance(s, a) = instance(t, a) /\ instance(t, b) = instance(s, b)
    <3>1. instance(s, a) \in Locks /\ instance(t, b) \in Locks /\ s # Nobody /\ t # Nobody
      BY Instances, Setup DEF Setup
    <3>2. PICK l \in Names : instance(s, a) = instance(t, l)
      BY <2>3, <3>1 DEF IInv, Own
    <3>3. PICK m \in Names : instance(t, b) = instance(s, m)
      BY <2>3, <3>1 DEF IInv, Own
    <3> QED BY <3>2, <3>3, Instances
  <2>5. LevelOf(s, b) < LevelOf(s, a) /\ LevelOf(t, a) < LevelOf(t, b)
    BY <2>1, <2>2, <2>3, <2>4 DEF WaitsUpward
  <2>6. ASSUME NEW l \in Names, instance(s, l) = instance(t, l)
        PROVE  LevelOf(s, l) = LevelOf(t, l) /\ LevelOf(s, l) \in Nat
    <3>1. CASE l = "T"
      BY <3>1 DEF LevelOf, Level
    <3>2. CASE l # "T"
      <4>1. process[s] = process[t]
        BY <2>6, <3>2 DEF instance
      <4> QED BY <4>1 DEF LevelOf, Level
    <3> QED BY <3>1, <3>2
  <2> QED BY <2>4, <2>5, <2>6
<1> QED BY <1>1, <1>2, LocksFollowTheCode, PTL

============================================================================
