------------------------- MODULE McpUpstream_proofs -------------------------
(***************************************************************************)
(* The MCP client for any number of callers, processes and pipe room: what *)
(* it does is what RemoteCall allows, and its reader threads never block   *)
(* unless one has outlived its process's replacement.                      *)
(***************************************************************************)
EXTENDS McpUpstream, FiniteSetTheorems, SequenceTheorems, WellFoundedInduction, TLAPS

Places == {"idle", "acquire", "ensure", "register", "send", "wait", "initialized", "store", "done"}
Held == {"ensure", "register", "send", "wait", "initialized"}
Waiting == {"send", "wait"}
Ops == Callers \cup {"initialize"}
Messages == [id : Nat, op : Ops \cup {"initialized", "refuse"}]
Tasks == [id : Nat \ {0}, op : Ops, did : BOOLEAN]
Lines == [id : Nat, of : Ops \cup {"ask", "noise", "exited"}, ok : BOOLEAN]
Readers == [at : {"idle", "reading", "putting", "leaving", "done"}, to : SUBSET Nat,
            reply : Lines \cup {None}]

Shape ==
    /\ lock \in Callers \cup {None}
    /\ pc \in [Callers -> Places]
    /\ op \in [Callers -> Ops]
    /\ rid \in [Callers -> Nat]
    /\ told = [c \in Callers |-> told[c]]
    /\ proc \in Procs \cup {0}
    /\ life \in [Procs -> {"unborn", "alive", "dead"}]
    /\ next_id \in Nat
    /\ pending \subseteq 1 .. next_id
    /\ box \in [1 .. next_id -> Lines \cup {None}]
    /\ reader \in [Procs -> Readers]
    /\ stdin \in [Procs -> Seq(Messages)]
    /\ stdout \in [Procs -> Seq(Lines)]
    /\ handling \in [Procs -> SUBSET Tasks]
    /\ effects \in [Calls -> Nat]

(* One caller holds the lock, from _ensure to the end of its request; it   *)
(* introduces the client first if it has to, then makes its own request.   *)
Turn(c) ==
    /\ pc[c] \in Held <=> lock = c
    /\ pc[c] \in Held \ {"ensure"} => proc # 0
    /\ pc[c] \in Waiting => rid[c] \in 1 .. next_id
    /\ op[c] \in {"initialize", c}
    /\ pc[c] \in {"idle", "acquire", "ensure", "initialized"} => op[c] = "initialize"
    /\ pc[c] = "store" => c \in Listings
    /\ pc[c] # "done" => told[c] = None

(* The request of a call is in one place at a time, so that it is          *)
(* performed once.                                                         *)
Request(m, c) == m.id # 0 /\ m.op = c
Once(c) ==
    /\ ~(pc[c] \in {"wait", "done"} /\ op[c] = c) =>
          /\ effects[c] = 0
          /\ \A p \in Procs : /\ \A i \in DOMAIN stdin[p] : ~Request(stdin[p][i], c)
                              /\ \A m \in handling[p] : m.op # c
    /\ \A p, q \in Procs : \A i \in DOMAIN stdin[p], j \in DOMAIN stdin[q] :
          Request(stdin[p][i], c) /\ Request(stdin[q][j], c) => p = q /\ i = j
    /\ \A p, q \in Procs : \A i \in DOMAIN stdin[p], m \in handling[q] :
          ~(Request(stdin[p][i], c) /\ m.op = c)
    /\ \A p \in Procs : \A i \in DOMAIN stdin[p] : Request(stdin[p][i], c) => effects[c] = 0
    /\ \A p, q \in Procs : \A m \in handling[p], n \in handling[q] :
          m.op = c /\ n.op = c => p = q /\ m = n
    /\ \A p \in Procs : \A m \in handling[p] : m.op = c => effects[c] = IF m.did THEN 1 ELSE 0
    /\ effects[c] \in {0, 1}

(* A request or a reply under an id is that of the caller that waits under *)
(* it, and says "done" of a call only if it was performed.                 *)
Fits(id, of) ==
    /\ id \in 1 .. next_id
    /\ \A c \in Callers : pc[c] \in Waiting /\ rid[c] = id => of = op[c]

Good(line) ==
    /\ line.id \in 0 .. next_id
    /\ line.ok => Fits(line.id, line.of) /\ (line.of \in Calls => effects[line.of] = 1)

Asked(p) ==
    \A i \in DOMAIN stdin[p] :
       stdin[p][i].id # 0 => stdin[p][i].op \in Ops /\ Fits(stdin[p][i].id, stdin[p][i].op)
Worked(p) == \A m \in handling[p] : Fits(m.id, m.op)
Written(p) == \A i \in DOMAIN stdout[p] : Good(stdout[p][i])
Delivering(p) ==
    /\ reader[p].to \subseteq 1 .. next_id
    /\ reader[p].at \notin {"putting", "leaving"} => reader[p].to = {}
    /\ reader[p].at \in {"putting", "leaving"} => reader[p].reply \in Lines
    /\ reader[p].at = "putting" => reader[p].to = {reader[p].reply.id} /\ Good(reader[p].reply)
    /\ reader[p].at = "leaving" => ~reader[p].reply.ok
Delivered(i) == box[i] # None /\ box[i].ok => box[i].id = i /\ Good(box[i])

Answers ==
    /\ \A p \in Procs : Asked(p) /\ Worked(p) /\ Written(p) /\ Delivering(p)
    /\ \A i \in 1 .. next_id : Delivered(i)

(* Processes are started in order, one at a time, and there is always one  *)
(* left to start.                                                          *)
Born(p) == life[p] # "unborn"
Processes ==
    /\ \A p, q \in Procs : Born(q) /\ p < q => Born(p)
    /\ \A p \in Procs : life[p] = "alive" => p = proc
    /\ proc # 0 => Born(proc) /\ ~Superseded(proc)
    /\ Deaths <= MaxDeaths

CallInv ==
    /\ Shape /\ Processes
    /\ \A c \in Callers : Turn(c)
    /\ \A c \in Calls : Once(c)
    /\ Answers

(* The ids that a process and its reader may still speak of.               *)
IdsOf(s) == {s[k].id : k \in DOMAIN s}
Ids(p) ==
    (IdsOf(stdin[p]) \cup {m.id : m \in handling[p]} \cup IdsOf(stdout[p]) \cup reader[p].to) \ {0}

(* The waiters of a process are those registered while it was the present  *)
(* one: what the earlier processes speak of is older.                      *)
Apart ==
    /\ \A p \in Procs : ~Born(p) => Ids(p) = {} /\ reader[p].at = "idle"
    /\ \A p, q \in Procs : p < q => \A i \in Ids(p), j \in Ids(q) : i < j
    /\ \A p \in Procs : Superseded(p) =>
          \A i \in Ids(p) : /\ \A j \in pending : i < j
                            /\ \A c \in Callers : pc[c] \in Waiting => i < rid[c]

(* So a reader puts into each waiter once, and finds it empty.             *)
Unblocked ==
    /\ \A p \in Procs : \A i \in reader[p].to : box[i] = None
    /\ \A p \in Procs : Born(p) /\ ~Superseded(p) /\ reader[p].at \in {"reading", "putting"} =>
          \A i \in pending : box[i] = None /\ i \notin reader[p].to

Waiters == Apart /\ Unblocked

WaitInv == CallInv /\ (outlived = {} => Waiters)
----------------------------------------------------------------------------
(* Every set of numbers has a least one.                                   *)
LEMMA LeastNumber ==
    ASSUME NEW S \in SUBSET Nat, S # {}
    PROVE  \E n \in S : \A m \in S : n <= m
<1> DEFINE R == {ss \in Nat \X Nat : ss[1] < ss[2]}
<1>1. IsWellFoundedOn(R, Nat)
  BY NatLessThanWellFounded DEF OpToRel
<1>2. PICK n \in S : \A m \in S : ~ (<<m, n>> \in R)
  BY <1>1, WFMin
<1>3. ASSUME NEW m \in S PROVE n <= m
  <2>1. n \in Nat /\ m \in Nat /\ <<m, n>> \in Nat \X Nat
    BY <1>3
  <2>2. <<m, n>> \in R \/ ~(m < n)
    BY <2>1
  <2>3. QED
    BY <1>2, <2>1, <2>2
<1>4. QED
  BY <1>3

(* While no process is running one is left to start, after all the others. *)
LEMMA FreshProcess ==
    ASSUME Shape, Processes, ~Running
    PROVE  /\ Newest \in Procs /\ ~Born(Newest) /\ Newest # 0
           /\ \A q \in Procs : Born(q) <=> q < Newest
<1> DEFINE dead == {p \in Procs : life[p] = "dead"}
<1>0. MaxDeaths \in Nat /\ Procs \subseteq Nat /\ 0 \notin Procs
  BY Pipes DEF Procs
<1>1. Unborn # {}
  <2>1. SUFFICES ASSUME Unborn = {} PROVE FALSE
    OBVIOUS
  <2>2. \A p \in Procs : life[p] # "alive"
    BY <1>0 DEF Processes, Running
  <2>3. dead = Procs
    BY <2>1, <2>2 DEF Unborn, Shape
  <2>4. Cardinality(1 .. MaxDeaths + 1) = MaxDeaths + 1
    <3> DEFINE m == MaxDeaths + 1
    <3>1. 1 \in Int /\ m \in Int /\ ~(1 > m) /\ m - 1 + 1 = m
      BY <1>0
    <3> HIDE DEF m
    <3>2. Cardinality(1 .. m) = IF 1 > m THEN 0 ELSE m - 1 + 1
      BY <3>1, FS_Interval
    <3>3. QED
      BY <3>1, <3>2 DEF m
  <2>5. Cardinality(dead) = MaxDeaths + 1
    BY <2>3, <2>4 DEF Procs
  <2>6. Cardinality(dead) <= MaxDeaths
    BY DEF Processes, Deaths
  <2>7. QED
    BY <1>0, <2>5, <2>6
<1>2. \E p \in Unborn : \A q \in Unborn : p <= q
  <2>1. Unborn \in SUBSET Nat
    BY <1>0 DEF Unborn
  <2>2. QED
    BY <1>1, <2>1, LeastNumber
<1>3. Newest \in Unborn /\ \A q \in Unborn : Newest <= q
  BY <1>2 DEF Newest
<1>4. Newest \in Procs /\ ~Born(Newest) /\ Newest # 0
  BY <1>0, <1>3 DEF Unborn, Born
<1>5. ASSUME NEW q \in Procs PROVE Born(q) <=> q < Newest
  <2>1. q \in Nat /\ Newest \in Nat
    BY <1>0, <1>4
  <2>2. CASE Born(q)
    <3>1. ~(Newest < q) /\ q # Newest
      BY <1>4, <2>2 DEF Processes
    <3>2. QED
      BY <2>1, <2>2, <3>1
  <2>3. CASE ~Born(q)
    <3>1. q \in Unborn
      BY <2>3 DEF Born, Unborn
    <3>2. QED
      BY <1>3, <2>1, <2>3, <3>1
  <2>4. QED
    BY <2>2, <2>3
<1>6. QED
  BY <1>4, <1>5

(* A step that starts and ends no process.                                 *)
LEMMA ProcessesFrame ==
    ASSUME Processes, life' = life, proc' = proc
    PROVE  Processes'
  BY DEF Processes, Born, Superseded, Deaths

(* A step starts to wait under a new id only, and undoes no effect.        *)
Steady ==
    /\ next_id' \in Nat /\ next_id <= next_id'
    /\ \A c \in Callers : pc'[c] \in Waiting =>
          \/ pc[c] \in Waiting /\ rid'[c] = rid[c] /\ op'[c] = op[c]
          \/ rid'[c] \notin 1 .. next_id
    /\ \A c \in Calls : effects[c] = 1 => effects'[c] = 1

(* What fits the waiter of an id fits it after a steady step.              *)
LEMMA FitsKept ==
    ASSUME Shape, Steady, NEW id, NEW of, Fits(id, of)
    PROVE  Fits(id, of)'
<1>1. id \in 1 .. next_id'
  BY DEF Fits, Steady, Shape
<1>2. ASSUME NEW c \in Callers, pc'[c] \in Waiting, rid'[c] = id PROVE of = op'[c]
  BY <1>2 DEF Fits, Steady
<1>3. QED
  BY <1>1, <1>2 DEF Fits

(* A line that says what is true goes on to do so.                         *)
LEMMA GoodKept ==
    ASSUME Shape, Steady, NEW line, Good(line)
    PROVE  Good(line)'
<1>1. line.id \in 0 .. next_id'
  BY DEF Good, Steady, Shape
<1>2. CASE line.ok
  <2>1. Fits(line.id, line.of)'
    BY <1>2, FitsKept DEF Good
  <2>2. line.of \in Calls => effects'[line.of] = 1
    BY <1>2 DEF Good, Steady
  <2>3. QED
    BY <1>1, <2>1, <2>2 DEF Good
<1>3. CASE ~line.ok
  BY <1>1, <1>3 DEF Good
<1>4. QED
  BY <1>2, <1>3

(* The parts that a steady step does not touch.                            *)
LEMMA AnswersKept ==
    ASSUME Shape, Steady, NEW p
    PROVE  /\ Asked(p) /\ stdin'[p] = stdin[p] => Asked(p)'
           /\ Worked(p) /\ handling'[p] = handling[p] => Worked(p)'
           /\ Written(p) /\ stdout'[p] = stdout[p] => Written(p)'
           /\ Delivering(p) /\ reader'[p] = reader[p] => Delivering(p)'
<1>1. ASSUME Asked(p), stdin'[p] = stdin[p] PROVE Asked(p)'
  <2>1. SUFFICES ASSUME NEW i \in DOMAIN stdin[p], stdin[p][i].id # 0
                 PROVE  stdin[p][i].op \in Ops /\ Fits(stdin[p][i].id, stdin[p][i].op)'
    BY <1>1 DEF Asked
  <2>2. stdin[p][i].op \in Ops /\ Fits(stdin[p][i].id, stdin[p][i].op)
    BY <1>1, <2>1 DEF Asked
  <2>3. PICK id, of : id = stdin[p][i].id /\ of = stdin[p][i].op
    OBVIOUS
  <2>4. Fits(id, of)'
    BY <2>2, <2>3, FitsKept
  <2>5. QED
    BY <1>1, <2>2, <2>3, <2>4
<1>2. ASSUME Worked(p), handling'[p] = handling[p] PROVE Worked(p)'
  <2>1. ASSUME NEW m \in handling[p] PROVE Fits(m.id, m.op)'
    BY <1>2, FitsKept DEF Worked
  <2>2. QED
    BY <1>2, <2>1 DEF Worked
<1>3. ASSUME Written(p), stdout'[p] = stdout[p] PROVE Written(p)'
  <2>1. ASSUME NEW i \in DOMAIN stdout[p], NEW line, line = stdout[p][i] PROVE Good(line)'
    BY <1>3, <2>1, GoodKept DEF Written
  <2>2. QED
    BY <1>3, <2>1 DEF Written, Good, Fits
<1>4. ASSUME Delivering(p), reader'[p] = reader[p] PROVE Delivering(p)'
  <2>1. PICK line : line = reader[p].reply
    OBVIOUS
  <2>2. Good(line) => Good(line)'
    BY GoodKept
  <2>3. reader[p].to \subseteq 1 .. next_id'
    BY <1>4 DEF Delivering, Steady, Shape
  <2>4. QED
    BY <1>4, <2>1, <2>2, <2>3 DEF Delivering, Good, Fits
<1>5. QED
  BY <1>1, <1>2, <1>3, <1>4

(* The waiters that a steady step does not touch.                          *)
LEMMA DeliveredKept ==
    ASSUME Shape, Steady, NEW i, Delivered(i), box'[i] = box[i]
    PROVE  Delivered(i)'
<1>1. PICK line : line = box[i]
  OBVIOUS
<1>2. Good(line) => Good(line)'
  BY GoodKept
<1>3. QED
  BY <1>1, <1>2 DEF Delivered, Good, Fits

(* A step that changes no pipe, reader or waiter.                          *)
LEMMA AnswersFrame ==
    ASSUME Shape, Answers, Steady, next_id' = next_id,
           UNCHANGED <<stdin, handling, stdout, reader, box>>
    PROVE  Answers'
<1>1. ASSUME NEW p \in Procs PROVE (Asked(p) /\ Worked(p) /\ Written(p) /\ Delivering(p))'
  BY AnswersKept DEF Answers
<1>2. ASSUME NEW i \in 1 .. next_id PROVE Delivered(i)'
  BY DeliveredKept DEF Answers
<1>3. QED
  BY <1>1, <1>2 DEF Answers

(* A call whose request is not touched.                                    *)
LEMMA OnceFrame ==
    ASSUME NEW c, Once(c), UNCHANGED <<stdin, handling, effects>>,
           pc[c] \in {"wait", "done"} /\ op[c] = c => pc'[c] \in {"wait", "done"} /\ op'[c] = c
    PROVE  Once(c)'
  BY DEF Once, Request

(* Requests that are lost or answered.                                     *)
LEMMA OnceShrinks ==
    ASSUME Shape, NEW c, Once(c), UNCHANGED <<effects, pc, op>>,
           \A p \in Procs : stdin'[p] \in {stdin[p], <<>>} /\ handling'[p] \subseteq handling[p]
    PROVE  Once(c)'
<1>1. ASSUME NEW p \in Procs, NEW i \in DOMAIN stdin'[p]
      PROVE  i \in DOMAIN stdin[p] /\ stdin'[p][i] = stdin[p][i]
  <2>1. DOMAIN << >> = {}
    OBVIOUS
  <2>2. stdin'[p] = stdin[p]
    BY <1>1, <2>1
  <2>3. QED
    BY <1>1, <2>2
<1>2. ASSUME NEW p \in Procs, NEW m \in handling'[p] PROVE m \in handling[p]
  OBVIOUS
<1>3. QED
  BY <1>1, <1>2 DEF Once, Request

(* The turns of the callers that a step is not of.                         *)
LEMMA TurnOthers ==
    ASSUME Shape, \A d \in Callers : Turn(d), NEW c \in Callers,
           next_id' \in Nat, next_id <= next_id',
           lock' = lock \/ (lock = c /\ lock' = None) \/ (lock = None /\ lock' = c),
           proc' = proc \/ lock = c,
           NEW d \in Callers, d # c,
           pc'[d] = pc[d], op'[d] = op[d], rid'[d] = rid[d], told'[d] = told[d]
    PROVE  Turn(d)'
<1>1. Turn(d) /\ d # None /\ rid[d] \in Nat
  BY Pipes DEF Shape
<1>2. pc'[d] \in Held <=> lock' = d
  BY <1>1 DEF Turn
<1>3. pc'[d] \in Held \ {"ensure"} => proc' # 0
  BY <1>1, <1>2 DEF Turn
<1>4. pc'[d] \in Waiting => rid'[d] \in 1 .. next_id'
  BY <1>1 DEF Turn, Shape
<1>5. QED
  BY <1>1, <1>2, <1>3, <1>4 DEF Turn

----------------------------------------------------------------------------
(* What a step of caller c leaves to the others, when it moves from a      *)
(* place where it does not wait for its own answer.                        *)
OnlyBy(c) == \A d \in Callers : d # c =>
    pc'[d] = pc[d] /\ op'[d] = op[d] /\ rid'[d] = rid[d] /\ told'[d] = told[d]

(* After a step of one caller everybody's turn is in order again.          *)
LEMMA TurnAll ==
    ASSUME CallInv, NEW c \in Callers, Turn(c)', OnlyBy(c),
           next_id' \in Nat, next_id <= next_id',
           lock' = lock \/ (lock = c /\ lock' = None) \/ (lock = None /\ lock' = c),
           proc' = proc \/ lock = c
    PROVE  \A d \in Callers : Turn(d)'
<1>1. ASSUME NEW d \in Callers, d # c PROVE Turn(d)'
  <2>1. pc'[d] = pc[d] /\ op'[d] = op[d] /\ rid'[d] = rid[d] /\ told'[d] = told[d]
    BY <1>1 DEF OnlyBy
  <2>2. Shape /\ \A e \in Callers : Turn(e)
    BY DEF CallInv
  <2>3. QED
    BY <1>1, <2>1, <2>2, TurnOthers
<1>2. QED
  BY <1>1

(* The steps of a caller that touch neither pipes nor waiters.             *)
LEMMA CallPlain ==
    ASSUME CallInv, NEW c \in Callers,
           Begin(c) \/ Acquire(c) \/ EnsureRunning(c) \/ LaunchFails(c) \/ StoreTools(c)
    PROVE  CallInv'
<1>1. Shape /\ Turn(c) /\ c # None /\ pc[c] \in Places
  BY Pipes DEF CallInv, Shape
<1>2. UNCHANGED <<rid, proc, next_id, pipeVars, waiterVars>>
  BY DEF Begin, Acquire, EnsureRunning, LaunchFails, StoreTools
<1>3. UNCHANGED <<life, stdin, stdout, handling, effects, pending, box, reader>>
  BY <1>2 DEF pipeVars, waiterVars
<1>4. /\ pc' \in [Callers -> Places] /\ op' \in [Callers -> Ops]
      /\ told' = [d \in Callers |-> told'[d]] /\ lock' \in Callers \cup {None}
      /\ OnlyBy(c) /\ pc[c] \notin {"wait", "done"} /\ pc'[c] \notin Waiting
      /\ lock' = lock \/ (lock = c /\ lock' = None) \/ (lock = None /\ lock' = c)
      /\ Turn(c)'
  <2>1. CASE Begin(c)
    <3>1. op' = op /\ lock' = lock /\ told' = [d \in Callers |-> told'[d]]
      BY <1>1, <2>1 DEF Begin, Shape
    <3>2. /\ pc[c] = "idle" /\ pc' \in [Callers -> Places] /\ pc'[c] \in {"acquire", "done"}
          /\ OnlyBy(c) /\ (pc'[c] = "acquire" => told' = told)
      BY <1>1, <1>2, <2>1 DEF Begin, Goto, OnlyBy, Shape, Places
    <3>3. QED
      BY <1>1, <1>2, <3>1, <3>2 DEF Turn, Held, Waiting, Shape
  <2>2. CASE Acquire(c)
    <3>1. /\ op' = op /\ lock = None /\ lock' = c /\ told' = told /\ pc[c] = "acquire"
          /\ pc' = [pc EXCEPT ![c] = "ensure"]
      BY <2>2 DEF Acquire, Goto
    <3>2. /\ pc' \in [Callers -> Places] /\ pc'[c] = "ensure" /\ OnlyBy(c)
      BY <1>1, <1>2, <3>1 DEF OnlyBy, Shape, Places
    <3>3. QED
      BY <1>1, <1>2, <3>1, <3>2 DEF Turn, Held, Waiting, Shape
  <2>3. CASE EnsureRunning(c)
    <3>1. /\ op' = [op EXCEPT ![c] = c] /\ lock' = lock /\ told' = told /\ pc[c] = "ensure"
          /\ pc' = [pc EXCEPT ![c] = "register"] /\ proc # 0
      BY <2>3 DEF EnsureRunning, Goto, Running
    <3>2. /\ pc' \in [Callers -> Places] /\ pc'[c] = "register" /\ OnlyBy(c)
          /\ op' \in [Callers -> Ops] /\ op'[c] = c
      BY <1>1, <1>2, <3>1 DEF OnlyBy, Shape, Places, Ops
    <3>3. QED
      BY <1>1, <1>2, <3>1, <3>2 DEF Turn, Held, Waiting, Shape
  <2>4. CASE LaunchFails(c)
    <3>1. /\ op' = op /\ lock' = None /\ told' = [told EXCEPT ![c] = "failed"] /\ pc[c] = "ensure"
          /\ pc' = [pc EXCEPT ![c] = "done"]
      BY <2>4 DEF LaunchFails, Raise, Goto
    <3>2. /\ pc' \in [Callers -> Places] /\ pc'[c] = "done" /\ OnlyBy(c)
          /\ told' = [d \in Callers |-> told'[d]]
      BY <1>1, <1>2, <3>1 DEF OnlyBy, Shape, Places
    <3>3. QED
      BY <1>1, <1>2, <3>1, <3>2 DEF Turn, Held, Waiting, Shape
  <2>5. CASE StoreTools(c)
    <3>1. /\ op' = op /\ lock' = lock /\ told' = [told EXCEPT ![c] = "listed"] /\ pc[c] = "store"
          /\ pc' = [pc EXCEPT ![c] = "done"]
      BY <2>5 DEF StoreTools, Goto
    <3>2. /\ pc' \in [Callers -> Places] /\ pc'[c] = "done" /\ OnlyBy(c)
          /\ told' = [d \in Callers |-> told'[d]]
      BY <1>1, <1>2, <3>1 DEF OnlyBy, Shape, Places
    <3>3. QED
      BY <1>1, <1>2, <3>1, <3>2 DEF Turn, Held, Waiting, Shape
  <2>6. QED
    BY <2>1, <2>2, <2>3, <2>4, <2>5
<1>5. Shape'
  BY <1>1, <1>2, <1>3, <1>4 DEF Shape
<1>6. \A d \in Callers : Turn(d)'
  <2>1. next_id' \in Nat /\ next_id <= next_id' /\ proc' = proc
    BY <1>1, <1>2 DEF Shape
  <2>2. QED
    BY <1>4, <2>1, TurnAll
<1>7. \A d \in Calls : Once(d)'
  <2>1. ASSUME NEW d \in Calls PROVE Once(d)'
    <3>1. pc[d] \in {"wait", "done"} /\ op[d] = d => pc'[d] \in {"wait", "done"} /\ op'[d] = d
      BY <1>4 DEF OnlyBy, Callers
    <3>2. QED
      BY <1>3, <3>1, OnceFrame DEF CallInv
  <2>2. QED
    BY <2>1
<1>8. Steady
  BY <1>1, <1>2, <1>3, <1>4 DEF Steady, OnlyBy, Shape
<1>9. Answers'
  BY <1>1, <1>2, <1>3, <1>8, AnswersFrame DEF CallInv
<1>10. Processes'
  BY <1>2, <1>3, ProcessesFrame DEF CallInv
<1>11. QED
  BY <1>5, <1>6, <1>7, <1>9, <1>10 DEF CallInv

(* _ensure starts the process after all the others.                        *)
LEMMA CallLaunch ==
    ASSUME CallInv, NEW c \in Callers, Launch(c)
    PROVE  CallInv'
<1> DEFINE p == Newest
<1>1. Shape /\ Processes /\ Turn(c) /\ c # None
  BY Pipes DEF CallInv
<1>2. /\ pc[c] = "ensure" /\ ~Running /\ proc' = p /\ life' = [life EXCEPT ![p] = "alive"]
      /\ reader' = [reader EXCEPT ![p] = [Idle EXCEPT !.at = "reading"]]
      /\ pending' = {} /\ next_id' = next_id /\ op' = [op EXCEPT ![c] = "initialize"]
      /\ pc' = [pc EXCEPT ![c] = "register"]
      /\ UNCHANGED <<lock, rid, told, stdin, stdout, handling, effects, box>>
  BY DEF Launch, StartProcess, Goto
<1>3. /\ p \in Procs /\ ~Born(p) /\ p # 0
      /\ \A q \in Procs : Born(q) <=> q < p
  BY <1>1, <1>2, FreshProcess
<1>4. Procs \subseteq Nat
  BY DEF Procs
<1> HIDE DEF p
<1>5. /\ life' \in [Procs -> {"unborn", "alive", "dead"}] /\ life'[p] = "alive"
      /\ \A q \in Procs : q # p => life'[q] = life[q]
  BY <1>1, <1>2, <1>3 DEF Shape
<1>6. [Idle EXCEPT !.at = "reading"] = [at |-> "reading", to |-> {}, reply |-> None]
  BY DEF Idle
<1>7. /\ reader' \in [Procs -> Readers] /\ reader'[p] = [at |-> "reading", to |-> {}, reply |-> None]
      /\ \A q \in Procs : q # p => reader'[q] = reader[q]
  <2>1. [at |-> "reading", to |-> {}, reply |-> None] \in Readers
    BY DEF Readers
  <2>2. QED
    BY <1>1, <1>2, <1>3, <1>6, <2>1 DEF Shape
<1>8. Shape'
  <2>1. op' \in [Callers -> Ops] /\ pc' \in [Callers -> Places]
    BY <1>1, <1>2 DEF Shape, Ops, Places
  <2>2. QED
    BY <1>1, <1>2, <1>3, <1>5, <1>7, <2>1 DEF Shape
<1>9. Processes'
  <2>1. \A q \in Procs : life'[q] # "unborn" <=> q < p \/ q = p
    BY <1>3, <1>5 DEF Born
  <2>2. \A q, r \in Procs : Born(r)' /\ q < r => Born(q)'
    <3>1. ASSUME NEW q \in Procs, NEW r \in Procs, Born(r)', q < r PROVE Born(q)'
      BY <1>3, <1>4, <2>1, <3>1 DEF Born
    <3>2. QED
      BY <3>1
  <2>3. \A q \in Procs : life'[q] = "alive" => q = proc'
    <3>1. \A q \in Procs : life[q] # "alive"
      BY <1>1, <1>2 DEF Processes, Running, Procs
    <3>2. QED
      BY <1>2, <1>5, <3>1
  <2>4. Born(proc)' /\ ~Superseded(proc)'
    BY <1>2, <1>3, <1>4, <2>1 DEF Born, Superseded
  <2>5. {q \in Procs : life'[q] = "dead"} = {q \in Procs : life[q] = "dead"}
    BY <1>3, <1>5 DEF Born
  <2>6. Deaths' <= MaxDeaths
    BY <1>1, <2>5 DEF Processes, Deaths
  <2>7. QED
    BY <2>2, <2>3, <2>4, <2>6 DEF Processes
<1>10. OnlyBy(c) /\ pc'[c] = "register" /\ op'[c] = "initialize"
  BY <1>1, <1>2 DEF OnlyBy, Shape
<1>11. \A d \in Callers : Turn(d)'
  <2>1. Turn(c)'
    BY <1>1, <1>2, <1>3, <1>10 DEF Turn, Held, Waiting
  <2>2. lock = c /\ next_id' \in Nat /\ next_id <= next_id'
    BY <1>1, <1>2 DEF Turn, Held, Shape
  <2>3. QED
    BY <1>2, <1>10, <2>1, <2>2, TurnAll
<1>12. \A d \in Calls : Once(d)'
  <2>1. ASSUME NEW d \in Calls PROVE Once(d)'
    <3>1. pc[d] \in {"wait", "done"} /\ op[d] = d => pc'[d] \in {"wait", "done"} /\ op'[d] = d
      BY <1>2, <1>10 DEF OnlyBy, Callers
    <3>2. QED
      BY <1>2, <3>1, OnceFrame DEF CallInv
  <2>2. QED
    BY <2>1
<1>13. Steady
  BY <1>1, <1>2, <1>10 DEF Steady, OnlyBy, Shape, Waiting
<1>14. Answers'
  <2>1. ASSUME NEW q \in Procs PROVE (Asked(q) /\ Worked(q) /\ Written(q) /\ Delivering(q))'
    <3>1. (Asked(q) /\ Worked(q) /\ Written(q))'
      BY <1>1, <1>2, <1>13, AnswersKept DEF CallInv, Answers
    <3>2. Delivering(q)'
      <4>1. CASE q = p
        BY <1>7, <4>1 DEF Delivering
      <4>2. CASE q # p
        BY <1>1, <1>7, <1>13, <4>2, AnswersKept DEF CallInv, Answers
      <4>3. QED
        BY <4>1, <4>2
    <3>3. QED
      BY <3>1, <3>2
  <2>2. ASSUME NEW i \in 1 .. next_id PROVE Delivered(i)'
    BY <1>1, <1>2, <1>13, DeliveredKept DEF CallInv, Answers
  <2>3. QED
    BY <1>2, <2>1, <2>2 DEF Answers
<1>15. QED
  BY <1>8, <1>9, <1>11, <1>12, <1>14 DEF CallInv

(* _request_locked registers a waiter under an id nobody has used.         *)
LEMMA CallRegister ==
    ASSUME CallInv, NEW c \in Callers, Register(c)
    PROVE  CallInv'
<1> DEFINE n == next_id + 1
<1>1. Shape /\ Processes /\ Turn(c) /\ c # None
  BY Pipes DEF CallInv
<1>2. /\ pc[c] = "register" /\ next_id' = n /\ rid' = [rid EXCEPT ![c] = n]
      /\ pending' = pending \cup {n} /\ box' = [i \in 1 .. n |-> IF i = n THEN None ELSE box[i]]
      /\ pc' = [pc EXCEPT ![c] = "send"]
      /\ UNCHANGED <<lock, op, told, proc, pipeVars, reader>>
  BY DEF Register, Goto
<1>3. UNCHANGED <<life, stdin, stdout, handling, effects>>
  BY <1>2 DEF pipeVars
<1>4. next_id \in Nat /\ n \in Nat /\ n \notin 1 .. next_id /\ next_id <= n
      /\ 1 .. n = (1 .. next_id) \cup {n}
  BY <1>1 DEF Shape
<1> HIDE DEF n
<1>5. /\ box' \in [1 .. n -> Lines \cup {None}] /\ box'[n] = None
      /\ \A i \in 1 .. next_id : box'[i] = box[i]
  BY <1>1, <1>2, <1>4 DEF Shape
<1>6. OnlyBy(c) /\ pc'[c] = "send" /\ rid'[c] = n /\ rid' \in [Callers -> Nat] /\ pc' \in [Callers -> Places]
  BY <1>1, <1>2, <1>4 DEF OnlyBy, Shape, Places
<1>7. Shape'
  <2>1. pending' \subseteq 1 .. n
    BY <1>1, <1>2, <1>4 DEF Shape
  <2>2. QED
    BY <1>1, <1>2, <1>3, <1>4, <1>5, <1>6, <2>1 DEF Shape
<1>8. \A d \in Callers : Turn(d)'
  <2>1. n \in 1 .. n
    BY <1>4
  <2>2. Turn(c)'
    BY <1>1, <1>2, <1>6, <2>1 DEF Turn, Held, Waiting
  <2>3. QED
    BY <1>2, <1>4, <1>6, <2>2, TurnAll
<1>9. \A d \in Calls : Once(d)'
  <2>1. ASSUME NEW d \in Calls PROVE Once(d)'
    <3>1. pc[d] \in {"wait", "done"} /\ op[d] = d => pc'[d] \in {"wait", "done"} /\ op'[d] = d
      BY <1>2, <1>6 DEF OnlyBy, Callers
    <3>2. QED
      BY <1>3, <3>1, OnceFrame DEF CallInv
  <2>2. QED
    BY <2>1
<1>10. Steady
  BY <1>2, <1>3, <1>4, <1>6 DEF Steady, OnlyBy
<1>11. Answers'
  <2>1. ASSUME NEW q \in Procs PROVE (Asked(q) /\ Worked(q) /\ Written(q) /\ Delivering(q))'
    BY <1>1, <1>2, <1>3, <1>10, AnswersKept DEF CallInv, Answers
  <2>2. ASSUME NEW i \in 1 .. n PROVE Delivered(i)'
    <3>1. CASE i = n
      BY <1>5, <3>1 DEF Delivered
    <3>2. CASE i \in 1 .. next_id
      BY <1>1, <1>5, <1>10, <3>2, DeliveredKept DEF CallInv, Answers
    <3>3. QED
      BY <1>4, <3>1, <3>2
  <2>3. QED
    BY <1>2, <2>1, <2>2 DEF Answers
<1>12. Processes'
  BY <1>1, <1>2, <1>3, ProcessesFrame
<1>13. QED
  BY <1>7, <1>8, <1>9, <1>11, <1>12 DEF CallInv

(* What is in a pipe after a write.                                        *)
LEMMA Posted ==
    ASSUME Shape, NEW p \in Procs, NEW m \in Messages, stdin' = [stdin EXCEPT ![p] = Append(@, m)]
    PROVE  /\ stdin' \in [Procs -> Seq(Messages)]
           /\ \A q \in Procs : q # p => stdin'[q] = stdin[q]
           /\ \A q \in Procs : DOMAIN stdin[q] \subseteq DOMAIN stdin'[q]
           /\ \A q \in Procs : \A i \in DOMAIN stdin[q] : stdin'[q][i] = stdin[q][i]
           /\ \A q \in Procs : \A i \in DOMAIN stdin'[q] :
                 i \in DOMAIN stdin[q] \/ (q = p /\ i = Len(stdin[p]) + 1 /\ stdin'[q][i] = m)
<1>1. stdin[p] \in Seq(Messages) /\ stdin'[p] = Append(stdin[p], m)
  BY DEF Shape
<1>2. \A q \in Procs : q # p => stdin'[q] = stdin[q]
  BY DEF Shape
<1>3. /\ stdin'[p] \in Seq(Messages) /\ DOMAIN stdin[p] = 1 .. Len(stdin[p])
      /\ DOMAIN stdin'[p] = 1 .. Len(stdin[p]) + 1 /\ Len(stdin[p]) \in Nat
      /\ stdin'[p][Len(stdin[p]) + 1] = m
      /\ \A i \in 1 .. Len(stdin[p]) : stdin'[p][i] = stdin[p][i]
  BY <1>1, AppendProperties, LenProperties
<1>4. stdin' \in [Procs -> Seq(Messages)]
  BY <1>3 DEF Shape
<1>5. \A i \in DOMAIN stdin'[p] : i \in DOMAIN stdin[p] \/ i = Len(stdin[p]) + 1
  BY <1>3
<1>6. DOMAIN stdin[p] \subseteq DOMAIN stdin'[p]
  BY <1>3
<1>7. QED
  BY <1>2, <1>3, <1>4, <1>5, <1>6

(* A request enters a pipe once, and nothing else a client writes is one.  *)
LEMMA OncePosted ==
    ASSUME Shape, NEW d \in Calls, Once(d), NEW p \in Procs, NEW m \in Messages,
           stdin' = [stdin EXCEPT ![p] = Append(@, m)], UNCHANGED <<handling, effects>>,
           pc[d] \in {"wait", "done"} /\ op[d] = d => pc'[d] \in {"wait", "done"} /\ op'[d] = d,
           Request(m, d) => pc[d] \notin {"wait", "done"} /\ pc'[d] \in {"wait", "done"} /\ op'[d] = d
    PROVE  Once(d)'
<1>1. /\ \A q \in Procs : \A i \in DOMAIN stdin'[q] :
            i \in DOMAIN stdin[q] \/ (q = p /\ i = Len(stdin[p]) + 1 /\ stdin'[q][i] = m)
      /\ \A q \in Procs : \A i \in DOMAIN stdin[q] : stdin'[q][i] = stdin[q][i]
  BY Posted
<1>2. CASE ~Request(m, d)
  <2>1. \A q \in Procs : \A i \in DOMAIN stdin'[q] :
           Request(stdin'[q][i], d) => i \in DOMAIN stdin[q] /\ Request(stdin[q][i], d)
    BY <1>1, <1>2
  <2>2. QED
    BY <2>1 DEF Once, Request
<1>3. CASE Request(m, d)
  <2>1. /\ effects[d] = 0
        /\ \A q \in Procs : \A i \in DOMAIN stdin[q] : ~Request(stdin[q][i], d)
        /\ \A q \in Procs : \A n \in handling[q] : n.op # d
    BY <1>3 DEF Once
  <2>2. \A q \in Procs : \A i \in DOMAIN stdin'[q] :
           Request(stdin'[q][i], d) => q = p /\ i = Len(stdin[p]) + 1
    BY <1>1, <2>1
  <2>3. QED
    BY <1>3, <2>1, <2>2 DEF Once, Request
<1>4. QED
  BY <1>2, <1>3

(* A message that fits keeps a pipe fitting.                               *)
LEMMA AskedPosted ==
    ASSUME Shape, Steady, NEW p \in Procs, NEW m \in Messages, NEW q \in Procs, Asked(q),
           stdin' = [stdin EXCEPT ![p] = Append(@, m)],
           m.id # 0 => m.op \in Ops /\ Fits(m.id, m.op)'
    PROVE  Asked(q)'
<1>1. ASSUME NEW i \in DOMAIN stdin'[q], NEW n, n = stdin'[q][i], n.id # 0
      PROVE  n.op \in Ops /\ Fits(n.id, n.op)'
  <2>1. CASE i \in DOMAIN stdin[q]
    <3>1. n = stdin[q][i]
      BY <1>1, <2>1, Posted
    <3>2. n.op \in Ops /\ Fits(n.id, n.op)
      BY <1>1, <2>1, <3>1 DEF Asked
    <3>3. QED
      BY <3>2, FitsKept
  <2>2. CASE i \notin DOMAIN stdin[q]
    BY <1>1, <2>2, Posted
  <2>3. QED
    BY <2>1, <2>2
<1>2. QED
  BY <1>1 DEF Asked, Fits

(* _send, and the notification that ends the introduction.                 *)
LEMMA CallSend ==
    ASSUME CallInv, NEW c \in Callers, Send(c) \/ SendInitialized(c)
    PROVE  CallInv'
<1>1. Shape /\ Processes /\ Turn(c) /\ c # None /\ Answers
  BY Pipes DEF CallInv
<1>2. UNCHANGED <<rid, proc, next_id, life, stdout, handling, effects, waiterVars>>
  BY DEF Send, SendInitialized
<1>3. UNCHANGED <<pending, box, reader>>
  BY <1>2 DEF waiterVars
<1>4. pc[c] \in Held \ {"ensure"} /\ lock = c /\ proc \in Procs
  BY <1>1 DEF Send, SendInitialized, Turn, Held, Shape
<1>5. CASE UNCHANGED <<stdin, op>> /\ Raise(c)
  <2>1. /\ pc' = [pc EXCEPT ![c] = "done"] /\ told' = [told EXCEPT ![c] = "failed"] /\ lock' = None
    BY <1>5 DEF Raise, Goto
  <2>2. /\ pc' \in [Callers -> Places] /\ pc'[c] = "done" /\ OnlyBy(c)
        /\ told' = [d \in Callers |-> told'[d]]
    BY <1>1, <1>2, <1>5, <2>1 DEF OnlyBy, Shape, Places
  <2>3. Shape'
    BY <1>1, <1>2, <1>3, <1>5, <2>1, <2>2 DEF Shape
  <2>4. Turn(c)'
    BY <1>1, <1>5, <2>1, <2>2 DEF Turn, Held, Waiting
  <2>5. \A d \in Callers : Turn(d)'
    <3>1. next_id' \in Nat /\ next_id <= next_id'
      BY <1>1, <1>2 DEF Shape
    <3>2. QED
      BY <1>2, <1>4, <2>1, <2>2, <2>4, <3>1, TurnAll
  <2>6. Steady
    BY <1>1, <1>2, <1>5, <2>2 DEF Steady, OnlyBy, Shape, Waiting
  <2>7. Answers'
    BY <1>1, <1>2, <1>3, <1>5, <2>6, AnswersFrame
  <2>8. ASSUME NEW d \in Calls PROVE Once(d)'
    <3>1. pc[d] \in {"wait", "done"} /\ op[d] = d => pc'[d] \in {"wait", "done"} /\ op'[d] = d
      BY <1>5, <2>2 DEF OnlyBy, Callers
    <3>2. QED
      BY <1>2, <1>5, <3>1, OnceFrame DEF CallInv
  <2>9. QED
    BY <1>1, <1>2, <2>3, <2>5, <2>7, <2>8, ProcessesFrame DEF CallInv
<1>6. CASE \E m \in Messages :
             /\ stdin' = [stdin EXCEPT ![proc] = Append(@, m)]
             /\ UNCHANGED <<lock, told>>
             /\ \/ /\ pc[c] = "send" /\ pc' = [pc EXCEPT ![c] = "wait"] /\ UNCHANGED op
                   /\ m = [id |-> rid[c], op |-> op[c]]
                \/ /\ pc[c] = "initialized" /\ pc' = [pc EXCEPT ![c] = "register"]
                   /\ op' = [op EXCEPT ![c] = c] /\ m.id = 0
  <2>1. PICK m \in Messages :
             /\ stdin' = [stdin EXCEPT ![proc] = Append(@, m)]
             /\ UNCHANGED <<lock, told>>
             /\ \/ /\ pc[c] = "send" /\ pc' = [pc EXCEPT ![c] = "wait"] /\ UNCHANGED op
                   /\ m = [id |-> rid[c], op |-> op[c]]
                \/ /\ pc[c] = "initialized" /\ pc' = [pc EXCEPT ![c] = "register"]
                   /\ op' = [op EXCEPT ![c] = c] /\ m.id = 0
    BY <1>6
  <2>2. /\ pc' \in [Callers -> Places] /\ op' \in [Callers -> Ops] /\ OnlyBy(c)
        /\ pc[c] = "send" => pc'[c] = "wait" /\ op'[c] = op[c]
        /\ pc[c] = "initialized" => pc'[c] = "register" /\ op'[c] = c
        /\ pc[c] \in {"send", "initialized"}
    <3>1. CASE pc[c] = "send"
      <4>1. pc' = [pc EXCEPT ![c] = "wait"] /\ UNCHANGED op
        BY <2>1, <3>1
      <4>2. pc \in [Callers -> Places] /\ op \in [Callers -> Ops] /\ "wait" \in Places
        BY <1>1 DEF Shape, Places
      <4>3. pc' \in [Callers -> Places] /\ pc'[c] = "wait" /\ \A d \in Callers : d # c => pc'[d] = pc[d]
        BY <4>1, <4>2
      <4>4. QED
        BY <1>2, <2>1, <3>1, <4>1, <4>2, <4>3 DEF OnlyBy
    <3>2. CASE pc[c] = "initialized"
      <4>1. pc' = [pc EXCEPT ![c] = "register"] /\ op' = [op EXCEPT ![c] = c]
        BY <2>1, <3>2
      <4>2. pc \in [Callers -> Places] /\ op \in [Callers -> Ops] /\ "register" \in Places /\ c \in Ops
        BY <1>1 DEF Shape, Places, Ops
      <4>3. pc' \in [Callers -> Places] /\ pc'[c] = "register" /\ \A d \in Callers : d # c => pc'[d] = pc[d]
        BY <4>1, <4>2
      <4>4. op' \in [Callers -> Ops] /\ op'[c] = c /\ \A d \in Callers : d # c => op'[d] = op[d]
        BY <4>1, <4>2
      <4>5. QED
        BY <1>2, <2>1, <3>2, <4>3, <4>4 DEF OnlyBy
    <3>3. QED
      BY <2>1, <3>1, <3>2
  <2>3. Shape'
    <3>1. stdin' \in [Procs -> Seq(Messages)]
      BY <1>1, <1>4, <2>1, Posted
    <3>2. QED
      BY <1>1, <1>2, <1>3, <2>1, <2>2, <3>1 DEF Shape
  <2>4. Turn(c)'
    BY <1>1, <1>2, <1>4, <2>1, <2>2 DEF Turn, Held, Waiting
  <2>5. \A d \in Callers : Turn(d)'
    <3>1. next_id' \in Nat /\ next_id <= next_id'
      BY <1>1, <1>2 DEF Shape
    <3>2. QED
      BY <1>2, <2>1, <2>2, <2>4, <3>1, TurnAll
  <2>6. Steady
    BY <1>1, <1>2, <2>2 DEF Steady, OnlyBy, Shape, Waiting
  <2>7. m.id # 0 => m.op \in Ops /\ Fits(m.id, m.op)'
    <3>1. SUFFICES ASSUME m.id # 0 PROVE m.op \in Ops /\ Fits(m.id, m.op)'
      OBVIOUS
    <3>2. pc[c] = "send" /\ m.id = rid[c] /\ m.op = op[c] /\ op'[c] = op[c]
      BY <2>1, <2>2, <3>1
    <3>3. m.op \in Ops /\ rid[c] \in 1 .. next_id
      BY <1>1, <3>2 DEF Shape, Turn, Waiting
    <3>4. ASSUME NEW d \in Callers, pc'[d] \in Waiting PROVE d = c
      <4>1. CASE d # c
        <5>1. pc[d] \in Held /\ Turn(d)
          BY <3>4, <4>1, <2>2 DEF OnlyBy, CallInv, Held, Waiting
        <5>2. QED
          BY <1>4, <4>1, <5>1 DEF Turn
      <4>2. QED
        BY <4>1
    <3>5. QED
      BY <1>2, <3>2, <3>3, <3>4 DEF Fits
  <2>8. Answers'
    <3>1. ASSUME NEW q \in Procs PROVE (Asked(q) /\ Worked(q) /\ Written(q) /\ Delivering(q))'
      <4>1. Asked(q)'
        BY <1>1, <1>4, <2>1, <2>6, <2>7, AskedPosted DEF Answers
      <4>2. QED
        BY <1>1, <1>2, <1>3, <2>6, <4>1, AnswersKept DEF Answers
    <3>2. ASSUME NEW i \in 1 .. next_id PROVE Delivered(i)'
      BY <1>1, <1>3, <2>6, DeliveredKept DEF Answers
    <3>3. QED
      BY <1>2, <3>1, <3>2 DEF Answers
  <2>9. ASSUME NEW d \in Calls PROVE Once(d)'
    <3>1. pc[d] \in {"wait", "done"} /\ op[d] = d => pc'[d] \in {"wait", "done"} /\ op'[d] = d
      BY <2>2 DEF OnlyBy, Callers
    <3>2. Request(m, d) => pc[d] \notin {"wait", "done"} /\ pc'[d] \in {"wait", "done"} /\ op'[d] = d
      <4>1. SUFFICES ASSUME Request(m, d)
                     PROVE  pc[d] \notin {"wait", "done"} /\ pc'[d] \in {"wait", "done"} /\ op'[d] = d
        OBVIOUS
      <4>2. pc[c] = "send" /\ op[c] = d /\ op'[c] = d
        BY <2>1, <2>2, <4>1 DEF Request
      <4>3. d = c
        BY <1>1, <4>2, Pipes DEF Turn, Callers
      <4>4. QED
        BY <2>2, <4>2, <4>3
    <3>3. QED
      BY <1>1, <1>2, <1>4, <2>1, <3>1, <3>2, OncePosted DEF CallInv
  <2>10. QED
    BY <1>1, <1>2, <2>3, <2>5, <2>8, <2>9, ProcessesFrame DEF CallInv
<1>7. QED
  <2>1. CASE Send(c)
    <3>1. CASE Writable(proc) /\ Write(proc, rid[c], op[c]) /\ Goto(c, "wait") /\ UNCHANGED <<lock, told>>
      <4>1. [id |-> rid[c], op |-> op[c]] \in Messages
        BY <1>1 DEF Shape, Messages
      <4>2. pc[c] = "send" /\ op' = op
        BY <2>1 DEF Send
      <4>3. QED
        BY <3>1, <4>1, <4>2, <1>6 DEF Write, Goto
    <3>2. QED
      BY <2>1, <3>1, <1>5 DEF Send
  <2>2. CASE SendInitialized(c)
    <3>1. CASE /\ Write(proc, 0, "initialized") /\ op' = [op EXCEPT ![c] = c]
               /\ Goto(c, "register") /\ UNCHANGED <<lock, told>>
      <4>1. [id |-> 0, op |-> "initialized"] \in Messages /\ [id |-> 0, op |-> "initialized"].id = 0
        BY DEF Messages
      <4>2. pc[c] = "initialized"
        BY <2>2 DEF SendInitialized
      <4>3. QED
        BY <3>1, <4>1, <4>2, <1>6 DEF Write, Goto
    <3>2. QED
      BY <2>2, <3>1, <1>5 DEF SendInitialized
  <2>3. QED
    BY <2>1, <2>2

(* waiter.get returns, or times out.                                       *)
LEMMA CallGet ==
    ASSUME CallInv, NEW c \in Callers, Get(c) \/ TimeOut(c)
    PROVE  CallInv'
<1>1. Shape /\ Processes /\ Turn(c) /\ c # None /\ Answers /\ c # "initialize"
  BY Pipes DEF CallInv
<1>2. UNCHANGED <<op, rid, proc, next_id, pipeVars, reader>> /\ pc[c] = "wait"
  BY DEF Get, TimeOut, Forget
<1>3. UNCHANGED <<life, stdin, stdout, handling, effects>>
  BY <1>2 DEF pipeVars
<1>4. lock = c /\ rid[c] \in 1 .. next_id /\ proc # 0 /\ op[c] \in {"initialize", c}
  BY <1>1, <1>2 DEF Turn, Held, Waiting
<1>5. pending' \subseteq pending
  BY DEF Get, TimeOut, Forget
<1>6. /\ box' \in [1 .. next_id -> Lines \cup {None}]
      /\ \A i \in 1 .. next_id : box'[i] \in {box[i], None}
  <2>1. box' = box \/ box' = [box EXCEPT ![rid[c]] = None]
    BY DEF Get, TimeOut, Forget
  <2>2. QED
    BY <1>1, <2>1 DEF Shape
<1>7. \/ pc' = [pc EXCEPT ![c] = "done"] /\ lock' = None /\ told' = [told EXCEPT ![c] = "failed"]
      \/ pc' = [pc EXCEPT ![c] = "initialized"] /\ lock' = lock /\ told' = told /\ op[c] = "initialize"
      \/ /\ c \in Calls /\ pc' = [pc EXCEPT ![c] = "done"] /\ lock' = None
         /\ told' = [told EXCEPT ![c] = box[rid[c]].of]
      \/ c \notin Calls /\ pc' = [pc EXCEPT ![c] = "store"] /\ lock' = None /\ told' = told
                        /\ op[c] # "initialize"
  <2>1. CASE Get(c)
    <3> DEFINE reply == box[rid[c]]
    <3>1. \/ ~reply.ok /\ Raise(c) /\ UNCHANGED listed
          \/ reply.ok /\ op[c] = "initialize" /\ Goto(c, "initialized") /\ UNCHANGED <<lock, told, listed>>
          \/ reply.ok /\ op[c] # "initialize" /\ Return(c, reply)
      BY <2>1 DEF Get
    <3>2. QED
      BY <3>1 DEF Raise, Goto, Return
  <2>2. CASE TimeOut(c)
    BY <2>2 DEF TimeOut, Raise, Goto
  <2>3. QED
    BY <2>1, <2>2
<1>8. /\ pc' \in [Callers -> Places] /\ OnlyBy(c) /\ pc'[c] \in {"done", "initialized", "store"}
      /\ told' = [d \in Callers |-> told'[d]] /\ lock' \in {lock, None}
  BY <1>1, <1>2, <1>7 DEF OnlyBy, Shape, Places
<1>9. Shape'
  BY <1>1, <1>2, <1>3, <1>5, <1>6, <1>8 DEF Shape
<1>10. Turn(c)'
  <2>1. pc'[c] = "store" => c \in Listings
    BY <1>1, <1>7 DEF Shape, Callers
  <2>2. pc'[c] = "initialized" => op[c] = "initialize" /\ lock' = c
    BY <1>1, <1>4, <1>7 DEF Shape
  <2>3. pc'[c] # "initialized" => lock' = None
    BY <1>1, <1>7 DEF Shape
  <2>4. pc'[c] # "done" => told'[c] = None
    BY <1>1, <1>2, <1>7 DEF Shape, Turn
  <2>5. QED
    BY <1>1, <1>2, <1>4, <1>8, <2>1, <2>2, <2>3, <2>4 DEF Turn, Held, Waiting
<1>11. \A d \in Callers : Turn(d)'
  <2>1. next_id' \in Nat /\ next_id <= next_id'
    BY <1>1, <1>2 DEF Shape
  <2>2. QED
    BY <1>2, <1>4, <1>8, <1>10, <2>1, TurnAll
<1>12. Steady
  BY <1>1, <1>2, <1>3, <1>8 DEF Steady, OnlyBy, Shape, Waiting
<1>13. Answers'
  <2>1. ASSUME NEW q \in Procs PROVE (Asked(q) /\ Worked(q) /\ Written(q) /\ Delivering(q))'
    BY <1>1, <1>2, <1>3, <1>12, AnswersKept DEF Answers
  <2>2. ASSUME NEW i \in 1 .. next_id PROVE Delivered(i)'
    <3>1. CASE box'[i] = box[i]
      BY <1>1, <1>12, <3>1, DeliveredKept DEF Answers
    <3>2. CASE box'[i] = None
      BY <3>2 DEF Delivered
    <3>3. QED
      BY <1>6, <3>1, <3>2
  <2>3. QED
    BY <1>2, <2>1, <2>2 DEF Answers
<1>14. ASSUME NEW d \in Calls PROVE Once(d)'
  <2>1. pc[d] \in {"wait", "done"} /\ op[d] = d => pc'[d] \in {"wait", "done"} /\ op'[d] = d
    <3>1. CASE d = c
      BY <1>1, <1>2, <1>7, <3>1 DEF Shape
    <3>2. CASE d # c
      BY <1>2, <1>8, <3>2 DEF OnlyBy, Callers
    <3>3. QED
      BY <3>1, <3>2
  <2>2. QED
    BY <1>3, <2>1, OnceFrame DEF CallInv
<1>15. QED
  BY <1>1, <1>2, <1>3, <1>9, <1>11, <1>13, <1>14, ProcessesFrame DEF CallInv

----------------------------------------------------------------------------
(* A step of no caller keeps the turns, and is steady.                     *)
LEMMA NoCaller ==
    ASSUME CallInv, UNCHANGED clientVars, effects' \in [Calls -> Nat],
           \A c \in Calls : effects[c] = 1 => effects'[c] = 1
    PROVE  Steady /\ \A c \in Callers : Turn(c)'
<1>1. UNCHANGED <<lock, pc, op, rid, told, listed, proc, next_id, tools>>
  BY DEF clientVars
<1>2. Steady
  BY <1>1 DEF Steady, CallInv, Shape
<1>3. \A c \in Callers : Turn(c)'
  BY <1>1 DEF CallInv, Turn
<1>4. QED
  BY <1>2, <1>3

(* What is left of a pipe after its first line was read.                   *)
LEMMA Consumed ==
    ASSUME NEW S, NEW s \in Seq(S), s # << >>
    PROVE  /\ Head(s) \in S /\ Head(s) = s[1] /\ 1 \in DOMAIN s /\ Tail(s) \in Seq(S)
           /\ \A i \in DOMAIN Tail(s) : i + 1 \in DOMAIN s /\ Tail(s)[i] = s[i + 1]
<1>1. Len(s) \in Nat /\ Len(s) # 0 /\ DOMAIN s = 1 .. Len(s)
  BY EmptySeq, LenProperties
<1>2. Head(s) = s[1] /\ Tail(s) \in Seq(S) /\ Len(Tail(s)) = Len(s) - 1
      /\ \A i \in 1 .. Len(Tail(s)) : Tail(s)[i] = s[i + 1]
  BY HeadTailProperties
<1>3. DOMAIN Tail(s) = 1 .. Len(Tail(s))
  BY <1>2, LenProperties
<1>4. \A i \in DOMAIN Tail(s) : i + 1 \in DOMAIN s
  BY <1>1, <1>2, <1>3
<1>5. 1 \in DOMAIN s /\ s[1] \in S
  BY <1>1, ElementOfSeq
<1>6. QED
  BY <1>2, <1>3, <1>4, <1>5

(* The reader takes a line from its pipe; every other step of it leaves    *)
(* the pipe alone.                                                         *)
LEMMA ReaderPipe ==
    ASSUME CallInv, NEW p \in Procs, Steady,
           stdout' = stdout \/ (stdout[p] # << >> /\ Consume(p))
    PROVE  stdout' \in [Procs -> Seq(Lines)] /\ \A q \in Procs : Written(q)'
<1>1. CASE stdout' = stdout
  BY <1>1, AnswersKept DEF CallInv, Shape, Answers
<1>2. CASE stdout[p] # << >> /\ Consume(p)
  <2>1. /\ stdout[p] \in Seq(Lines) /\ stdout' = [stdout EXCEPT ![p] = Tail(stdout[p])]
        /\ Written(p) /\ Shape
    BY <1>2 DEF CallInv, Shape, Consume, Answers
  <2>2. /\ Tail(stdout[p]) \in Seq(Lines)
        /\ \A i \in DOMAIN Tail(stdout[p]) : i + 1 \in DOMAIN stdout[p] /\ Tail(stdout[p])[i] = stdout[p][i + 1]
    BY <1>2, <2>1, Consumed
  <2>3. stdout' \in [Procs -> Seq(Lines)] /\ stdout'[p] = Tail(stdout[p])
    BY <2>1, <2>2 DEF Shape
  <2>4. ASSUME NEW i \in DOMAIN stdout'[p], NEW line, line = stdout'[p][i] PROVE Good(line)'
    <3>1. line = stdout[p][i + 1] /\ i + 1 \in DOMAIN stdout[p]
      BY <2>2, <2>3, <2>4
    <3>2. QED
      BY <2>1, <3>1, GoodKept DEF Written
  <2>5. Written(p)'
    BY <2>4 DEF Written, Good, Fits
  <2>6. ASSUME NEW q \in Procs, q # p PROVE Written(q)'
    <3>1. stdout'[q] = stdout[q] /\ Written(q)
      BY <2>1, <2>6 DEF CallInv, Answers, Shape
    <3>2. QED
      BY <2>1, <3>1, AnswersKept
  <2>7. QED
    BY <2>3, <2>5, <2>6
<1>3. QED
  BY <1>1, <1>2

(* What a step of a reader does to its place and to the waiters.           *)
LEMMA ReaderPlace ==
    ASSUME CallInv, Steady, NEW p \in Procs, UNCHANGED clientVars,
           \/ reader' = reader /\ box' = box
           \/ (\E where \in {"reading", "done"} : At(p, where)) /\ box' = box
           \/ NextLine(p) /\ TakeWaiter(p)
           \/ EndOfPipe(p)
           \/ Put(p)
    PROVE  /\ reader' \in [Procs -> Readers] /\ \A q \in Procs : Delivering(q)'
           /\ box' \in [1 .. next_id -> Lines \cup {None}]
           /\ \A i \in 1 .. next_id : Delivered(i)'
<1>1. Shape /\ Answers /\ next_id' = next_id /\ next_id \in Nat
  BY DEF CallInv, Shape, clientVars
<1>2. ASSUME NEW r \in Readers, reader' = [reader EXCEPT ![p] = r],
             r.to \subseteq 1 .. next_id,
             r.at \notin {"putting", "leaving"} => r.to = {},
             r.at \in {"putting", "leaving"} => r.reply \in Lines,
             r.at = "putting" => r.to = {r.reply.id} /\ Good(r.reply),
             r.at = "leaving" => ~r.reply.ok
      PROVE  reader' \in [Procs -> Readers] /\ \A q \in Procs : Delivering(q)'
  <2>1. reader' \in [Procs -> Readers] /\ reader'[p] = r /\ \A q \in Procs : q # p => reader'[q] = reader[q]
    BY <1>1, <1>2 DEF Shape
  <2>2. r.at = "putting" => Good(r.reply)'
    <3>1. PICK line : line = r.reply
      OBVIOUS
    <3>2. Good(line) => Good(line)'
      BY <1>1, GoodKept
    <3>3. QED
      BY <1>2, <3>1, <3>2
  <2>3. Delivering(p)'
    BY <1>1, <1>2, <2>1, <2>2 DEF Delivering, Good, Fits
  <2>4. ASSUME NEW q \in Procs, q # p PROVE Delivering(q)'
    BY <1>1, <2>1, <2>4, AnswersKept DEF Answers
  <2>5. QED
    BY <2>1, <2>3, <2>4
<1>3. ASSUME box' = box
      PROVE  /\ box' \in [1 .. next_id -> Lines \cup {None}]
             /\ \A i \in 1 .. next_id : Delivered(i)'
  BY <1>1, <1>3, DeliveredKept DEF Shape, Answers
<1>4. CASE reader' = reader /\ box' = box
  BY <1>1, <1>3, <1>4, AnswersKept DEF Shape, Answers
<1>5. CASE (\E where \in {"reading", "done"} : At(p, where)) /\ box' = box
  <2>1. PICK where \in {"reading", "done"} : At(p, where)
    BY <1>5
  <2> DEFINE r == [at |-> where, to |-> {}, reply |-> None]
  <2>15. [Idle EXCEPT !.at = where] = r
    BY DEF Idle
  <2>2. reader' = [reader EXCEPT ![p] = r]
    BY <2>1, <2>15 DEF At
  <2>3. r \in Readers /\ r.to = {} /\ r.at \notin {"putting", "leaving"}
    BY DEF Readers
  <2> HIDE DEF r
  <2>4. QED
    BY <1>2, <1>3, <1>5, <2>2, <2>3
<1>6. CASE NextLine(p) /\ TakeWaiter(p)
  <2> DEFINE line == Head(stdout[p])
             r == [at |-> "putting", to |-> {line.id}, reply |-> line]
  <2>1. reader' = [reader EXCEPT ![p] = r] /\ box' = box /\ line.id \in pending
    BY <1>6 DEF TakeWaiter
  <2>2. line \in Lines /\ line = stdout[p][1] /\ 1 \in DOMAIN stdout[p]
    BY <1>1, <1>6, Consumed DEF NextLine, Shape
  <2>3. Good(line)
    BY <1>1, <2>2 DEF Answers, Written
  <2>4. line.id \in 1 .. next_id
    BY <1>1, <2>1 DEF Shape
  <2> HIDE DEF line
  <2>5. r \in Readers /\ r.to = {r.reply.id} /\ r.to \subseteq 1 .. next_id /\ r.reply = line /\ r.at = "putting"
    BY <1>1, <2>2, <2>4 DEF Readers, Lines
  <2> HIDE DEF r
  <2>6. QED
    BY <1>2, <1>3, <2>1, <2>2, <2>3, <2>5
<1>7. CASE EndOfPipe(p)
  <2> DEFINE e == [id |-> 0, of |-> "exited", ok |-> FALSE]
             r == [at |-> "leaving", to |-> pending, reply |-> e]
  <2>1. reader' = [reader EXCEPT ![p] = r] /\ box' = box
    BY <1>7 DEF EndOfPipe
  <2>2. e \in Lines /\ ~e.ok
    BY DEF Lines
  <2>3. pending \subseteq 1 .. next_id /\ pending \in SUBSET Nat
    BY <1>1 DEF Shape
  <2> HIDE DEF e
  <2>4. r \in Readers /\ r.to \subseteq 1 .. next_id /\ r.reply = e /\ r.at = "leaving"
    BY <2>2, <2>3 DEF Readers
  <2> HIDE DEF r
  <2>5. QED
    BY <1>2, <1>3, <2>1, <2>2, <2>4
<1>8. CASE Put(p)
  <2> DEFINE old == reader[p]
  <2>1. PICK id \in old.to :
           /\ box' = [box EXCEPT ![id] = old.reply]
           /\ IF old.at = "putting" THEN At(p, "reading")
              ELSE reader' = [reader EXCEPT ![p].to = @ \ {id}]
    BY <1>8 DEF Put
  <2>2. /\ old \in Readers /\ old.at \in {"putting", "leaving"} /\ old.to \subseteq 1 .. next_id
        /\ old.reply \in Lines
        /\ old.at = "putting" => old.to = {old.reply.id} /\ Good(old.reply)
        /\ old.at = "leaving" => ~old.reply.ok
    BY <1>1, <1>8 DEF Shape, Answers, Delivering, Put
  <2>3. /\ box' \in [1 .. next_id -> Lines \cup {None}] /\ box'[id] = old.reply
        /\ \A i \in 1 .. next_id : i # id => box'[i] = box[i]
    BY <1>1, <2>1, <2>2 DEF Shape
  <2>4. ASSUME NEW i \in 1 .. next_id PROVE Delivered(i)'
    <3>1. CASE i = id
      <4>1. PICK line : line = old.reply
        OBVIOUS
      <4>2. old.at = "putting" => Good(line)'
        BY <1>1, <2>2, <4>1, GoodKept
      <4>3. line.ok => line.id = i
        BY <2>1, <2>2, <3>1, <4>1
      <4>4. line.ok => Good(line)'
        BY <2>2, <4>1, <4>2
      <4>5. box'[i] = line
        BY <2>3, <3>1, <4>1
      <4>6. QED
        BY <4>3, <4>4, <4>5 DEF Delivered, Good, Fits
    <3>2. CASE i # id
      BY <1>1, <2>3, <3>2, DeliveredKept DEF Answers
    <3>3. QED
      BY <3>1, <3>2
  <2>5. reader' \in [Procs -> Readers] /\ \A q \in Procs : Delivering(q)'
    <3>1. CASE old.at = "putting"
      <4> DEFINE r == [at |-> "reading", to |-> {}, reply |-> None]
      <4>1. reader' = [reader EXCEPT ![p] = r]
        BY <2>1, <3>1 DEF At, Idle
      <4>2. r \in Readers /\ r.to = {} /\ r.at \notin {"putting", "leaving"}
        BY DEF Readers
      <4> HIDE DEF r
      <4>3. QED
        BY <1>2, <4>1, <4>2
    <3>2. CASE old.at = "leaving"
      <4> DEFINE r == [at |-> old.at, to |-> old.to \ {id}, reply |-> old.reply]
      <4>1. reader' = [reader EXCEPT ![p] = [old EXCEPT !.to = @ \ {id}]]
        BY <2>1, <3>2, Zenon
      <4>2. [old EXCEPT !.to = @ \ {id}] = r
        BY <2>2 DEF Readers
      <4>3. reader' = [reader EXCEPT ![p] = r]
        BY <4>1, <4>2
      <4>4. r \in Readers /\ r.to \subseteq 1 .. next_id /\ r.at = "leaving" /\ r.reply = old.reply
        BY <2>2, <3>2 DEF Readers
      <4> HIDE DEF r
      <4>5. QED
        BY <1>2, <2>2, <3>2, <4>3, <4>4
    <3>3. QED
      BY <2>2, <3>1, <3>2
  <2>6. QED
    BY <2>3, <2>4, <2>5
<1>9. QED
  BY <1>4, <1>5, <1>6, <1>7, <1>8

(* The reader threads.                                                     *)
LEMMA CallReader ==
    ASSUME CallInv, NEW p \in Procs, ReaderStep(p)
    PROVE  CallInv'
<1>1. /\ UNCHANGED clientVars /\ UNCHANGED <<life, handling, effects>> /\ pending' \subseteq pending
  BY DEF ReaderStep, Skip, Refuse, TakeWaiter, EndOfPipe, Put, Leave, pipeVars, waiterVars
<1>2. UNCHANGED <<lock, pc, op, rid, told, proc, next_id>> /\ Shape /\ Answers /\ Processes
  BY <1>1 DEF clientVars, CallInv
<1>3. Steady /\ \A c \in Callers : Turn(c)'
  BY <1>1, <1>2, NoCaller DEF Shape
<1>4. stdout' \in [Procs -> Seq(Lines)] /\ \A q \in Procs : Written(q)'
  <2>1. stdout' = stdout \/ (stdout[p] # << >> /\ Consume(p))
    BY DEF ReaderStep, Skip, Refuse, TakeWaiter, EndOfPipe, Put, Leave, pipeVars, NextLine
  <2>2. QED
    BY <1>3, <2>1, ReaderPipe
<1>5. /\ reader' \in [Procs -> Readers] /\ \A q \in Procs : Delivering(q)'
      /\ box' \in [1 .. next_id -> Lines \cup {None}]
      /\ \A i \in 1 .. next_id : Delivered(i)'
  <2>1. \/ reader' = reader /\ box' = box
        \/ (\E where \in {"reading", "done"} : At(p, where)) /\ box' = box
        \/ NextLine(p) /\ TakeWaiter(p)
        \/ EndOfPipe(p)
        \/ Put(p)
    <3>1. CASE Skip(p)
      BY <3>1 DEF Skip, waiterVars
    <3>2. CASE Refuse(p)
      BY <3>2 DEF Refuse
    <3>3. CASE TakeWaiter(p)
      BY <3>3 DEF TakeWaiter
    <3>4. CASE Leave(p)
      BY <3>4 DEF Leave
    <3>5. QED
      BY <3>1, <3>2, <3>3, <3>4 DEF ReaderStep
  <2>2. QED
    BY <1>1, <1>3, <2>1, ReaderPlace
<1>6. /\ stdin' \in [Procs -> Seq(Messages)]
      /\ \A q \in Procs : Asked(q)' /\ Worked(q)'
      /\ \A d \in Calls : Once(d)'
  <2>1. CASE stdin' = stdin
    <3>1. \A q \in Procs : Asked(q)' /\ Worked(q)'
      BY <1>1, <1>2, <1>3, <2>1, AnswersKept DEF Answers
    <3>2. \A d \in Calls : Once(d)'
      BY <1>1, <1>2, <2>1, OnceFrame DEF CallInv
    <3>3. QED
      BY <1>2, <2>1, <3>1, <3>2 DEF Shape
  <2>2. CASE proc \in Procs /\ Write(proc, 0, "refuse")
    <3>1. PICK m : m = [id |-> 0, op |-> "refuse"]
      OBVIOUS
    <3>2. m \in Messages /\ m.id = 0 /\ stdin' = [stdin EXCEPT ![proc] = Append(@, m)]
      BY <2>2, <3>1 DEF Messages, Write
    <3>3. \A q \in Procs : Asked(q)'
      BY <1>2, <1>3, <2>2, <3>2, AskedPosted DEF Answers
    <3>4. \A q \in Procs : Worked(q)'
      BY <1>1, <1>2, <1>3, AnswersKept DEF Answers
    <3>5. ASSUME NEW d \in Calls PROVE Once(d)'
      <4>1. Once(d) /\ ~Request(m, d)
        BY <3>2 DEF CallInv, Request
      <4>2. QED
        BY <1>1, <1>2, <2>2, <3>2, <4>1, OncePosted
    <3>6. stdin' \in [Procs -> Seq(Messages)]
      BY <1>2, <2>2, <3>2, Posted
    <3>7. QED
      BY <3>3, <3>4, <3>5, <3>6
  <2>3. QED
    <3>1. stdin' = stdin \/ (proc # 0 /\ Write(proc, 0, "refuse"))
      BY DEF ReaderStep, Skip, Refuse, TakeWaiter, EndOfPipe, Put, Leave, pipeVars
    <3>2. QED
      BY <1>2, <2>1, <2>2, <3>1 DEF Shape
<1>7. Shape'
  <2>1. pending' \subseteq 1 .. next_id
    BY <1>1, <1>2 DEF Shape
  <2>2. QED
    BY <1>1, <1>2, <1>4, <1>5, <1>6, <2>1 DEF Shape
<1>8. Answers'
  BY <1>2, <1>4, <1>5, <1>6 DEF Answers
<1>9. QED
  BY <1>1, <1>2, <1>3, <1>6, <1>7, <1>8, ProcessesFrame DEF CallInv
----------------------------------------------------------------------------
(* The server reads a message: a request goes from its pipe to its hands.  *)
LEMMA CallServerRead ==
    ASSUME CallInv, NEW p \in Procs, ServerRead(p)
    PROVE  CallInv'
<1> DEFINE m == Head(stdin[p])
           task == [id |-> m.id, op |-> m.op, did |-> FALSE]
           new == IF m.id = 0 THEN {} ELSE {task}
<1>1. /\ UNCHANGED clientVars /\ UNCHANGED <<life, stdout, effects, pending, box, reader>>
      /\ stdin[p] # << >> /\ stdin' = [stdin EXCEPT ![p] = Tail(stdin[p])]
      /\ handling' = [handling EXCEPT ![p] = IF m.id = 0 THEN @ ELSE @ \cup {task}]
  BY DEF ServerRead, waiterVars
<1>2. UNCHANGED <<lock, pc, op, rid, told, proc, next_id>> /\ Shape /\ Answers /\ Processes
  BY <1>1 DEF clientVars, CallInv
<1>3. Steady /\ \A c \in Callers : Turn(c)'
  BY <1>1, <1>2, NoCaller DEF Shape
<1>4. /\ m \in Messages /\ m = stdin[p][1] /\ 1 \in DOMAIN stdin[p] /\ Tail(stdin[p]) \in Seq(Messages)
      /\ \A i \in DOMAIN Tail(stdin[p]) : i + 1 \in DOMAIN stdin[p] /\ Tail(stdin[p])[i] = stdin[p][i + 1]
  BY <1>1, <1>2, Consumed DEF Shape
<1>5. m.id # 0 => m.op \in Ops /\ Fits(m.id, m.op)
  BY <1>2, <1>4 DEF Answers, Asked
<1> HIDE DEF m
<1>6. new \subseteq Tasks /\ \A t \in new : t = task /\ t.id = m.id /\ t.op = m.op /\ t.did = FALSE /\ m.id # 0
  <2>1. m.id \in Nat
    BY <1>4 DEF Messages
  <2>2. m.id # 0 => task \in Tasks
    BY <1>5, <2>1 DEF Tasks
  <2>3. task.id = m.id /\ task.op = m.op /\ task.did = FALSE
    OBVIOUS
  <2> HIDE DEF task
  <2>4. QED
    BY <2>2, <2>3
<1>7. /\ handling' \in [Procs -> SUBSET Tasks] /\ handling'[p] = handling[p] \cup new
      /\ \A q \in Procs : q # p => handling'[q] = handling[q]
  BY <1>1, <1>2, <1>6 DEF Shape
<1>8. /\ stdin' \in [Procs -> Seq(Messages)] /\ stdin'[p] = Tail(stdin[p])
      /\ \A q \in Procs : q # p => stdin'[q] = stdin[q]
  BY <1>1, <1>2, <1>4 DEF Shape
<1> HIDE DEF new
<1>9. Shape'
  BY <1>1, <1>2, <1>7, <1>8 DEF Shape
<1>10. Answers'
  <2>1. ASSUME NEW q \in Procs PROVE (Written(q) /\ Delivering(q))'
    BY <1>1, <1>2, <1>3, AnswersKept DEF Answers
  <2>2. ASSUME NEW i \in 1 .. next_id PROVE Delivered(i)'
    BY <1>1, <1>2, <1>3, DeliveredKept DEF Answers
  <2>3. ASSUME NEW q \in Procs PROVE Asked(q)'
    <3>1. CASE q # p
      BY <1>2, <1>3, <1>8, <3>1, AnswersKept DEF Answers
    <3>2. CASE q = p
      <4>1. ASSUME NEW i \in DOMAIN stdin'[p], NEW n, n = stdin'[p][i], n.id # 0
            PROVE  n.op \in Ops /\ Fits(n.id, n.op)'
        <5>1. n = stdin[p][i + 1] /\ i + 1 \in DOMAIN stdin[p]
          BY <1>4, <1>8, <4>1
        <5>2. n.op \in Ops /\ Fits(n.id, n.op)
          BY <1>2, <4>1, <5>1 DEF Answers, Asked
        <5>3. QED
          BY <1>2, <1>3, <5>2, FitsKept
      <4>2. QED
        BY <3>2, <4>1 DEF Asked, Fits
    <3>3. QED
      BY <3>1, <3>2
  <2>4. ASSUME NEW q \in Procs PROVE Worked(q)'
    <3>1. CASE q # p
      BY <1>2, <1>3, <1>7, <3>1, AnswersKept DEF Answers
    <3>2. CASE q = p
      <4>1. ASSUME NEW t \in handling'[p] PROVE Fits(t.id, t.op)'
        <5>1. Fits(t.id, t.op)
          BY <1>2, <1>5, <1>6, <1>7, <4>1 DEF Answers, Worked
        <5>2. QED
          BY <1>2, <1>3, <5>1, FitsKept
      <4>2. QED
        BY <3>2, <4>1 DEF Worked
    <3>3. QED
      BY <3>1, <3>2
  <2>5. QED
    BY <1>2, <2>1, <2>2, <2>3, <2>4 DEF Answers
<1>11. ASSUME NEW d \in Calls PROVE Once(d)'
  <2>0. Once(d)
    BY DEF CallInv
  <2>1. ASSUME NEW q \in Procs, NEW i \in DOMAIN stdin'[q], Request(stdin'[q][i], d)
        PROVE  \E j \in DOMAIN stdin[q] : /\ Request(stdin[q][j], d)
                                          /\ j = IF q = p THEN i + 1 ELSE i
    BY <1>4, <1>8, <2>1
  <2>2. ASSUME NEW q \in Procs, NEW t \in handling'[q], t.op = d
        PROVE  t \in handling[q] \/ (q = p /\ t = task /\ t.did = FALSE /\ Request(m, d))
    BY <1>6, <1>7, <2>2 DEF Request
  <2>3. ASSUME NEW q \in Procs, NEW i \in DOMAIN stdin'[q] PROVE i \in Nat
    BY <1>8 DEF Shape
  <2>4. CASE Request(m, d)
    <3>1. /\ effects[d] = 0 /\ pc[d] \in {"wait", "done"} /\ op[d] = d
          /\ \A q \in Procs : \A t \in handling[q] : t.op # d
      BY <1>4, <2>0, <2>4 DEF Once
    <3>2. ASSUME NEW q \in Procs, NEW i \in DOMAIN stdin'[q] PROVE ~Request(stdin'[q][i], d)
      <4>1. SUFFICES ASSUME Request(stdin'[q][i], d) PROVE FALSE
        OBVIOUS
      <4>2. PICK j \in DOMAIN stdin[q] : Request(stdin[q][j], d) /\ j = IF q = p THEN i + 1 ELSE i
        BY <2>1, <4>1
      <4>3. q = p /\ j = 1
        BY <1>4, <2>0, <2>4, <4>2 DEF Once
      <4>4. i \in Nat /\ i # 0
        BY <1>8, LenProperties DEF Shape
      <4>5. QED
        BY <4>2, <4>3, <4>4
    <3>3. ASSUME NEW q \in Procs, NEW t \in handling'[q], t.op = d PROVE q = p /\ t = task /\ t.did = FALSE
      BY <2>2, <3>1, <3>3
    <3>4. QED
      BY <1>1, <1>2, <3>1, <3>2, <3>3 DEF Once, Request
  <2>5. CASE ~Request(m, d)
    <3>1. ASSUME NEW q \in Procs, NEW t \in handling'[q], t.op = d PROVE t \in handling[q]
      BY <2>2, <2>5, <3>1
    <3>2. ASSUME NEW q \in Procs, NEW r \in Procs, NEW i \in DOMAIN stdin'[q], NEW j \in DOMAIN stdin'[r],
                 Request(stdin'[q][i], d), Request(stdin'[r][j], d)
          PROVE  q = r /\ i = j
      <4>1. PICK k \in DOMAIN stdin[q] : Request(stdin[q][k], d) /\ k = IF q = p THEN i + 1 ELSE i
        BY <2>1, <3>2
      <4>2. PICK l \in DOMAIN stdin[r] : Request(stdin[r][l], d) /\ l = IF r = p THEN j + 1 ELSE j
        BY <2>1, <3>2
      <4>3. q = r /\ k = l
        BY <2>0, <4>1, <4>2 DEF Once
      <4>4. i \in Nat /\ j \in Nat
        BY <2>3
      <4>5. QED
        BY <4>1, <4>2, <4>3, <4>4
    <3>3. ASSUME NEW q \in Procs, NEW i \in DOMAIN stdin'[q], Request(stdin'[q][i], d)
          PROVE  /\ effects[d] = 0 /\ pc[d] \in {"wait", "done"} /\ op[d] = d
                 /\ \A r \in Procs : \A t \in handling[r] : t.op # d
      BY <2>0, <2>1, <3>3 DEF Once
    <3>4. QED
      BY <1>1, <1>2, <2>0, <3>1, <3>2, <3>3 DEF Once
  <2>6. QED
    BY <2>4, <2>5
<1>12. QED
  BY <1>1, <1>2, <1>3, <1>9, <1>10, <1>11, ProcessesFrame DEF CallInv

(* The server performs a call it has not performed.                        *)
LEMMA CallServerPerforms ==
    ASSUME CallInv, NEW p \in Procs, ServerPerforms(p)
    PROVE  CallInv'
<1>1. /\ UNCHANGED clientVars /\ UNCHANGED <<life, stdin, stdout, pending, box, reader>>
  BY DEF ServerPerforms, waiterVars
<1>2. UNCHANGED <<lock, pc, op, rid, told, proc, next_id>> /\ Shape /\ Answers /\ Processes
  BY <1>1 DEF clientVars, CallInv
<1>3. PICK m \in handling[p] :
         /\ m.op \in Calls /\ ~m.did /\ effects' = [effects EXCEPT ![m.op] = @ + 1]
         /\ handling' = [handling EXCEPT ![p] = (@ \ {m}) \cup {[id |-> m.id, op |-> m.op, did |-> TRUE]}]
  BY DEF ServerPerforms
<1> DEFINE c == m.op
           n == [id |-> m.id, op |-> m.op, did |-> TRUE]
<1>4. m \in Tasks /\ n \in Tasks /\ m.did = FALSE
  <2>1. m \in Tasks
    BY <1>2, <1>3 DEF Shape
  <2>2. m.id \in Nat \ {0} /\ m.op \in Ops /\ m.did \in BOOLEAN
    BY <2>1 DEF Tasks
  <2>3. n \in Tasks
    BY <2>2 DEF Tasks
  <2>4. m.did = FALSE
    BY <1>3, <2>2, Zenon
  <2>5. QED
    BY <2>1, <2>3, <2>4
<1>5. /\ handling' \in [Procs -> SUBSET Tasks] /\ handling'[p] = (handling[p] \ {m}) \cup {n}
      /\ \A q \in Procs : q # p => handling'[q] = handling[q]
  BY <1>2, <1>3, <1>4 DEF Shape
<1>6. effects[c] = 0 /\ Once(c)
  BY <1>3 DEF CallInv, Once
<1>7. effects' \in [Calls -> Nat] /\ effects'[c] = 1 /\ \A d \in Calls : d # c => effects'[d] = effects[d]
  BY <1>2, <1>3, <1>6 DEF Shape
<1>8. Steady /\ \A d \in Callers : Turn(d)'
  BY <1>1, <1>6, <1>7, NoCaller
<1>9. Shape'
  BY <1>1, <1>2, <1>5, <1>7 DEF Shape
<1>10. Answers'
  <2>1. ASSUME NEW q \in Procs PROVE (Asked(q) /\ Written(q) /\ Delivering(q))'
    BY <1>1, <1>2, <1>8, AnswersKept DEF Answers
  <2>2. ASSUME NEW i \in 1 .. next_id PROVE Delivered(i)'
    BY <1>1, <1>2, <1>8, DeliveredKept DEF Answers
  <2>3. ASSUME NEW q \in Procs PROVE Worked(q)'
    <3>1. CASE q # p
      BY <1>2, <1>5, <1>8, <3>1, AnswersKept DEF Answers
    <3>2. CASE q = p
      <4>1. ASSUME NEW t \in handling'[p] PROVE Fits(t.id, t.op)'
        <5>1. Fits(t.id, t.op)
          BY <1>2, <1>3, <1>5, <4>1 DEF Answers, Worked
        <5>2. QED
          BY <1>2, <1>8, <5>1, FitsKept
      <4>2. QED
        BY <3>2, <4>1 DEF Worked
    <3>3. QED
      BY <3>1, <3>2
  <2>4. QED
    BY <1>2, <2>1, <2>2, <2>3 DEF Answers
<1>11. ASSUME NEW d \in Calls PROVE Once(d)'
  <2>0. Once(d)
    BY DEF CallInv
  <2>1. CASE d = c
    <3>1. /\ pc[c] \in {"wait", "done"} /\ op[c] = c
          /\ \A q \in Procs : \A i \in DOMAIN stdin[q] : ~Request(stdin[q][i], c)
      BY <1>3, <1>6 DEF Once
    <3>2. ASSUME NEW q \in Procs, NEW t \in handling'[q], t.op = c PROVE q = p /\ t = n
      BY <1>3, <1>5, <1>6, <3>2 DEF Once
    <3>3. n.did = TRUE /\ stdin' = stdin /\ pc' = pc /\ op' = op /\ effects'[d] = 1
      BY <1>1, <1>2, <1>7, <2>1
    <3> HIDE DEF n, c
    <3>4. QED
      BY <2>1, <3>1, <3>2, <3>3 DEF Once
  <2>2. CASE d # c
    <3>1. ASSUME NEW q \in Procs, NEW t \in handling'[q], t.op = d PROVE t \in handling[q]
      BY <1>5, <2>2, <3>1
    <3>2. effects'[d] = effects[d]
      BY <1>7, <2>2
    <3>3. QED
      BY <1>1, <1>2, <2>0, <3>1, <3>2 DEF Once
  <2>3. QED
    BY <2>1, <2>2
<1>12. QED
  BY <1>1, <1>2, <1>8, <1>9, <1>10, <1>11, ProcessesFrame DEF CallInv

(* What a server's pipe holds after it has written a line that is good.    *)
LEMMA WrittenMore ==
    ASSUME CallInv, Steady, NEW p \in Procs, NEW line \in Lines, Good(line),
           stdout' = [stdout EXCEPT ![p] = Append(@, line)]
    PROVE  stdout' \in [Procs -> Seq(Lines)] /\ \A q \in Procs : Written(q)'
<1>1. Shape /\ Written(p) /\ stdout[p] \in Seq(Lines) /\ stdout'[p] = Append(stdout[p], line)
  BY DEF CallInv, Answers, Shape
<1>2. /\ stdout'[p] \in Seq(Lines) /\ DOMAIN stdout[p] = 1 .. Len(stdout[p])
      /\ DOMAIN stdout'[p] = 1 .. Len(stdout[p]) + 1 /\ Len(stdout[p]) \in Nat
      /\ stdout'[p][Len(stdout[p]) + 1] = line
      /\ \A i \in 1 .. Len(stdout[p]) : stdout'[p][i] = stdout[p][i]
  BY <1>1, AppendProperties, LenProperties
<1>3. stdout' \in [Procs -> Seq(Lines)]
  BY <1>1, <1>2 DEF Shape
<1>4. ASSUME NEW i \in DOMAIN stdout'[p], NEW l, l = stdout'[p][i] PROVE Good(l)'
  <2>1. i \in DOMAIN stdout[p] \/ i = Len(stdout[p]) + 1
    BY <1>2
  <2>2. Good(l)
    BY <1>1, <1>2, <1>4, <2>1 DEF Written
  <2>3. QED
    BY <1>1, <2>2, GoodKept
<1>5. Written(p)'
  BY <1>4 DEF Written, Good, Fits
<1>6. ASSUME NEW q \in Procs, q # p PROVE Written(q)'
  <2>1. stdout'[q] = stdout[q] /\ Written(q)
    BY <1>1, <1>6 DEF CallInv, Answers, Shape
  <2>2. QED
    BY <1>1, <2>1, AnswersKept
<1>7. QED
  BY <1>3, <1>5, <1>6

(* The server answers a request, or writes a line of its own.              *)
LEMMA CallServerWrites ==
    ASSUME CallInv, NEW p \in Procs, ServerAnswers(p) \/ ServerSpeaks(p)
    PROVE  CallInv'
<1>1. /\ UNCHANGED clientVars /\ UNCHANGED <<life, stdin, effects, pending, box, reader>>
  BY DEF ServerAnswers, ServerSpeaks, waiterVars
<1>2. UNCHANGED <<lock, pc, op, rid, told, proc, next_id>> /\ Shape /\ Answers /\ Processes
  BY <1>1 DEF clientVars, CallInv
<1>3. Steady /\ \A c \in Callers : Turn(c)'
  BY <1>1, <1>2, NoCaller DEF Shape
<1>4. \E line \in Lines : Good(line) /\ stdout' = [stdout EXCEPT ![p] = Append(@, line)]
  <2>1. CASE ServerAnswers(p)
    <3>1. PICK m \in handling[p], ok \in BOOLEAN :
             /\ ok => m.did \/ m.op \notin Calls
             /\ stdout' = [stdout EXCEPT ![p] = Append(@, [id |-> m.id, of |-> m.op, ok |-> ok])]
      BY <2>1 DEF ServerAnswers
    <3> DEFINE line == [id |-> m.id, of |-> m.op, ok |-> ok]
    <3>2. m \in Tasks /\ Fits(m.id, m.op)
      BY <1>2 DEF Shape, Answers, Worked
    <3>3. line \in Lines /\ line.id = m.id /\ line.of = m.op /\ line.ok = ok
      BY <3>2 DEF Lines, Tasks
    <3>4. ok /\ m.op \in Calls => effects[m.op] = 1
      BY <3>1 DEF CallInv, Once
    <3> HIDE DEF line
    <3>5. Good(line)
      <4>1. line.id \in 0 .. next_id
        BY <1>2, <3>2, <3>3 DEF Fits, Shape
      <4>2. QED
        BY <3>2, <3>3, <3>4, <4>1 DEF Good
    <3>6. QED
      BY <3>1, <3>3, <3>5 DEF line
  <2>2. CASE ServerSpeaks(p)
    <3>1. PICK of \in {"noise", "ask"} :
             stdout' = [stdout EXCEPT ![p] = Append(@, [id |-> 0, of |-> of, ok |-> FALSE])]
      BY <2>2 DEF ServerSpeaks
    <3> DEFINE line == [id |-> 0, of |-> of, ok |-> FALSE]
    <3>2. line \in Lines /\ ~line.ok /\ line.id = 0
      BY DEF Lines
    <3> HIDE DEF line
    <3>3. Good(line)
      BY <1>2, <3>2 DEF Good, Shape
    <3>4. QED
      BY <3>1, <3>2, <3>3 DEF line
  <2>3. QED
    BY <2>1, <2>2
<1>5. stdout' \in [Procs -> Seq(Lines)] /\ \A q \in Procs : Written(q)'
  BY <1>3, <1>4, WrittenMore
<1>6. handling' \in [Procs -> SUBSET Tasks] /\ \A q \in Procs : handling'[q] \subseteq handling[q]
  <2>1. CASE ServerAnswers(p)
    <3>1. PICK m : handling' = [handling EXCEPT ![p] = @ \ {m}]
      BY <2>1 DEF ServerAnswers
    <3>2. QED
      BY <1>2, <3>1 DEF Shape
  <2>2. CASE ServerSpeaks(p)
    BY <1>2, <2>2 DEF ServerSpeaks, Shape
  <2>3. QED
    BY <2>1, <2>2
<1>7. Shape'
  BY <1>1, <1>2, <1>5, <1>6 DEF Shape
<1>8. Answers'
  <2>1. ASSUME NEW q \in Procs PROVE (Asked(q) /\ Delivering(q))'
    BY <1>1, <1>2, <1>3, AnswersKept DEF Answers
  <2>2. ASSUME NEW i \in 1 .. next_id PROVE Delivered(i)'
    BY <1>1, <1>2, <1>3, DeliveredKept DEF Answers
  <2>3. ASSUME NEW q \in Procs PROVE Worked(q)'
    <3>1. ASSUME NEW t \in handling'[q] PROVE Fits(t.id, t.op)'
      <4>1. Fits(t.id, t.op)
        BY <1>2, <1>6, <3>1 DEF Answers, Worked
      <4>2. QED
        BY <1>2, <1>3, <4>1, FitsKept
    <3>2. QED
      BY <3>1 DEF Worked
  <2>4. QED
    BY <1>2, <1>5, <2>1, <2>2, <2>3 DEF Answers
<1>9. ASSUME NEW d \in Calls PROVE Once(d)'
  BY <1>1, <1>2, <1>6, OnceShrinks DEF CallInv
<1>10. QED
  BY <1>1, <1>2, <1>3, <1>7, <1>8, <1>9, ProcessesFrame DEF CallInv

(* A process ends: what was in its pipe and in its hands is lost.          *)
LEMMA GoneKeeps ==
    ASSUME CallInv, NEW p \in Procs, Gone(p), Deaths < MaxDeaths, proc' \in {proc, 0},
           proc' = 0 => p = proc
    PROVE  /\ life' \in [Procs -> {"unborn", "alive", "dead"}]
           /\ stdin' \in [Procs -> Seq(Messages)] /\ handling' \in [Procs -> SUBSET Tasks]
           /\ \A q \in Procs : stdin'[q] \in {stdin[q], << >>} /\ handling'[q] \subseteq handling[q]
           /\ Processes'
<1>1. /\ life[p] = "alive" /\ life' = [life EXCEPT ![p] = "dead"]
      /\ stdin' = [stdin EXCEPT ![p] = << >>] /\ handling' = [handling EXCEPT ![p] = {}]
      /\ Shape /\ Processes
  BY DEF Gone, CallInv
<1>2. /\ life' \in [Procs -> {"unborn", "alive", "dead"}] /\ life'[p] = "dead"
      /\ \A q \in Procs : q # p => life'[q] = life[q]
  BY <1>1 DEF Shape
<1>3. /\ stdin' \in [Procs -> Seq(Messages)] /\ handling' \in [Procs -> SUBSET Tasks]
      /\ \A q \in Procs : stdin'[q] \in {stdin[q], << >>} /\ handling'[q] \subseteq handling[q]
  BY <1>1 DEF Shape
<1>4. \A q \in Procs : life'[q] # "unborn" <=> life[q] # "unborn"
  BY <1>1, <1>2
<1>5. Deaths' <= MaxDeaths
  <2> DEFINE dead == {q \in Procs : life[q] = "dead"}
             more == {q \in Procs : life'[q] = "dead"}
  <2>1. more = dead \cup {p} /\ p \notin dead
    BY <1>1, <1>2
  <2>2. IsFiniteSet(dead)
    <3>1. 1 \in Int /\ MaxDeaths + 1 \in Int
      BY Pipes
    <3>2. IsFiniteSet(Procs)
      BY <3>1, FS_Interval DEF Procs
    <3>3. QED
      BY <3>2, FS_Subset
  <2>3. Cardinality(dead \cup {p}) = Cardinality(dead) + 1 /\ Cardinality(dead) \in Nat
    BY <2>1, <2>2, FS_AddElement, FS_CardinalityType
  <2>4. Cardinality(dead) < MaxDeaths
    BY DEF Deaths
  <2>5. Cardinality(more) = Cardinality(dead \cup {p})
    BY <2>1, Zenon
  <2> HIDE DEF dead, more
  <2>6. Cardinality(more) <= MaxDeaths
    BY <2>3, <2>4, <2>5, Pipes
  <2>7. QED
    BY <2>6 DEF Deaths, more
<1>6. proc # 0 => Born(proc) /\ ~Superseded(proc)
  BY <1>1 DEF Processes
<1>7. \A q \in Procs : life'[q] = "alive" => q = proc'
  <2>1. ASSUME NEW q \in Procs, life'[q] = "alive" PROVE q = proc'
    <3>1. q # p /\ life[q] = "alive" /\ q = proc
      BY <1>1, <1>2, <2>1 DEF Processes
    <3>2. QED
      BY <3>1
  <2>2. QED
    BY <2>1
<1>8. proc' # 0 => Born(proc)' /\ ~Superseded(proc)'
  BY <1>1, <1>4, <1>6 DEF Born, Superseded, Shape
<1>9. \A q, r \in Procs : Born(r)' /\ q < r => Born(q)'
  BY <1>1, <1>4 DEF Processes, Born
<1>10. QED
  BY <1>2, <1>3, <1>5, <1>7, <1>8, <1>9 DEF Processes

(* Exits and Close.                                                        *)
LEMMA CallEnds ==
    ASSUME CallInv, (\E p \in Procs : Exits(p)) \/ Close
    PROVE  CallInv'
<1>1. Shape /\ Answers /\ Processes
  BY DEF CallInv
<1>2. /\ UNCHANGED <<lock, pc, op, rid, told, next_id>>
      /\ UNCHANGED <<stdout, effects, pending, box, reader>>
  BY DEF Exits, Close, clientVars, waiterVars
<1>3. /\ proc' \in {proc, 0} /\ (proc' = 0 /\ proc # 0 => lock = None)
      /\ life' \in [Procs -> {"unborn", "alive", "dead"}]
      /\ stdin' \in [Procs -> Seq(Messages)] /\ handling' \in [Procs -> SUBSET Tasks]
      /\ \A q \in Procs : stdin'[q] \in {stdin[q], << >>} /\ handling'[q] \subseteq handling[q]
      /\ Processes'
  <2>1. CASE \E p \in Procs : Exits(p)
    <3>1. PICK p \in Procs : Exits(p)
      BY <2>1
    <3>2. Gone(p) /\ Deaths < MaxDeaths /\ proc' = proc
      BY <3>1 DEF Exits, clientVars
    <3>3. life[p] = "alive" /\ p \in Nat \ {0}
      BY <3>2 DEF Gone, Procs
    <3>4. proc' = 0 => p = proc
      BY <1>1, <3>2, <3>3 DEF Processes
    <3>5. QED
      BY <3>2, <3>4, GoneKeeps
  <2>2. CASE Close
    <3>1. lock = None /\ proc # 0 /\ proc' = 0 /\ proc \in Procs
      BY <1>1, <2>2 DEF Close, Shape
    <3>2. CASE Deaths < MaxDeaths /\ Gone(proc)
      BY <3>1, <3>2, GoneKeeps
    <3>3. CASE life[proc] = "dead" /\ UNCHANGED <<life, stdin, handling>>
      <4>1. Processes'
        BY <1>1, <3>1, <3>3 DEF Processes, Born, Superseded, Deaths
      <4>2. QED
        BY <1>1, <3>1, <3>3, <4>1 DEF Shape
    <3>4. QED
      BY <2>2, <3>2, <3>3 DEF Close
  <2>3. QED
    BY <2>1, <2>2
<1>4. Steady
  BY <1>1, <1>2 DEF Steady, Shape
<1>5. \A c \in Callers : Turn(c)'
  <2>1. ASSUME NEW c \in Callers PROVE Turn(c)'
    <3>1. Turn(c) /\ c # None
      BY Pipes DEF CallInv
    <3>2. pc[c] \in Held \ {"ensure"} => proc' # 0
      BY <1>3, <3>1 DEF Turn
    <3>3. QED
      BY <1>2, <3>1, <3>2 DEF Turn
  <2>2. QED
    BY <2>1
<1>6. Shape'
  BY <1>1, <1>2, <1>3 DEF Shape
<1>7. Answers'
  <2>1. ASSUME NEW q \in Procs PROVE (Written(q) /\ Delivering(q))'
    BY <1>1, <1>2, <1>4, AnswersKept DEF Answers
  <2>2. ASSUME NEW i \in 1 .. next_id PROVE Delivered(i)'
    BY <1>1, <1>2, <1>4, DeliveredKept DEF Answers
  <2>3. ASSUME NEW q \in Procs PROVE Worked(q)'
    <3>1. ASSUME NEW t \in handling'[q] PROVE Fits(t.id, t.op)'
      <4>1. Fits(t.id, t.op)
        BY <1>1, <1>3, <3>1 DEF Answers, Worked
      <4>2. QED
        BY <1>1, <1>4, <4>1, FitsKept
    <3>2. QED
      BY <3>1 DEF Worked
  <2>4. ASSUME NEW q \in Procs PROVE Asked(q)'
    <3>1. CASE stdin'[q] = stdin[q]
      BY <1>1, <1>4, <3>1, AnswersKept DEF Answers
    <3>2. CASE stdin'[q] = << >>
      <4>1. DOMAIN << >> = {}
        OBVIOUS
      <4>2. QED
        BY <3>2, <4>1 DEF Asked
    <3>3. QED
      BY <1>3, <3>1, <3>2
  <2>5. QED
    BY <1>2, <2>1, <2>2, <2>3, <2>4 DEF Answers
<1>8. ASSUME NEW d \in Calls PROVE Once(d)'
  BY <1>1, <1>2, <1>3, OnceShrinks DEF CallInv
<1>9. QED
  BY <1>3, <1>5, <1>6, <1>7, <1>8 DEF CallInv

(* The client starts in order.                                             *)
LEMMA CallInit == Init => CallInv
<1> SUFFICES ASSUME Init PROVE CallInv
  OBVIOUS
<1>1. Shape
  <2>1. Idle \in Readers
    BY DEF Idle, Readers
  <2>2. << >> \in Seq(Messages) /\ << >> \in Seq(Lines)
    OBVIOUS
  <2>3. << >> \in [1 .. 0 -> Lines \cup {None}]
    OBVIOUS
  <2>4. QED
    BY <2>1, <2>2, <2>3 DEF Init, Shape, Places, Ops
<1>2. Processes
  <2>1. {p \in Procs : life[p] = "dead"} = {}
    BY DEF Init
  <2>2. Deaths = 0
    <3>1. Deaths = Cardinality({})
      BY <2>1, Zenon DEF Deaths
    <3>2. QED
      BY <3>1, FS_EmptySet
  <2>3. QED
    BY <2>2, Pipes DEF Init, Processes, Born
<1>3. \A c \in Callers : Turn(c)
  BY Pipes DEF Init, Turn, Held, Waiting
<1>4. \A c \in Calls : Once(c)
  <2>1. \A p \in Procs : DOMAIN stdin[p] = {} /\ handling[p] = {}
    BY DEF Init
  <2>2. \A c \in Calls : effects[c] = 0
    BY DEF Init
  <2>3. QED
    BY <2>1, <2>2 DEF Once
<1>5. Answers
  <2>1. \A p \in Procs : /\ DOMAIN stdin[p] = {} /\ handling[p] = {} /\ DOMAIN stdout[p] = {}
                         /\ reader[p].to = {} /\ reader[p].at = "idle"
    BY DEF Init, Idle
  <2>2. next_id = 0 /\ 1 .. 0 = {}
    BY DEF Init
  <2>3. QED
    BY <2>1, <2>2 DEF Answers, Asked, Worked, Written, Delivering
<1>6. QED
  BY <1>1, <1>2, <1>3, <1>4, <1>5 DEF CallInv

(* Nothing happens.                                                        *)
LEMMA CallStutter == CallInv /\ UNCHANGED vars => CallInv'
<1> SUFFICES ASSUME CallInv, UNCHANGED vars PROVE CallInv'
  OBVIOUS
<1>1. UNCHANGED <<clientVars, pipeVars, waiterVars>>
  BY DEF vars
<1>2. /\ UNCHANGED <<lock, pc, op, rid, told, listed, proc, next_id, tools>>
      /\ UNCHANGED <<life, stdin, stdout, handling, effects, asides>>
      /\ UNCHANGED <<pending, box, reader, outlived>>
  BY <1>1 DEF clientVars, pipeVars, waiterVars
<1>3. Shape' /\ Processes'
  BY <1>2, ProcessesFrame DEF CallInv, Shape
<1>4. Steady /\ \A c \in Callers : Turn(c)'
  BY <1>1, <1>2, NoCaller DEF CallInv, Shape
<1>5. \A c \in Calls : Once(c)'
  BY <1>2, OnceFrame DEF CallInv
<1>6. Answers'
  BY <1>2, <1>4, AnswersFrame DEF CallInv
<1>7. QED
  BY <1>3, <1>4, <1>5, <1>6 DEF CallInv

(* Every step keeps calls and answers in order.                            *)
LEMMA CallNext == CallInv /\ [Next]_vars => CallInv'
<1> SUFFICES ASSUME CallInv, [Next]_vars PROVE CallInv'
  OBVIOUS
<1>1. ASSUME NEW c \in Callers, Begin(c) \/ CallerStep(c) PROVE CallInv'
  BY <1>1, CallPlain, CallLaunch, CallRegister, CallSend, CallGet DEF CallerStep
<1>2. ASSUME NEW p \in Procs,
             \/ ReaderStep(p)
             \/ ServerRead(p) \/ ServerPerforms(p) \/ ServerAnswers(p) \/ ServerSpeaks(p)
             \/ Exits(p)
      PROVE  CallInv'
  BY <1>2, CallReader, CallServerRead, CallServerPerforms, CallServerWrites, CallEnds
<1>3. QED
  BY <1>1, <1>2, CallEnds, CallStutter DEF Next

(* Requests and replies are in order in every state of the client.         *)
THEOREM CallsInOrder == Spec => []CallInv
  BY CallInit, CallNext, PTL DEF Spec

----------------------------------------------------------------------------
(* What a caller knows, as RemoteCall sees it.                             *)
Known(c) == IF told[c] = None /\ pc[c] # "idle" THEN "asked" ELSE told[c]
View == [c \in Calls |-> Known(c)]

(* What the view becomes when only one caller moves.                       *)
LEMMA ViewStep ==
    ASSUME NEW c \in Callers, OnlyBy(c)
    PROVE  /\ c \notin Calls \/ Known(c)' = Known(c) => View' = View
           /\ c \in Calls => View' = [View EXCEPT ![c] = Known(c)']
<1>1. \A d \in Calls : d # c => Known(d)' = Known(d)
  BY DEF OnlyBy, Known, Callers
<1>2. QED
  BY <1>1 DEF View

(* The refinement mapping at the start.                                    *)
LEMMA RemoteInit == Init => Remote!Init
  BY DEF Init, Remote!Init, Callers

(* The answer that a caller gets is its own, after its effect.             *)
LEMMA OwnAnswer ==
    ASSUME CallInv, NEW c \in Calls, pc[c] = "wait", op[c] # "initialize",
           box[rid[c]] # None, box[rid[c]].ok
    PROVE  box[rid[c]].of = c /\ effects[c] = 1
<1> DEFINE i == rid[c]
<1>1. i \in 1 .. next_id /\ op[c] = c /\ c \in Callers
  BY DEF CallInv, Turn, Waiting, Callers
<1>2. box[i].id = i /\ Good(box[i])
  BY <1>1 DEF CallInv, Answers, Delivered
<1>3. Fits(i, box[i].of) /\ (box[i].of \in Calls => effects[box[i].of] = 1)
  BY <1>2 DEF Good
<1>4. box[i].of = op[c]
  BY <1>1, <1>3 DEF Fits, Waiting
<1>5. QED
  BY <1>1, <1>3, <1>4

(* Every step of the client, of a reader and of a server is a step of      *)
(* RemoteCall or none.                                                     *)
LEMMA RemoteNext ==
    ASSUME CallInv, [Next]_vars
    PROVE  \/ \E c \in Calls : \/ /\ View[c] = None /\ View' = [View EXCEPT ![c] = "asked"]
                                  /\ effects' = effects
                               \/ /\ View[c] # None /\ effects[c] = 0
                                  /\ effects' = [effects EXCEPT ![c] = 1] /\ View' = View
                               \/ /\ View[c] = "asked" /\ effects[c] = 1
                                  /\ View' = [View EXCEPT ![c] = c] /\ effects' = effects
                               \/ /\ View[c] = "asked" /\ View' = [View EXCEPT ![c] = "failed"]
                                  /\ effects' = effects
           \/ View' = View /\ effects' = effects
<1>0. Shape /\ \A c \in Callers : Turn(c)
  BY DEF CallInv
<1>1. ASSUME UNCHANGED <<told, pc, effects>> PROVE View' = View /\ effects' = effects
  BY <1>1 DEF View, Known
<1>2. ASSUME NEW c \in Callers, OnlyBy(c), effects' = effects, pc[c] # "idle", pc'[c] # "idle",
             told'[c] = told[c]
      PROVE  View' = View
  <2>1. Known(c)' = Known(c)
    BY <1>2 DEF Known
  <2>2. QED
    BY <1>2, <2>1, ViewStep
<1>3. ASSUME NEW c \in Callers, Raise(c), UNCHANGED <<op, rid, effects>>, pc[c] \in Held
      PROVE  \/ View' = View
             \/ c \in Calls /\ View[c] = "asked" /\ View' = [View EXCEPT ![c] = "failed"]
  <2>1. OnlyBy(c) /\ told'[c] = "failed" /\ told[c] = None
    BY <1>0, <1>3 DEF Raise, Goto, OnlyBy, Shape, Turn, Held
  <2>2. c \in Calls => Known(c) = "asked" /\ Known(c)' = "failed"
    BY <1>3, <2>1, Pipes DEF Known, Held
  <2>3. QED
    BY <2>1, <2>2, ViewStep DEF View
<1>4. ASSUME NEW c \in Callers, Begin(c)
      PROVE  \/ View' = View
             \/ c \in Calls /\ View[c] = None /\ View' = [View EXCEPT ![c] = "asked"]
  <2>1. OnlyBy(c) /\ pc[c] = "idle" /\ told[c] = None
    BY <1>0, <1>4 DEF Begin, Goto, OnlyBy, Shape, Turn
  <2>2. CASE c \in Calls
    <3>1. c \notin Listings
      BY <2>2, Pipes
    <3>2. told' = told /\ pc' = [pc EXCEPT ![c] = "acquire"]
      BY <1>4, <3>1 DEF Begin, Goto
    <3>3. Known(c) = None /\ Known(c)' = "asked"
      BY <1>0, <2>1, <3>2 DEF Known, Shape
    <3>4. QED
      BY <2>1, <2>2, <3>3, ViewStep DEF View
  <2>3. CASE c \notin Calls
    BY <2>1, <2>3, ViewStep
  <2>4. QED
    BY <2>2, <2>3
<1>5. ASSUME NEW c \in Callers, Acquire(c) \/ EnsureRunning(c) \/ Launch(c) \/ Register(c)
      PROVE  View' = View /\ effects' = effects
  <2>1. /\ effects' = effects /\ told' = told /\ pc[c] \in {"acquire", "ensure", "register"}
    BY <1>5 DEF Acquire, EnsureRunning, Launch, StartProcess, Register, pipeVars
  <2>2. \E where \in {"ensure", "register", "send"} : pc' = [pc EXCEPT ![c] = where]
    BY <1>5 DEF Acquire, EnsureRunning, Launch, StartProcess, Register, Goto
  <2>3. \A d \in Callers : d # c => op'[d] = op[d] /\ rid'[d] = rid[d]
    BY <1>0, <1>5 DEF Acquire, EnsureRunning, Launch, StartProcess, Register, Shape
  <2>4. OnlyBy(c) /\ pc'[c] # "idle"
    BY <1>0, <2>1, <2>2, <2>3 DEF OnlyBy, Shape
  <2>5. QED
    BY <1>2, <2>1, <2>4
<1>6. ASSUME NEW c \in Callers, Send(c) \/ SendInitialized(c)
      PROVE  /\ effects' = effects
             /\ \/ View' = View
                \/ c \in Calls /\ View[c] = "asked" /\ View' = [View EXCEPT ![c] = "failed"]
  <2>1. effects' = effects /\ rid' = rid /\ pc[c] \in {"send", "initialized"}
    BY <1>6 DEF Send, SendInitialized
  <2>2. CASE Raise(c) /\ op' = op
    BY <1>3, <2>1, <2>2 DEF Held
  <2>3. CASE /\ told' = told /\ op' \in {op, [op EXCEPT ![c] = c]}
             /\ \E where \in {"wait", "register"} : pc' = [pc EXCEPT ![c] = where]
    <3>1. OnlyBy(c) /\ pc'[c] # "idle"
      BY <1>0, <2>1, <2>3 DEF OnlyBy, Shape
    <3>2. QED
      BY <1>2, <2>1, <2>3, <3>1
  <2>4. QED
    BY <1>6, <2>2, <2>3 DEF Send, SendInitialized, Goto
<1>7. ASSUME NEW c \in Callers, Get(c)
      PROVE  /\ effects' = effects
             /\ \/ View' = View
                \/ c \in Calls /\ View[c] = "asked" /\ View' = [View EXCEPT ![c] = "failed"]
                \/ /\ c \in Calls /\ View[c] = "asked" /\ effects[c] = 1
                   /\ View' = [View EXCEPT ![c] = c]
  <2> DEFINE reply == box[rid[c]]
  <2>1. /\ effects' = effects /\ rid' = rid /\ op' = op /\ pc[c] = "wait" /\ reply # None
        /\ told[c] = None
    BY <1>0, <1>7 DEF Get, pipeVars, Turn
  <2>2. CASE Raise(c)
    BY <1>3, <2>1, <2>2 DEF Held
  <2>3. CASE Goto(c, "initialized") /\ told' = told
    <3>1. OnlyBy(c) /\ pc'[c] # "idle"
      BY <1>0, <2>1, <2>3 DEF OnlyBy, Shape, Goto
    <3>2. QED
      BY <1>2, <2>1, <2>3, <3>1
  <2>4. CASE reply.ok /\ op[c] # "initialize" /\ Return(c, reply)
    <3>1. CASE c \in Calls
      <4>1. reply.of = c /\ effects[c] = 1
        BY <2>1, <2>4, <3>1, OwnAnswer
      <4>2. pc' = [pc EXCEPT ![c] = "done"] /\ told' = [told EXCEPT ![c] = c]
        BY <2>4, <3>1, <4>1 DEF Return, Goto
      <4>3. OnlyBy(c) /\ told'[c] = c
        BY <1>0, <2>1, <4>2 DEF OnlyBy, Shape
      <4>4. Known(c) = "asked" /\ Known(c)' = c
        BY <2>1, <4>3, Pipes DEF Known
      <4>5. QED
        BY <2>1, <3>1, <4>1, <4>3, <4>4, ViewStep DEF View
    <3>2. CASE c \notin Calls
      <4>1. pc' = [pc EXCEPT ![c] = "store"] /\ told' = told
        BY <2>4, <3>2 DEF Return, Goto
      <4>2. OnlyBy(c)
        BY <1>0, <2>1, <4>1 DEF OnlyBy, Shape
      <4>3. QED
        BY <2>1, <3>2, <4>2, ViewStep
    <3>3. QED
      BY <3>1, <3>2
  <2>5. QED
    BY <1>7, <2>2, <2>3, <2>4 DEF Get
<1>8. ASSUME NEW c \in Callers, StoreTools(c) PROVE View' = View /\ effects' = effects
  <2>1. OnlyBy(c) /\ effects' = effects
    BY <1>0, <1>8 DEF StoreTools, Goto, OnlyBy, Shape, pipeVars
  <2>2. c \notin Calls
    BY <1>0, <1>8, Pipes DEF StoreTools, Turn
  <2>3. QED
    BY <2>1, <2>2, ViewStep
<1>9. ASSUME NEW c \in Callers, LaunchFails(c) \/ TimeOut(c)
      PROVE  /\ effects' = effects
             /\ \/ View' = View
                \/ c \in Calls /\ View[c] = "asked" /\ View' = [View EXCEPT ![c] = "failed"]
  <2>1. Raise(c) /\ UNCHANGED <<op, rid, effects>> /\ pc[c] \in Held
    BY <1>9 DEF LaunchFails, TimeOut, Forget, pipeVars, Held
  <2>2. QED
    BY <1>3, <2>1
<1>10. ASSUME NEW p \in Procs, ServerPerforms(p)
       PROVE  \E c \in Calls : /\ View[c] # None /\ effects[c] = 0
                               /\ effects' = [effects EXCEPT ![c] = 1] /\ View' = View
  <2>1. PICK m \in handling[p] : /\ m.op \in Calls /\ ~m.did
                                 /\ effects' = [effects EXCEPT ![m.op] = @ + 1]
    BY <1>10 DEF ServerPerforms
  <2>2. PICK c \in Calls : c = m.op
    BY <2>1
  <2>3. effects[c] = 0 /\ pc[c] \in {"wait", "done"} /\ op[c] = c
    BY <2>1, <2>2 DEF CallInv, Once
  <2>4. effects' = [effects EXCEPT ![c] = 1]
    BY <2>1, <2>2, <2>3
  <2>5. View' = View
    BY <1>10 DEF ServerPerforms, clientVars, View, Known
  <2>6. View[c] # None
    BY <2>3, Pipes DEF View, Known
  <2>7. QED
    BY <2>3, <2>4, <2>5, <2>6
<1>11. ASSUME NEW p \in Procs,
              ReaderStep(p) \/ ServerRead(p) \/ ServerAnswers(p) \/ ServerSpeaks(p) \/ Exits(p)
       PROVE  View' = View /\ effects' = effects
  <2>1. UNCHANGED <<told, pc, effects>>
    BY <1>11 DEF ReaderStep, Skip, Refuse, TakeWaiter, EndOfPipe, Put, Leave, ServerRead,
                 ServerAnswers, ServerSpeaks, Exits, clientVars, pipeVars
  <2>2. QED
    BY <1>1, <2>1
<1>12. ASSUME Close PROVE View' = View /\ effects' = effects
  BY <1>1, <1>12 DEF Close
<1>13. ASSUME UNCHANGED vars PROVE View' = View /\ effects' = effects
  BY <1>1, <1>13 DEF vars, clientVars, pipeVars
<1>14. ASSUME NEW c \in Callers, Begin(c) PROVE effects' = effects
  BY <1>14 DEF Begin, pipeVars
<1>15. QED
  <2>1. CASE \E c \in Callers : Begin(c) \/ CallerStep(c)
    BY <2>1, <1>4, <1>5, <1>6, <1>7, <1>8, <1>9, <1>14 DEF CallerStep
  <2>2. CASE \E p \in Procs : \/ ReaderStep(p) \/ ServerRead(p) \/ ServerPerforms(p)
                              \/ ServerAnswers(p) \/ ServerSpeaks(p) \/ Exits(p)
    BY <2>2, <1>10, <1>11
  <2>3. QED
    BY <2>1, <2>2, <1>12, <1>13 DEF Next

(* A call through MCPStdioClient is what RemoteCall promises, as far as    *)
(* safety goes: performed at most once, answered with its own answer and   *)
(* after its effect, or given up, whatever late replies, dead processes    *)
(* and restarts come between (request, _request_locked, _reader).          *)
THEOREM CallsAreRemoteCalls == Spec => Remote!Init /\ [][Remote!Next]_(Remote!vars)
<1>1. CallInv /\ [Next]_vars => [Remote!Next]_(Remote!vars)
  BY RemoteNext DEF Remote!Next, Remote!vars, Remote!Ask, Remote!Happen, Remote!Answer,
                    Remote!GiveUp, View, Known
<1>2. QED
  BY <1>1, RemoteInit, CallsInOrder, PTL DEF Spec
----------------------------------------------------------------------------
(* The ids of a pipe to which a message is added, or from which one or all *)
(* are taken.                                                              *)
LEMMA PipeIds ==
    ASSUME NEW S, NEW s \in Seq(S)
    PROVE  /\ IdsOf(<<>>) = {}
           /\ s # <<>> => Head(s).id \in IdsOf(s) /\ IdsOf(Tail(s)) \subseteq IdsOf(s)
           /\ \A m \in S : IdsOf(Append(s, m)) = IdsOf(s) \cup {m.id}
<1>1. IdsOf(<<>>) = {}
  BY DEF IdsOf
<1>2. ASSUME s # <<>> PROVE Head(s).id \in IdsOf(s) /\ IdsOf(Tail(s)) \subseteq IdsOf(s)
  <2>1. 1 \in DOMAIN s /\ Head(s) = s[1]
    BY <1>2
  <2>2. \A k \in DOMAIN Tail(s) : k + 1 \in DOMAIN s /\ Tail(s)[k] = s[k + 1]
    BY <1>2
  <2>3. QED
    BY <2>1, <2>2 DEF IdsOf
<1>3. ASSUME NEW m \in S PROVE IdsOf(Append(s, m)) = IdsOf(s) \cup {m.id}
  <2> DEFINE t == Append(s, m)
  <2>1. /\ DOMAIN t = DOMAIN s \cup {Len(s) + 1}
        /\ t[Len(s) + 1] = m
        /\ \A k \in DOMAIN s : t[k] = s[k]
    OBVIOUS
  <2> HIDE DEF t
  <2>2. IdsOf(t) = IdsOf(s) \cup {m.id}
    BY <2>1 DEF IdsOf
  <2>3. QED
    BY <2>2 DEF t
<1>4. QED
  BY <1>1, <1>2, <1>3

(* Nobody speaks of an id that was not given out.                          *)
LEMMA IdsGiven ==
    ASSUME Shape, Answers, NEW p \in Procs
    PROVE  Ids(p) \subseteq 1 .. next_id
<1>1. IdsOf(stdin[p]) \subseteq 0 .. next_id
  <2>1. ASSUME NEW k \in DOMAIN stdin[p] PROVE stdin[p][k].id \in 0 .. next_id
    BY DEF Answers, Asked, Fits, Shape
  <2>2. QED
    BY <2>1 DEF IdsOf
<1>2. {m.id : m \in handling[p]} \subseteq 0 .. next_id
  BY DEF Answers, Worked, Fits, Shape
<1>3. IdsOf(stdout[p]) \subseteq 0 .. next_id
  <2>1. ASSUME NEW k \in DOMAIN stdout[p] PROVE stdout[p][k].id \in 0 .. next_id
    BY DEF Answers, Written, Good
  <2>2. QED
    BY <2>1 DEF IdsOf
<1>4. reader[p].to \subseteq 0 .. next_id
  BY DEF Answers, Delivering, Shape
<1>5. next_id \in Nat
  BY DEF Shape
<1>6. QED
  BY <1>1, <1>2, <1>3, <1>4, <1>5 DEF Ids

(* A step after which no more is said, and of no more waiters, and that    *)
(* fills none.                                                             *)
Quiet ==
    /\ \A p \in Procs : /\ Ids(p)' \subseteq Ids(p)
                        /\ Born(p)' <=> Born(p)
                        /\ reader'[p].to \subseteq reader[p].to
                        /\ reader[p].at = "idle" => reader'[p].at = "idle"
                        /\ reader'[p].at \in {"reading", "putting"} => reader[p].at \in {"reading", "putting"}
    /\ pending' \subseteq pending
    /\ \A c \in Callers : pc'[c] \in Waiting => pc[c] \in Waiting /\ rid'[c] = rid[c]
    /\ \A i \in 1 .. next_id : box[i] = None => box'[i] = None

(* Such a step lets no reader block.                                       *)
LEMMA QuietWaiters ==
    ASSUME Shape, Answers, Waiters, Quiet
    PROVE  Waiters'
<1>1. \A p \in Procs : (Superseded(p)' <=> Superseded(p)) /\ (Born(p)' <=> Born(p))
  BY DEF Quiet, Superseded, Born
<1>2. \A p \in Procs : Ids(p)' \subseteq Ids(p)
  BY DEF Quiet
<1>3. Apart'
  <2>1. \A p \in Procs : ~Born(p)' => Ids(p)' = {} /\ reader'[p].at = "idle"
    BY <1>1, <1>2 DEF Quiet, Waiters, Apart
  <2>2. \A p, q \in Procs : p < q => \A i \in Ids(p)', j \in Ids(q)' : i < j
    BY <1>2 DEF Waiters, Apart
  <2>3. ASSUME NEW p \in Procs, Superseded(p)', NEW i \in Ids(p)'
        PROVE  /\ \A j \in pending' : i < j
               /\ \A c \in Callers : pc'[c] \in Waiting => i < rid'[c]
    <3>1. Superseded(p) /\ i \in Ids(p)
      BY <1>1, <1>2, <2>3
    <3>2. QED
      BY <3>1 DEF Quiet, Waiters, Apart
  <2>4. QED
    BY <2>1, <2>2, <2>3 DEF Apart
<1>4. ASSUME NEW p \in Procs, NEW i \in reader'[p].to PROVE box'[i] = None
  <2>1. i \in reader[p].to /\ i \in 1 .. next_id
    BY <1>4 DEF Quiet, Answers, Delivering
  <2>2. QED
    BY <2>1 DEF Quiet, Waiters, Unblocked
<1>5. ASSUME NEW p \in Procs, Born(p)', ~Superseded(p)', reader'[p].at \in {"reading", "putting"},
             NEW i \in pending'
      PROVE  box'[i] = None /\ i \notin reader'[p].to
  <2>1. /\ Born(p) /\ ~Superseded(p) /\ reader[p].at \in {"reading", "putting"}
        /\ i \in pending /\ i \in 1 .. next_id
    BY <1>1, <1>5 DEF Quiet, Shape
  <2>2. box[i] = None /\ i \notin reader[p].to
    BY <2>1 DEF Waiters, Unblocked
  <2>3. QED
    BY <2>1, <2>2 DEF Quiet
<1>6. Unblocked'
  BY <1>4, <1>5 DEF Unblocked
<1>7. QED
  BY <1>3, <1>6 DEF Waiters

(* While no pipe and no reader changes, the same is said.                  *)
LEMMA SameIds ==
    ASSUME UNCHANGED <<stdin, handling, stdout, reader>>
    PROVE  \A p \in Procs : Ids(p)' = Ids(p)
  BY DEF Ids, IdsOf

(* A caller's step that writes no request and registers no waiter.         *)
LEMMA QuietCaller ==
    ASSUME CallInv, NEW c \in Callers,
           \/ Begin(c) \/ Acquire(c) \/ EnsureRunning(c) \/ LaunchFails(c)
           \/ Get(c) \/ TimeOut(c) \/ SendInitialized(c) \/ StoreTools(c)
           \/ Send(c) /\ life[proc] = "dead"
    PROVE  Quiet
<1>1. UNCHANGED <<life, handling, stdout, reader, rid>> /\ Shape /\ Answers
  BY DEF CallInv, Begin, Acquire, EnsureRunning, LaunchFails, Get, TimeOut, Forget, SendInitialized,
         StoreTools, Send, pipeVars, waiterVars
<1>2. \/ UNCHANGED stdin
      \/ proc \in Procs /\ stdin' = [stdin EXCEPT ![proc] = Append(@, [id |-> 0, op |-> "initialized"])]
  <2>1. CASE SendInitialized(c)
    <3>1. proc \in Procs
      BY <2>1 DEF CallInv, Shape, Turn, Held, SendInitialized
    <3>2. QED
      BY <2>1, <3>1 DEF SendInitialized, Write
  <2>2. CASE Send(c) /\ life[proc] = "dead"
    BY <2>2 DEF Send, Writable
  <2>3. QED
    BY <2>1, <2>2 DEF Begin, Acquire, EnsureRunning, LaunchFails, Get, TimeOut, Forget,
                      StoreTools, pipeVars
<1>3. \A p \in Procs : Ids(p)' \subseteq Ids(p)
  <2>1. CASE UNCHANGED stdin
    BY <1>1, <2>1, SameIds
  <2>2. CASE proc \in Procs /\ stdin' = [stdin EXCEPT ![proc] = Append(@, [id |-> 0, op |-> "initialized"])]
    <3> DEFINE note == [id |-> 0, op |-> "initialized"]
    <3>1. note \in Messages /\ note.id = 0
      BY DEF Messages
    <3> HIDE DEF note
    <3>2. stdin' = [stdin EXCEPT ![proc] = Append(@, note)]
      BY <2>2 DEF note
    <3>3. ASSUME NEW p \in Procs PROVE IdsOf(stdin'[p]) \subseteq IdsOf(stdin[p]) \cup {0}
      <4>1. CASE p = proc
        <5>1. stdin[p] \in Seq(Messages) /\ stdin'[p] = Append(stdin[p], note)
          BY <1>1, <3>2, <4>1 DEF Shape
        <5>2. QED
          BY <3>1, <5>1, PipeIds
      <4>2. CASE p # proc
        BY <1>1, <3>2, <4>2 DEF Shape
      <4>3. QED
        BY <4>1, <4>2
    <3>4. QED
      BY <1>1, <3>3 DEF Ids
  <2>3. QED
    BY <1>2, <2>1, <2>2
<1>4. pending' \subseteq pending
  BY DEF Begin, Acquire, EnsureRunning, LaunchFails, Get, TimeOut, Forget, SendInitialized,
         StoreTools, Send, waiterVars
<1>5. \A d \in Callers : pc'[d] \in Waiting => pc[d] \in Waiting
  <2>1. \E w \in {"acquire", "ensure", "register", "initialized", "store", "done"} :
           pc' = [pc EXCEPT ![c] = w]
    <3>1. ~(Writable(proc) /\ life[proc] = "dead")
      BY DEF Writable
    <3>2. QED
      BY <3>1 DEF Begin, Acquire, EnsureRunning, LaunchFails, Get, TimeOut, Forget, SendInitialized,
           StoreTools, Send, Raise, Return, Goto
  <2>2. QED
    BY <1>1, <2>1 DEF Shape, Waiting
<1>6. \A i \in 1 .. next_id : box[i] = None => box'[i] = None
  <2>1. CASE Get(c)
    <3>1. box' = [box EXCEPT ![rid[c]] = None]
      BY <2>1 DEF Get
    <3>2. QED
      BY <1>1, <3>1 DEF Shape
  <2>2. CASE ~Get(c)
    BY <2>2 DEF Begin, Acquire, EnsureRunning, LaunchFails, TimeOut, Forget, SendInitialized,
         StoreTools, Send, waiterVars
  <2>3. QED
    BY <2>1, <2>2
<1>7. QED
  BY <1>1, <1>3, <1>4, <1>5, <1>6 DEF Quiet, Born

(* A new process has said nothing, and its predecessors' waiters are       *)
(* forgotten.                                                              *)
LEMMA LaunchWaiters ==
    ASSUME CallInv, Waiters, NEW c \in Callers, Launch(c)
    PROVE  Waiters'
<1> DEFINE p == Newest
<1>1. Shape /\ Processes /\ Answers /\ c # None
  BY Pipes DEF CallInv
<1>2. /\ pc[c] = "ensure" /\ ~Running /\ life' = [life EXCEPT ![p] = "alive"]
      /\ reader' = [reader EXCEPT ![p] = [Idle EXCEPT !.at = "reading"]]
      /\ pending' = {} /\ pc' = [pc EXCEPT ![c] = "register"]
      /\ UNCHANGED <<rid, stdin, stdout, handling, box>>
  BY DEF Launch, StartProcess, Goto
<1>3. /\ p \in Procs /\ ~Born(p)
      /\ \A q \in Procs : Born(q) <=> q < p
  BY <1>1, <1>2, FreshProcess
<1> HIDE DEF p
<1>4. /\ life'[p] = "alive" /\ \A q \in Procs : q # p => life'[q] = life[q]
  BY <1>1, <1>2, <1>3 DEF Shape
<1>5. /\ reader'[p].to = {} /\ \A q \in Procs : q # p => reader'[q] = reader[q]
  BY <1>1, <1>2, <1>3 DEF Shape, Idle
<1>6. \A q \in Procs : Ids(q)' \subseteq Ids(q)
  BY <1>2, <1>5 DEF Ids, IdsOf
<1>7. \A d \in Callers : pc'[d] \notin Waiting
  <2>1. lock = c
    BY <1>2 DEF CallInv, Turn, Held
  <2>2. \A d \in Callers : d # c => pc[d] \notin Held
    BY <2>1 DEF CallInv, Turn
  <2>3. QED
    BY <1>1, <1>2, <2>2 DEF Shape, Held, Waiting
<1>8. Apart'
  <2>1. ASSUME NEW q \in Procs, ~Born(q)' PROVE Ids(q)' = {} /\ reader'[q].at = "idle"
    <3>1. q # p /\ ~Born(q)
      BY <1>4, <2>1 DEF Born
    <3>2. QED
      BY <1>5, <1>6, <3>1 DEF Waiters, Apart
  <2>2. \A q, r \in Procs : q < r => \A i \in Ids(q)', j \in Ids(r)' : i < j
    BY <1>6 DEF Waiters, Apart
  <2>3. QED
    BY <1>2, <1>7, <2>1, <2>2 DEF Apart
<1>9. Unblocked'
  BY <1>2, <1>5 DEF Waiters, Unblocked
<1>10. QED
  BY <1>8, <1>9 DEF Waiters

(* A new waiter has an id above all that are spoken of.                    *)
LEMMA RegisterWaiters ==
    ASSUME CallInv, Waiters, NEW c \in Callers, Register(c)
    PROVE  Waiters'
<1> DEFINE n == next_id + 1
<1>1. Shape /\ Answers
  BY DEF CallInv
<1>2. /\ next_id' = n /\ rid' = [rid EXCEPT ![c] = n]
      /\ pending' = pending \cup {n} /\ box' = [i \in 1 .. n |-> IF i = n THEN None ELSE box[i]]
      /\ pc' = [pc EXCEPT ![c] = "send"]
      /\ UNCHANGED <<life, stdin, stdout, handling, reader>>
  BY DEF Register, Goto, pipeVars
<1>3. /\ next_id \in Nat /\ n \in Nat /\ n \notin 1 .. next_id
      /\ 1 .. n = (1 .. next_id) \cup {n} /\ \A i \in 1 .. next_id : i < n
  BY <1>1 DEF Shape
<1> HIDE DEF n
<1>4. /\ box'[n] = None /\ \A i \in 1 .. next_id : box'[i] = box[i]
  BY <1>1, <1>2, <1>3 DEF Shape
<1>5. rid'[c] = n /\ \A d \in Callers : d # c => rid'[d] = rid[d] /\ pc'[d] = pc[d]
  BY <1>1, <1>2 DEF Shape
<1>6. \A p \in Procs : /\ Ids(p)' = Ids(p) /\ Ids(p) \subseteq 1 .. next_id
                       /\ (Born(p)' <=> Born(p)) /\ (Superseded(p)' <=> Superseded(p))
  BY <1>1, <1>2, SameIds, IdsGiven DEF Born, Superseded
<1>7. Apart'
  <2>1. \A p \in Procs : ~Born(p)' => Ids(p)' = {} /\ reader'[p].at = "idle"
    BY <1>2, <1>6 DEF Waiters, Apart
  <2>2. \A p, q \in Procs : p < q => \A i \in Ids(p)', j \in Ids(q)' : i < j
    BY <1>6 DEF Waiters, Apart
  <2>3. ASSUME NEW p \in Procs, Superseded(p)', NEW i \in Ids(p)'
        PROVE  /\ \A j \in pending' : i < j
               /\ \A d \in Callers : pc'[d] \in Waiting => i < rid'[d]
    <3>1. Superseded(p) /\ i \in Ids(p) /\ i < n
      BY <1>3, <1>6, <2>3
    <3>2. QED
      BY <1>2, <1>5, <3>1 DEF Waiters, Apart
  <2>4. QED
    BY <2>1, <2>2, <2>3 DEF Apart
<1>8. \A p \in Procs : reader'[p].to \subseteq 1 .. next_id
  BY <1>1, <1>2 DEF Answers, Delivering
<1>9. Unblocked'
  <2>1. \A p \in Procs : \A i \in reader'[p].to : box'[i] = None
    BY <1>2, <1>4, <1>8 DEF Waiters, Unblocked
  <2>2. ASSUME NEW p \in Procs, Born(p)', ~Superseded(p)', reader'[p].at \in {"reading", "putting"},
               NEW i \in pending'
        PROVE  box'[i] = None /\ i \notin reader'[p].to
    <3>1. CASE i = n
      BY <1>3, <1>4, <1>8, <3>1
    <3>2. CASE i \in pending
      <4>1. box[i] = None /\ i \notin reader[p].to
        BY <1>2, <1>6, <2>2, <3>2 DEF Waiters, Unblocked
      <4>2. i \in 1 .. next_id
        BY <1>1, <3>2 DEF Shape
      <4>3. QED
        BY <1>2, <1>4, <4>1, <4>2
    <3>3. QED
      BY <1>2, <2>2, <3>1, <3>2
  <2>3. QED
    BY <2>1, <2>2 DEF Unblocked
<1>10. QED
  BY <1>7, <1>9 DEF Waiters

(* A request goes to the newest process, of whose ids it is the greatest.  *)
LEMMA SendWaiters ==
    ASSUME CallInv, Waiters, NEW c \in Callers, Send(c), life[proc] # "dead"
    PROVE  Waiters'
<1>1. Shape /\ Answers /\ Processes /\ Turn(c)
  BY DEF CallInv
<1>2. /\ pc[c] = "send" /\ Write(proc, rid[c], op[c]) /\ pc' = [pc EXCEPT ![c] = "wait"]
      /\ UNCHANGED <<life, rid, stdout, handling, reader, pending, box>>
  BY DEF Send, Goto, waiterVars
<1>3. /\ proc \in Procs /\ Born(proc) /\ ~Superseded(proc) /\ rid[c] \in 1 .. next_id
  BY <1>1, <1>2 DEF Turn, Held, Waiting, Shape, Processes
<1> DEFINE m == [id |-> rid[c], op |-> op[c]]
<1>4. m \in Messages /\ m.id = rid[c] /\ stdin' = [stdin EXCEPT ![proc] = Append(@, m)]
  BY <1>1, <1>2 DEF Shape, Messages, Write
<1> HIDE DEF m
<1>5. \A p \in Procs : /\ p = proc => Ids(p)' = Ids(p) \cup {rid[c]}
                       /\ p # proc => Ids(p)' = Ids(p)
  <2>1. ASSUME NEW p \in Procs, p = proc PROVE Ids(p)' = Ids(p) \cup {rid[c]}
    <3>1. stdin[p] \in Seq(Messages) /\ stdin'[p] = Append(stdin[p], m)
      BY <1>1, <1>3, <1>4, <2>1 DEF Shape
    <3>2. IdsOf(stdin'[p]) = IdsOf(stdin[p]) \cup {rid[c]} /\ rid[c] # 0
      BY <1>3, <1>4, <3>1, PipeIds
    <3>3. QED
      BY <1>2, <3>2 DEF Ids, IdsOf
  <2>2. ASSUME NEW p \in Procs, p # proc PROVE Ids(p)' = Ids(p)
    <3>1. stdin'[p] = stdin[p]
      BY <1>1, <1>4, <2>2 DEF Shape
    <3>2. QED
      BY <1>2, <3>1 DEF Ids, IdsOf
  <2>3. QED
    BY <2>1, <2>2
<1>6. \A d \in Callers : pc'[d] \in Waiting <=> pc[d] \in Waiting
  BY <1>1, <1>2 DEF Shape, Waiting
<1>7. \A p \in Procs : (Born(p)' <=> Born(p)) /\ (Superseded(p)' <=> Superseded(p))
  BY <1>2 DEF Born, Superseded
<1>8. pc[c] \in Waiting
  BY <1>2 DEF Waiting
<1>9. Procs \subseteq Nat
  BY DEF Procs
<1>10. Apart'
  <2>1. \A p \in Procs : ~Born(p)' => Ids(p)' = {} /\ reader'[p].at = "idle"
    BY <1>2, <1>3, <1>5, <1>7 DEF Waiters, Apart
  <2>2. ASSUME NEW p \in Procs, NEW q \in Procs, p < q, NEW i \in Ids(p)', NEW j \in Ids(q)'
        PROVE  i < j
    <3>1. CASE p = proc
      <4>1. ~Born(q)
        BY <1>3, <2>2, <1>9, <3>1 DEF Superseded, Born
      <4>2. q # proc
        BY <1>3, <4>1
      <4>3. QED
        BY <1>5, <2>2, <4>1, <4>2 DEF Waiters, Apart
    <3>2. CASE p # proc /\ q = proc
      <4>1. Superseded(p) /\ i \in Ids(p)
        BY <1>3, <1>5, <1>9, <2>2, <3>2 DEF Superseded, Born
      <4>2. i < rid[c]
        BY <1>8, <4>1 DEF Waiters, Apart
      <4>3. j \in Ids(q) \/ j = rid[c]
        BY <1>5, <2>2, <3>2
      <4>4. QED
        BY <2>2, <4>1, <4>2, <4>3 DEF Waiters, Apart
    <3>3. CASE p # proc /\ q # proc
      BY <1>5, <2>2, <3>3 DEF Waiters, Apart
    <3>4. QED
      BY <3>1, <3>2, <3>3
  <2>3. ASSUME NEW p \in Procs, Superseded(p)', NEW i \in Ids(p)'
        PROVE  /\ \A j \in pending' : i < j
               /\ \A d \in Callers : pc'[d] \in Waiting => i < rid'[d]
    <3>1. Superseded(p) /\ i \in Ids(p)
      BY <1>3, <1>5, <1>7, <2>3
    <3>2. QED
      BY <1>2, <1>6, <3>1 DEF Waiters, Apart
  <2>4. QED
    BY <2>1, <2>2, <2>3 DEF Apart
<1>11. Unblocked'
  BY <1>2, <1>7 DEF Waiters, Unblocked
<1>12. QED
  BY <1>10, <1>11 DEF Waiters

(* What is left of a pipe after a line is taken from it.                   *)
LEMMA ConsumedIds ==
    ASSUME Shape, NEW p \in Procs, NextLine(p), Consume(p)
    PROVE  /\ Head(stdout[p]).id \in IdsOf(stdout[p])
           /\ \A q \in Procs : IdsOf(stdout'[q]) \subseteq IdsOf(stdout[q])
<1>1. stdout[p] \in Seq(Lines) /\ stdout[p] # <<>> /\ stdout' = [stdout EXCEPT ![p] = Tail(@)]
  BY DEF Shape, NextLine, Consume
<1>2. Head(stdout[p]).id \in IdsOf(stdout[p]) /\ IdsOf(Tail(stdout[p])) \subseteq IdsOf(stdout[p])
  BY <1>1, PipeIds
<1>3. stdout'[p] = Tail(stdout[p]) /\ \A q \in Procs : q # p => stdout'[q] = stdout[q]
  BY <1>1 DEF Shape
<1>4. QED
  BY <1>2, <1>3

(* A reader that passes over a line, refuses a request or ends.            *)
LEMMA QuietReader ==
    ASSUME CallInv, NEW p \in Procs, Skip(p) \/ Refuse(p) \/ Leave(p)
    PROVE  Quiet
<1>1. UNCHANGED <<pc, rid, life, handling, pending, box>> /\ Shape /\ Answers
  BY DEF CallInv, Skip, Refuse, Leave, clientVars, pipeVars, waiterVars
<1>2. /\ \A q \in Procs : q # p => reader'[q] = reader[q]
      /\ \/ reader'[p] = reader[p]
         \/ reader'[p].to = {} /\ reader'[p].at = "done" /\ reader[p].at # "idle"
  <2>1. CASE At(p, "done") /\ reader[p].at # "idle"
    BY <1>1, <2>1 DEF Shape, At, Idle
  <2>2. CASE reader' = reader
    BY <2>2
  <2>3. QED
    BY <2>1, <2>2 DEF Skip, Refuse, Leave, NextLine, waiterVars
<1>3. \A q \in Procs : IdsOf(stdout'[q]) \subseteq IdsOf(stdout[q])
  <2>1. CASE Skip(p) \/ Refuse(p)
    BY <1>1, <2>1, ConsumedIds DEF Skip, Refuse
  <2>2. CASE Leave(p)
    BY <2>2 DEF Leave, pipeVars
  <2>3. QED
    BY <2>1, <2>2
<1>4. \A q \in Procs : IdsOf(stdin'[q]) \subseteq IdsOf(stdin[q]) \cup {0}
  <2>1. CASE stdin' = stdin
    BY <2>1
  <2>2. CASE proc # 0 /\ Write(proc, 0, "refuse")
    <3> DEFINE note == [id |-> 0, op |-> "refuse"]
    <3>1. note \in Messages /\ note.id = 0 /\ proc \in Procs
      BY <1>1, <2>2 DEF Messages, Shape
    <3>2. stdin' = [stdin EXCEPT ![proc] = Append(@, note)]
      BY <2>2 DEF Write
    <3> HIDE DEF note
    <3>3. ASSUME NEW q \in Procs PROVE IdsOf(stdin'[q]) \subseteq IdsOf(stdin[q]) \cup {0}
      <4>1. CASE q = proc
        <5>1. stdin[q] \in Seq(Messages) /\ stdin'[q] = Append(stdin[q], note)
          BY <1>1, <3>2, <4>1 DEF Shape
        <5>2. QED
          BY <3>1, <5>1, PipeIds
      <4>2. CASE q # proc
        BY <1>1, <3>2, <4>2 DEF Shape
      <4>3. QED
        BY <4>1, <4>2
    <3>4. QED
      BY <3>3
  <2>3. QED
    BY <2>1, <2>2 DEF Skip, Refuse, Leave, pipeVars
<1>5. \A q \in Procs : reader'[q].to \subseteq reader[q].to
  BY <1>2
<1>6. \A q \in Procs : Ids(q)' \subseteq Ids(q)
  BY <1>1, <1>3, <1>4, <1>5 DEF Ids
<1>7. \A q \in Procs : /\ reader[q].at = "idle" => reader'[q].at = "idle"
                       /\ reader'[q].at \in {"reading", "putting"} => reader[q].at \in {"reading", "putting"}
  BY <1>2
<1>8. QED
  BY <1>1, <1>5, <1>6, <1>7 DEF Quiet, Born

(* A reader takes a waiter of the newest process, which is empty.          *)
LEMMA TakeWaiters ==
    ASSUME CallInv, Waiters, NEW p \in Procs, TakeWaiter(p)
    PROVE  Waiters'
<1>1. Shape /\ Answers /\ UNCHANGED <<pc, rid, life, stdin, handling, box>>
  BY DEF CallInv, TakeWaiter, clientVars
<1>2. PICK id : /\ id = Head(stdout[p]).id /\ id \in pending /\ pending' = pending \ {id}
                /\ reader' = [reader EXCEPT ![p] = [at |-> "putting", to |-> {id}, reply |-> Head(stdout[p])]]
                /\ reader[p].at = "reading"
  BY DEF TakeWaiter, NextLine
<1>3. /\ reader'[p].at = "putting" /\ reader'[p].to = {id}
      /\ \A q \in Procs : q # p => reader'[q] = reader[q]
  BY <1>1, <1>2 DEF Shape
<1>4. /\ id \in IdsOf(stdout[p]) /\ id # 0
      /\ \A q \in Procs : IdsOf(stdout'[q]) \subseteq IdsOf(stdout[q])
  BY <1>1, <1>2, ConsumedIds DEF TakeWaiter, Shape
<1>5. id \in Ids(p)
  BY <1>4 DEF Ids
<1>6. \A q \in Procs : Ids(q)' \subseteq Ids(q)
  BY <1>1, <1>3, <1>4 DEF Ids
<1>7. \A q \in Procs : (Born(q)' <=> Born(q)) /\ (Superseded(q)' <=> Superseded(q))
  BY <1>1 DEF Born, Superseded
<1>8. Born(p) /\ ~Superseded(p)
  <2>1. Born(p)
    BY <1>2 DEF Waiters, Apart
  <2>2. id \in Nat
    BY <1>1, <1>2 DEF Shape
  <2>3. QED
    BY <1>2, <1>5, <2>1, <2>2 DEF Waiters, Apart
<1>9. \A i \in pending : box[i] = None
  BY <1>2, <1>8 DEF Waiters, Unblocked
<1>10. Apart'
  <2>1. \A q \in Procs : ~Born(q)' => Ids(q)' = {} /\ reader'[q].at = "idle"
    BY <1>3, <1>6, <1>7, <1>8 DEF Waiters, Apart
  <2>2. \A q, r \in Procs : q < r => \A i \in Ids(q)', j \in Ids(r)' : i < j
    BY <1>6 DEF Waiters, Apart
  <2>3. \A q \in Procs : Superseded(q)' => \A i \in Ids(q)' :
             /\ \A j \in pending' : i < j
             /\ \A d \in Callers : pc'[d] \in Waiting => i < rid'[d]
    BY <1>1, <1>2, <1>6, <1>7 DEF Waiters, Apart
  <2>4. QED
    BY <2>1, <2>2, <2>3 DEF Apart
<1>11. Unblocked'
  <2>1. \A q \in Procs : \A i \in reader'[q].to : box'[i] = None
    BY <1>1, <1>2, <1>3, <1>9 DEF Waiters, Unblocked
  <2>2. ASSUME NEW q \in Procs, Born(q)', ~Superseded(q)', reader'[q].at \in {"reading", "putting"},
               NEW i \in pending'
        PROVE  box'[i] = None /\ i \notin reader'[q].to
    <3>1. box'[i] = None /\ i # id /\ i \in pending
      BY <1>1, <1>2, <1>9
    <3>2. CASE q = p
      BY <1>3, <3>1, <3>2
    <3>3. CASE q # p
      BY <1>3, <1>7, <2>2, <3>1, <3>3 DEF Waiters, Unblocked
    <3>4. QED
      BY <3>2, <3>3
  <2>3. QED
    BY <2>1, <2>2 DEF Unblocked
<1>12. QED
  BY <1>10, <1>11 DEF Waiters

(* The reader of a process that has not been replaced tells its own        *)
(* waiters that the process is gone.                                       *)
LEMMA EndWaiters ==
    ASSUME CallInv, Waiters, NEW p \in Procs, EndOfPipe(p), outlived' = {}
    PROVE  Waiters'
<1>1. Shape /\ Answers /\ UNCHANGED <<pc, rid, life, stdin, stdout, handling, pending, box>>
  BY DEF CallInv, EndOfPipe, clientVars, pipeVars
<1>2. /\ reader[p].at = "reading" /\ ~Superseded(p)
  BY DEF EndOfPipe
<1>3. /\ reader'[p].at = "leaving" /\ reader'[p].to = pending
      /\ \A q \in Procs : q # p => reader'[q] = reader[q]
  BY <1>1 DEF EndOfPipe, Shape
<1>4. Born(p)
  BY <1>2 DEF Waiters, Apart
<1>5. /\ Ids(p)' \subseteq Ids(p) \cup pending
      /\ \A q \in Procs : q # p => Ids(q)' = Ids(q)
  BY <1>1, <1>3 DEF Ids, IdsOf
<1>6. \A q \in Procs : (Born(q)' <=> Born(q)) /\ (Superseded(q)' <=> Superseded(q))
  BY <1>1 DEF Born, Superseded
<1>7. \A i \in pending : box[i] = None
  BY <1>2, <1>4 DEF Waiters, Unblocked
<1>8. Procs \subseteq Nat
  BY DEF Procs
<1>9. Apart'
  <2>1. \A q \in Procs : ~Born(q)' => Ids(q)' = {} /\ reader'[q].at = "idle"
    BY <1>3, <1>4, <1>5, <1>6 DEF Waiters, Apart
  <2>2. ASSUME NEW q \in Procs, NEW r \in Procs, q < r, NEW i \in Ids(q)', NEW j \in Ids(r)'
        PROVE  i < j
    <3>1. CASE q = p
      <4>1. ~Born(r) /\ r # p
        <5>1. p \in Nat /\ r \in Nat /\ p < r
          BY <1>8, <2>2, <3>1
        <5>2. r > p /\ r # p
          BY <5>1
        <5>3. QED
          BY <1>2, <5>2 DEF Superseded, Born
      <4>2. QED
        BY <1>5, <2>2, <4>1 DEF Waiters, Apart
    <3>2. CASE q # p /\ r = p
      <4>1. Superseded(q) /\ i \in Ids(q)
        BY <1>4, <1>5, <1>8, <2>2, <3>2 DEF Superseded, Born
      <4>2. j \in Ids(r) \/ j \in pending
        BY <1>5, <2>2, <3>2
      <4>3. QED
        BY <2>2, <4>1, <4>2 DEF Waiters, Apart
    <3>3. CASE q # p /\ r # p
      BY <1>5, <2>2, <3>3 DEF Waiters, Apart
    <3>4. QED
      BY <3>1, <3>2, <3>3
  <2>3. ASSUME NEW q \in Procs, Superseded(q)', NEW i \in Ids(q)'
        PROVE  /\ \A j \in pending' : i < j
               /\ \A d \in Callers : pc'[d] \in Waiting => i < rid'[d]
    <3>1. Superseded(q) /\ i \in Ids(q)
      BY <1>2, <1>5, <1>6, <2>3
    <3>2. QED
      BY <1>1, <3>1 DEF Waiters, Apart
  <2>4. QED
    BY <2>1, <2>2, <2>3 DEF Apart
<1>10. Unblocked'
  <2>1. \A q \in Procs : \A i \in reader'[q].to : box'[i] = None
    BY <1>1, <1>3, <1>7 DEF Waiters, Unblocked
  <2>2. ASSUME NEW q \in Procs, Born(q)', ~Superseded(q)', reader'[q].at \in {"reading", "putting"},
               NEW i \in pending'
        PROVE  box'[i] = None /\ i \notin reader'[q].to
    <3>1. q # p
      BY <1>3, <2>2
    <3>2. QED
      BY <1>1, <1>3, <1>6, <2>2, <3>1 DEF Waiters, Unblocked
  <2>3. QED
    BY <2>1, <2>2 DEF Unblocked
<1>11. QED
  BY <1>9, <1>10 DEF Waiters

(* A waiter that a reader fills is one that no other reader speaks of.     *)
LEMMA PutWaiters ==
    ASSUME CallInv, Waiters, NEW p \in Procs, Put(p)
    PROVE  Waiters'
<1>1. /\ Shape /\ Answers /\ Delivering(p)
      /\ UNCHANGED <<pc, rid, life, stdin, stdout, handling, pending>>
  BY DEF CallInv, Answers, Put, clientVars, pipeVars
<1>2. PICK id \in reader[p].to :
             /\ box' = [box EXCEPT ![id] = reader[p].reply]
             /\ IF reader[p].at = "putting" THEN At(p, "reading")
                ELSE reader' = [reader EXCEPT ![p].to = @ \ {id}]
  BY DEF Put
<1>3. reader[p].at \in {"putting", "leaving"}
  BY DEF Put
<1>4. /\ reader'[p].to = reader[p].to \ {id}
      /\ reader'[p].at = IF reader[p].at = "putting" THEN "reading" ELSE "leaving"
      /\ \A q \in Procs : q # p => reader'[q] = reader[q]
  <2>1. CASE reader[p].at = "putting"
    <3>1. reader' = [reader EXCEPT ![p] = [Idle EXCEPT !.at = "reading"]]
      BY <1>2, <2>1 DEF At
    <3>2. reader[p].to = {id}
      BY <1>1, <1>2, <2>1 DEF Delivering
    <3>3. QED
      BY <1>1, <2>1, <3>1, <3>2 DEF Shape, Idle
  <2>2. CASE reader[p].at = "leaving"
    <3>1. reader' = [reader EXCEPT ![p].to = @ \ {id}]
      BY <1>2, <2>2
    <3>2. QED
      BY <1>1, <2>2, <3>1 DEF Shape, Readers
  <2>3. QED
    BY <1>3, <2>1, <2>2
<1>5. id \in 1 .. next_id /\ id # 0 /\ id \in Nat
  BY <1>1, <1>2 DEF Delivering, Shape
<1>6. id \in Ids(p)
  BY <1>2, <1>5 DEF Ids
<1>7. \A i \in 1 .. next_id : i # id => box'[i] = box[i]
  BY <1>1, <1>2 DEF Shape
<1>8. \A q \in Procs : Ids(q)' \subseteq Ids(q)
  BY <1>1, <1>4 DEF Ids, IdsOf
<1>9. \A q \in Procs : (Born(q)' <=> Born(q)) /\ (Superseded(q)' <=> Superseded(q))
  BY <1>1 DEF Born, Superseded
<1>10. Born(p)
  BY <1>3 DEF Waiters, Apart
<1>11. Procs \subseteq Nat
  BY DEF Procs
<1>12. Apart'
  <2>1. \A q \in Procs : ~Born(q)' => Ids(q)' = {} /\ reader'[q].at = "idle"
    BY <1>4, <1>8, <1>9, <1>10 DEF Waiters, Apart
  <2>2. \A q, r \in Procs : q < r => \A i \in Ids(q)', j \in Ids(r)' : i < j
    BY <1>8 DEF Waiters, Apart
  <2>3. \A q \in Procs : Superseded(q)' => \A i \in Ids(q)' :
             /\ \A j \in pending' : i < j
             /\ \A d \in Callers : pc'[d] \in Waiting => i < rid'[d]
    BY <1>1, <1>8, <1>9 DEF Waiters, Apart
  <2>4. QED
    BY <2>1, <2>2, <2>3 DEF Apart
<1>13. ASSUME NEW q \in Procs, NEW i \in reader'[q].to PROVE box'[i] = None
  <2>1. i \in reader[q].to /\ i \in 1 .. next_id /\ i \in Nat /\ i # 0
    <3>1. i \in reader[q].to
      <4>1. CASE q = p
        BY <1>4, <1>13, <4>1
      <4>2. CASE q # p
        BY <1>4, <1>13, <4>2
      <4>3. QED
        BY <4>1, <4>2
    <3>2. i \in 1 .. next_id /\ next_id \in Nat
      BY <1>1, <3>1 DEF Answers, Delivering, Shape
    <3>3. QED
      BY <3>1, <3>2
  <2>2. i # id
    <3>1. CASE q = p
      BY <1>4, <1>13, <3>1
    <3>2. CASE q # p
      <4>1. i \in Ids(q)
        BY <2>1 DEF Ids
      <4>2. q < p \/ p < q
        BY <1>11, <3>2
      <4>3. i < id \/ id < i
        BY <1>6, <4>1, <4>2 DEF Waiters, Apart
      <4>4. QED
        BY <1>5, <2>1, <4>3
    <3>3. QED
      BY <3>1, <3>2
  <2>3. QED
    BY <1>7, <2>1, <2>2 DEF Waiters, Unblocked
<1>14. ASSUME NEW q \in Procs, Born(q)', ~Superseded(q)', reader'[q].at \in {"reading", "putting"},
              NEW i \in pending'
       PROVE  box'[i] = None /\ i \notin reader'[q].to
  <2>1. /\ Born(q) /\ ~Superseded(q) /\ reader[q].at \in {"reading", "putting"}
        /\ i \in pending /\ i \in 1 .. next_id /\ i \in Nat /\ reader'[q].to \subseteq reader[q].to
    <3>1. i \in pending /\ i \in 1 .. next_id /\ i \in Nat
      BY <1>1, <1>14 DEF Shape
    <3>2. reader[q].at \in {"reading", "putting"} /\ reader'[q].to \subseteq reader[q].to
      <4>1. CASE q = p
        BY <1>3, <1>4, <1>14, <4>1
      <4>2. CASE q # p
        BY <1>4, <1>14, <4>2
      <4>3. QED
        BY <4>1, <4>2
    <3>3. QED
      BY <1>9, <1>14, <3>1, <3>2
  <2>2. box[i] = None /\ i \notin reader[q].to
    BY <2>1 DEF Waiters, Unblocked
  <2>3. i # id
    <3>1. CASE q = p
      BY <1>2, <2>2, <3>1
    <3>2. CASE q # p
      <4>1. Superseded(p)
        <5>1. q < p \/ p < q
          BY <1>11, <3>2
        <5>2. QED
          BY <1>10, <2>1, <5>1 DEF Superseded, Born
      <4>2. id < i
        BY <1>6, <2>1, <4>1 DEF Waiters, Apart
      <4>3. QED
        BY <1>5, <2>1, <4>2
    <3>3. QED
      BY <3>1, <3>2
  <2>4. QED
    BY <1>7, <2>1, <2>2, <2>3
<1>15. Unblocked'
  BY <1>13, <1>14 DEF Unblocked
<1>16. QED
  BY <1>12, <1>15 DEF Waiters

(* The server's own steps, and its end.                                    *)
LEMMA QuietServer ==
    ASSUME CallInv,
           \/ \E p \in Procs : ServerRead(p) \/ ServerPerforms(p) \/ ServerAnswers(p) \/ ServerSpeaks(p)
           \/ \E p \in Procs : Exits(p)
           \/ Close
    PROVE  Quiet
<1>1. Shape /\ Answers /\ UNCHANGED <<pc, rid, pending, box, reader>>
  BY DEF CallInv, ServerRead, ServerPerforms, ServerAnswers, ServerSpeaks, Exits, Close, clientVars, waiterVars
<1>2. ASSUME NEW p \in Procs, ServerRead(p) PROVE \A q \in Procs : Ids(q)' \subseteq Ids(q)
  <2> DEFINE m == Head(stdin[p])
             task == [id |-> m.id, op |-> m.op, did |-> FALSE]
  <2>1. /\ stdin[p] \in Seq(Messages) /\ stdin[p] # <<>> /\ stdout' = stdout
        /\ stdin' = [stdin EXCEPT ![p] = Tail(@)]
        /\ handling' = [handling EXCEPT ![p] = IF m.id = 0 THEN @ ELSE @ \cup {task}]
    BY <1>1, <1>2 DEF ServerRead, Shape
  <2>2. task.id = m.id
    OBVIOUS
  <2>3. m.id \in IdsOf(stdin[p]) /\ IdsOf(Tail(stdin[p])) \subseteq IdsOf(stdin[p])
    BY <2>1, PipeIds
  <2> HIDE DEF m, task
  <2>4. /\ stdin'[p] = Tail(stdin[p]) /\ handling'[p] \subseteq handling[p] \cup {task}
        /\ \A q \in Procs : q # p => stdin'[q] = stdin[q] /\ handling'[q] = handling[q]
    BY <1>1, <2>1 DEF Shape
  <2>5. {n.id : n \in handling'[p]} \subseteq {n.id : n \in handling[p]} \cup IdsOf(stdin[p])
    BY <2>2, <2>3, <2>4
  <2>6. Ids(p)' \subseteq Ids(p)
    BY <1>1, <2>1, <2>3, <2>4, <2>5 DEF Ids
  <2>7. ASSUME NEW q \in Procs, q # p PROVE Ids(q)' = Ids(q)
    BY <1>1, <2>1, <2>4, <2>7 DEF Ids
  <2>8. QED
    BY <2>6, <2>7
<1>3. ASSUME NEW p \in Procs, ServerPerforms(p) PROVE \A q \in Procs : Ids(q)' \subseteq Ids(q)
  <2>1. PICK m \in handling[p] :
           handling' = [handling EXCEPT ![p] = (@ \ {m}) \cup {[id |-> m.id, op |-> m.op, did |-> TRUE]}]
    BY <1>3 DEF ServerPerforms
  <2> DEFINE done == [id |-> m.id, op |-> m.op, did |-> TRUE]
  <2>2. done.id = m.id
    OBVIOUS
  <2>3. stdin' = stdin /\ stdout' = stdout /\ handling' = [handling EXCEPT ![p] = (@ \ {m}) \cup {done}]
    BY <1>3, <2>1 DEF ServerPerforms
  <2> HIDE DEF done
  <2>4. /\ handling'[p] \subseteq handling[p] \cup {done}
        /\ \A q \in Procs : q # p => handling'[q] = handling[q]
    BY <1>1, <2>3 DEF Shape
  <2>5. \A q \in Procs : {n.id : n \in handling'[q]} \subseteq {n.id : n \in handling[q]}
    BY <2>1, <2>2, <2>4
  <2>6. QED
    BY <1>1, <2>3, <2>5 DEF Ids, IdsOf
<1>4. ASSUME NEW p \in Procs, ServerAnswers(p) PROVE \A q \in Procs : Ids(q)' \subseteq Ids(q)
  <2>1. PICK m \in handling[p], ok \in BOOLEAN :
             /\ stdout' = [stdout EXCEPT ![p] = Append(@, [id |-> m.id, of |-> m.op, ok |-> ok])]
             /\ handling' = [handling EXCEPT ![p] = @ \ {m}]
    BY <1>4 DEF ServerAnswers
  <2> DEFINE line == [id |-> m.id, of |-> m.op, ok |-> ok]
  <2>2. m \in Tasks
    BY <1>1 DEF Shape
  <2>3. line \in Lines /\ line.id = m.id
    BY <2>2 DEF Lines, Tasks
  <2>4. stdin' = stdin /\ stdout' = [stdout EXCEPT ![p] = Append(@, line)]
    BY <1>4, <2>1 DEF ServerAnswers
  <2> HIDE DEF line
  <2>5. /\ stdout[p] \in Seq(Lines) /\ stdout'[p] = Append(stdout[p], line)
        /\ \A q \in Procs : q # p => stdout'[q] = stdout[q]
        /\ \A q \in Procs : handling'[q] \subseteq handling[q]
    BY <1>1, <2>1, <2>4 DEF Shape
  <2>6. IdsOf(stdout'[p]) = IdsOf(stdout[p]) \cup {m.id}
    BY <2>3, <2>5, PipeIds
  <2>7. \A q \in Procs : {n.id : n \in handling'[q]} \subseteq {n.id : n \in handling[q]}
    BY <2>5
  <2>8. Ids(p)' \subseteq Ids(p)
    BY <1>1, <2>1, <2>4, <2>6, <2>7 DEF Ids
  <2>9. ASSUME NEW q \in Procs, q # p PROVE Ids(q)' \subseteq Ids(q)
    BY <1>1, <2>4, <2>5, <2>7, <2>9 DEF Ids, IdsOf
  <2>10. QED
    BY <2>8, <2>9
<1>5. ASSUME NEW p \in Procs, ServerSpeaks(p) PROVE \A q \in Procs : Ids(q)' \subseteq Ids(q)
  <2>1. PICK of \in {"noise", "ask"} :
           stdout' = [stdout EXCEPT ![p] = Append(@, [id |-> 0, of |-> of, ok |-> FALSE])]
    BY <1>5 DEF ServerSpeaks
  <2> DEFINE line == [id |-> 0, of |-> of, ok |-> FALSE]
  <2>2. line \in Lines /\ line.id = 0
    BY DEF Lines
  <2>3. stdin' = stdin /\ handling' = handling /\ stdout' = [stdout EXCEPT ![p] = Append(@, line)]
    BY <1>5, <2>1 DEF ServerSpeaks
  <2> HIDE DEF line
  <2>4. /\ stdout[p] \in Seq(Lines) /\ stdout'[p] = Append(stdout[p], line)
        /\ \A q \in Procs : q # p => stdout'[q] = stdout[q]
    BY <1>1, <2>3 DEF Shape
  <2>5. IdsOf(stdout'[p]) = IdsOf(stdout[p]) \cup {0}
    BY <2>2, <2>4, PipeIds
  <2>6. Ids(p)' \subseteq Ids(p)
    BY <1>1, <2>3, <2>5 DEF Ids, IdsOf
  <2>7. ASSUME NEW q \in Procs, q # p PROVE Ids(q)' \subseteq Ids(q)
    BY <1>1, <2>3, <2>4, <2>7 DEF Ids, IdsOf
  <2>8. QED
    BY <2>6, <2>7
<1>6. ASSUME stdout' = stdout,
             \A q \in Procs : stdin'[q] \in {stdin[q], <<>>} /\ handling'[q] \subseteq handling[q]
      PROVE  \A q \in Procs : Ids(q)' \subseteq Ids(q)
  <2>1. IdsOf(<<>>) = {}
    BY DEF IdsOf
  <2>2. \A q \in Procs : IdsOf(stdin'[q]) \subseteq IdsOf(stdin[q])
    BY <1>6, <2>1
  <2>3. \A q \in Procs : {n.id : n \in handling'[q]} \subseteq {n.id : n \in handling[q]}
    BY <1>6
  <2>4. QED
    BY <1>1, <1>6, <2>2, <2>3 DEF Ids
<1>7. ASSUME NEW p \in Procs, Gone(p)
      PROVE  /\ \A q \in Procs : stdin'[q] \in {stdin[q], <<>>} /\ handling'[q] \subseteq handling[q]
             /\ \A q \in Procs : Born(q)' <=> Born(q)
  BY <1>1, <1>7 DEF Gone, Shape, Born
<1>8. /\ \A q \in Procs : Ids(q)' \subseteq Ids(q)
      /\ \A q \in Procs : Born(q)' <=> Born(q)
  <2>1. CASE \E p \in Procs : ServerRead(p) \/ ServerPerforms(p) \/ ServerAnswers(p) \/ ServerSpeaks(p)
    <3>1. life' = life
      BY <2>1 DEF ServerRead, ServerPerforms, ServerAnswers, ServerSpeaks
    <3>2. QED
      BY <1>2, <1>3, <1>4, <1>5, <2>1, <3>1 DEF Born
  <2>2. CASE \E p \in Procs : Exits(p)
    BY <1>6, <1>7, <2>2 DEF Exits
  <2>3. CASE Close
    <3>1. stdout' = stdout /\ proc \in Procs
      BY <1>1, <2>3 DEF Close, Shape
    <3>2. CASE Gone(proc)
      BY <1>6, <1>7, <3>1, <3>2
    <3>3. CASE UNCHANGED <<life, stdin, handling>>
      BY <1>6, <3>1, <3>3 DEF Born
    <3>4. QED
      BY <2>3, <3>2, <3>3 DEF Close
  <2>4. QED
    BY <2>1, <2>2, <2>3
<1>9. QED
  BY <1>1, <1>8 DEF Quiet

(* No reader blocks at the start.                                          *)
LEMMA WaitInit == Init => WaitInv
<1>1. SUFFICES ASSUME Init PROVE Waiters
  BY CallInit DEF WaitInv
<1>2. /\ \A p \in Procs : life[p] = "unborn" /\ stdin[p] = <<>> /\ stdout[p] = <<>> /\ handling[p] = {}
      /\ \A p \in Procs : reader[p].to = {} /\ reader[p].at = "idle"
      /\ pending = {} /\ \A c \in Callers : pc[c] = "idle"
  BY <1>1 DEF Init, Idle
<1>3. \A p \in Procs : Ids(p) = {}
  <2>1. IdsOf(<<>>) = {}
    BY DEF IdsOf
  <2>2. QED
    BY <1>2, <2>1 DEF Ids
<1>4. QED
  BY <1>2, <1>3 DEF Waiters, Apart, Unblocked

(* Every step keeps the waiters apart, as long as no reader has outlived   *)
(* its process's replacement.                                              *)
LEMMA WaitNext == WaitInv /\ [Next]_vars => WaitInv'
<1>1. SUFFICES ASSUME WaitInv, [Next]_vars, outlived' = {} PROVE Waiters'
  BY CallNext DEF WaitInv
<1>2. CallInv /\ Shape /\ Answers
  BY <1>1 DEF WaitInv, CallInv
<1>3. outlived = {}
  BY <1>1 DEF Next, Begin, CallerStep, Acquire, EnsureRunning, Launch, StartProcess, LaunchFails,
              Register, Send, Get, TimeOut, Forget, SendInitialized, StoreTools, ReaderStep, Skip,
              Refuse, TakeWaiter, EndOfPipe, Put, Leave, ServerRead, ServerPerforms, ServerAnswers,
              ServerSpeaks, Exits, Close, vars, waiterVars
<1>4. Waiters
  BY <1>1, <1>3 DEF WaitInv
<1>5. CASE Quiet
  BY <1>2, <1>4, <1>5, QuietWaiters
<1>6. ASSUME NEW c \in Callers, Begin(c) \/ CallerStep(c) PROVE Waiters'
  <2>1. CASE Launch(c)
    BY <1>2, <1>4, <2>1, LaunchWaiters
  <2>2. CASE Register(c)
    BY <1>2, <1>4, <2>2, RegisterWaiters
  <2>3. CASE Send(c) /\ life[proc] # "dead"
    BY <1>2, <1>4, <2>3, SendWaiters
  <2>4. CASE \/ Begin(c) \/ Acquire(c) \/ EnsureRunning(c) \/ LaunchFails(c)
             \/ Get(c) \/ TimeOut(c) \/ SendInitialized(c) \/ StoreTools(c)
             \/ Send(c) /\ life[proc] = "dead"
    BY <1>2, <1>5, <2>4, QuietCaller
  <2>5. QED
    BY <1>6, <2>1, <2>2, <2>3, <2>4 DEF CallerStep
<1>7. ASSUME NEW p \in Procs, ReaderStep(p) PROVE Waiters'
  <2>1. CASE TakeWaiter(p)
    BY <1>2, <1>4, <2>1, TakeWaiters
  <2>2. CASE EndOfPipe(p)
    BY <1>1, <1>2, <1>4, <2>2, EndWaiters
  <2>3. CASE Put(p)
    BY <1>2, <1>4, <2>3, PutWaiters
  <2>4. CASE Skip(p) \/ Refuse(p) \/ Leave(p)
    BY <1>2, <1>5, <2>4, QuietReader
  <2>5. QED
    BY <1>7, <2>1, <2>2, <2>3, <2>4 DEF ReaderStep
<1>8. CASE UNCHANGED vars
  <2>1. UNCHANGED <<pc, rid, life, stdin, stdout, handling, pending, box, reader>>
    BY <1>8 DEF vars, clientVars, pipeVars, waiterVars
  <2>2. Quiet
    BY <2>1, SameIds DEF Quiet, Born
  <2>3. QED
    BY <1>5, <2>2
<1>9. CASE \/ \E p \in Procs : ServerRead(p) \/ ServerPerforms(p) \/ ServerAnswers(p) \/ ServerSpeaks(p)
           \/ \E p \in Procs : Exits(p)
           \/ Close
  BY <1>2, <1>5, <1>9, QuietServer
<1>10. QED
  BY <1>1, <1>6, <1>7, <1>8, <1>9 DEF Next

(* A reader thread blocks for ever, on a waiter nobody empties, only if    *)
(* the reader of another process saw its end after that process had been   *)
(* replaced (_reader).                                                     *)
THEOREM ReadersDoNotBlock == Spec => []BlockedOnlyByOutlived
<1>1. WaitInv => BlockedOnlyByOutlived
  BY DEF WaitInv, Waiters, Unblocked, BlockedOnlyByOutlived
<1>2. QED
  BY <1>1, WaitInit, WaitNext, PTL DEF Spec

============================================================================
