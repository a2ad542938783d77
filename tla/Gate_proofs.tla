----------------------------- MODULE Gate_proofs -----------------------------
(***************************************************************************)
(* What the token buckets let through and what the sampler accounts for,   *)
(* for any threads, clients, principals, rates, bursts and table sizes, on *)
(* each of the three backends.                                             *)
(***************************************************************************)
EXTENDS Gate, TLAPS

Row == [tokens : Int, last : Int]

(* A thread that is not served keeps its bucket: the client's until it is  *)
(* identified, one of the sampler from then on.                            *)
Kinds(x) == {b \in Buckets : b[1] = x}
Works ==
    {Idle} \cup [pc : {"clock"}, bucket : Buckets, held : SUBSET Nat]
           \cup [pc : {"take"}, bucket : Buckets, held : SUBSET Nat, now : Nat]
           \cup [pc : {"upsert"}, bucket : Buckets, held : SUBSET Nat, now : Nat, seen : Row]
           \cup [pc : {"identify"}, bucket : Kinds("client"), held : SUBSET Nat]
           \cup [pc : {"suppress", "admit", "record"}, bucket : Kinds("audit"), held : SUBSET Nat]

Shape ==
    /\ backend \in {"local", "store", "postgres"}
    /\ clock \in Nat
    /\ buckets \in [Buckets -> Row]
    /\ work \in [Threads -> Works]
    /\ holder \in [Buckets -> Threads \cup {Nobody}]
    /\ passed \in [Buckets -> Nat] /\ evictions \in [Buckets -> Nat]
    /\ rewound \in [Buckets -> Nat] /\ overwritten \in [Buckets -> Nat]
    /\ faults \in Nat /\ refusals \in [SampleKeys -> Nat]
    /\ suppressed \in [SampleKeys -> SUBSET Nat]
    /\ reported \in [SampleKeys -> SUBSET Nat] /\ lost \in [SampleKeys -> SUBSET Nat]

(* A clock that a thread has read is not ahead of the clock, and a row     *)
(* that was selected is locked and still as it was seen; only the absence  *)
(* of a row may be out of date.                                            *)
Served(t) ==
    /\ work[t].pc \in {"take", "upsert"} => work[t].now <= clock
    /\ work[t].pc = "upsert" =>
          /\ backend = "postgres"
          /\ work[t].seen # NoBucket =>
                holder[work[t].bucket] = t /\ buckets[work[t].bucket] = work[t].seen

Size(b) == Burst[b[1]] * Cost
Flow(b) == Rate[b[1]]

(* What a bucket may let through between two evictions.                    *)
Share(b, time) == Size(b) + Flow(b) * time

(* In process: what was let through and what is left, less what the rate   *)
(* has added, never grows while a bucket lives.  A take with an early      *)
(* clock may leave it below zero, so what is left is bounded by the last   *)
(* take that was allowed.                                                  *)
Local(b) ==
    /\ passed[b] * Cost <= (1 + evictions[b]) * Share(b, clock)
    /\ IF buckets[b] = NoBucket
       THEN passed[b] * Cost <= evictions[b] * Share(b, clock)
       ELSE /\ buckets[b].last \in 0 .. clock
            /\ passed[b] * Cost + buckets[b].tokens
                 <= Share(b, buckets[b].last) + evictions[b] * Share(b, clock)

(* Shared: what is left is never below zero.                               *)
Shared(b) ==
    IF buckets[b] = NoBucket
    THEN passed[b] = 0
    ELSE /\ buckets[b].tokens >= 0 /\ buckets[b].last \in 0 .. clock
         /\ passed[b] * Cost + buckets[b].tokens
              <= (1 + overwritten[b]) * Size(b) + Flow(b) * (buckets[b].last + rewound[b])

Bounded(b) == IF backend = "local" THEN Local(b) ELSE Shared(b)

GateInv ==
    /\ Shape
    /\ \A t \in Threads : Served(t)
    /\ \A b \in Buckets : Bounded(b)
----------------------------------------------------------------------------
(* What a bucket's name says of it.                                        *)
LEMMA BucketNames ==
    /\ \A b \in Buckets : /\ b[1] \in Tables
                          /\ b[1] = "audit" => b[2] \in SampleKeys /\ b = <<"audit", b[2]>>
                          /\ b[1] # "audit" => b \in SampleKeys
                          /\ b[1] = "client" => b[2] \in Clients
    /\ \A k \in SampleKeys : <<"audit", k>> \in Buckets
    /\ \A c \in Clients : <<"client", c>> \in Buckets /\ <<"unauthenticated", c>> \in SampleKeys
    /\ \A p \in Principals : <<"principal", p>> \in Buckets
<1>1. /\ \A k \in SampleKeys : <<"audit", k>> \in Buckets
      /\ \A c \in Clients : <<"client", c>> \in Buckets /\ <<"unauthenticated", c>> \in SampleKeys
      /\ \A p \in Principals : <<"principal", p>> \in Buckets
  BY DEF Buckets, SampleKeys
<1>2. ASSUME NEW b \in Buckets
      PROVE  /\ b[1] \in Tables
             /\ b[1] = "audit" => b[2] \in SampleKeys /\ b = <<"audit", b[2]>>
             /\ b[1] # "audit" => b \in SampleKeys
             /\ b[1] = "client" => b[2] \in Clients
  <2>1. CASE \E c \in Clients : b = <<"client", c>>
    BY <2>1 DEF Tables, SampleKeys
  <2>2. CASE \E p \in Principals : b = <<"principal", p>>
    BY <2>2 DEF Tables, SampleKeys
  <2>3. CASE \E k \in SampleKeys : b = <<"audit", k>>
    BY <2>3 DEF Tables
  <2>4. QED
    BY <2>1, <2>2, <2>3 DEF Buckets
<1>3. QED
  BY <1>1, <1>2

(* Rates and sizes are natural numbers.                                    *)
LEMMA Amounts ==
    ASSUME NEW b \in Buckets
    PROVE  /\ Size(b) \in Nat /\ Size(b) >= Cost /\ Flow(b) \in Nat /\ Cost \in Nat /\ Cost > 0
           /\ \A n \in Nat : Share(b, n) \in Nat
<1>1. b[1] \in Tables
  BY BucketNames
<1>2. Burst[b[1]] \in Nat \ {0} /\ Rate[b[1]] \in Nat \ {0} /\ Cost \in Nat \ {0}
  BY <1>1, Setup
<1>3. \A m, n \in Nat : m # 0 => m * n \in Nat /\ m * n >= n
  OBVIOUS
<1>4. \A m, n \in Nat : m * n \in Nat
  OBVIOUS
<1>5. Size(b) \in Nat /\ Size(b) >= Cost /\ Flow(b) \in Nat
  BY <1>2, <1>3 DEF Size, Flow
<1>6. \A n \in Nat : Share(b, n) \in Nat
  BY <1>4, <1>5 DEF Share
<1>7. QED
  BY <1>2, <1>5, <1>6

(* After a take a thread is not at a bucket's row any more.                *)
LEMMA OnwardWorks ==
    ASSUME Shape, NEW w, w.bucket \in Buckets, w.held \in SUBSET Nat, NEW allowed \in BOOLEAN
    PROVE  Onward(w, allowed) \in Works /\ Onward(w, allowed).pc \notin {"take", "upsert"}
<1>1. CASE w.bucket[1] = "audit"
  <2>1. Onward(w, allowed) = [pc |-> IF allowed THEN "admit" ELSE "suppress", bucket |-> w.bucket,
                              held |-> w.held]
    BY <1>1 DEF Onward, At
  <2>2. w.bucket \in Kinds("audit")
    BY <1>1 DEF Kinds
  <2>3. QED
    BY <2>1, <2>2 DEF Works
<1>2. CASE w.bucket[1] = "client" /\ allowed
  <2>1. Onward(w, allowed) = [pc |-> "identify", bucket |-> w.bucket, held |-> {}]
    BY <1>2 DEF Onward, At
  <2>2. w.bucket \in Kinds("client")
    BY <1>2 DEF Kinds
  <2>3. QED
    BY <2>1, <2>2 DEF Works
<1>3. CASE w.bucket[1] = "principal" /\ allowed
  <2>1. Onward(w, allowed) = Idle
    BY <1>3 DEF Onward
  <2>2. QED
    BY <2>1 DEF Works, Idle
<1>4. CASE w.bucket[1] # "audit" /\ ~allowed
  <2>1. Onward(w, allowed) = [pc |-> "clock", bucket |-> <<"audit", w.bucket>>,
                              held |-> {refusals[w.bucket] + 1}]
    BY <1>4 DEF Onward, Refused, At
  <2>2. w.bucket \in SampleKeys /\ <<"audit", w.bucket>> \in Buckets
    BY <1>4, BucketNames
  <2>3. {refusals[w.bucket] + 1} \in SUBSET Nat
    BY <2>2 DEF Shape
  <2>4. QED
    BY <2>1, <2>2, <2>3 DEF Works
<1>5. QED
  BY <1>1, <1>2, <1>3, <1>4, BucketNames DEF Tables

(* A take that refuses counts one refusal.                                 *)
LEMMA FinishCounts ==
    ASSUME Shape, NEW t \in Threads, work[t].bucket \in Buckets, NEW allowed, Finish(t, allowed)
    PROVE  refusals' \in [SampleKeys -> Nat]
<1>1. CASE work[t].bucket[1] # "audit" /\ ~allowed
  <2>1. refusals' = [refusals EXCEPT ![work[t].bucket] = @ + 1]
    BY <1>1 DEF Finish, Refuses
  <2>2. work[t].bucket \in SampleKeys
    BY <1>1, BucketNames
  <2>3. QED
    BY <2>1, <2>2 DEF Shape
<1>2. CASE ~(work[t].bucket[1] # "audit" /\ ~allowed)
  BY <1>2 DEF Finish, Shape
<1>3. QED
  BY <1>1, <1>2

(* What a thread holds at each step.                                       *)
LEMMA WorkFields ==
    ASSUME NEW w \in Works
    PROVE  /\ w.pc \in {"idle", "clock", "take", "upsert", "identify", "admit", "suppress", "record"}
           /\ w.pc # "idle" => w.bucket \in Buckets /\ w.held \in SUBSET Nat /\ w # Idle
           /\ w.pc = "idle" => w = Idle
           /\ w.pc \in {"take", "upsert"} => w.now \in Nat
           /\ w.pc = "upsert" => w.seen \in Row
           /\ w.pc = "identify" => w.bucket[1] = "client"
           /\ w.pc \in {"admit", "suppress", "record"} => w.bucket[1] = "audit"
  BY DEF Works, Kinds, Idle

(* What a take leaves of a bucket in process: no more than what was there  *)
(* and what the rate has added, or taken back, since.                      *)
LEMMA TakenLocal ==
    ASSUME NEW w, w.bucket \in Buckets, w.now \in Nat, NEW seen \in Row, backend = "local"
    PROVE  LET r == taken(w, seen) IN
           /\ r.allowed \in BOOLEAN /\ r.bucket \in Row /\ r.bucket.last = w.now
           /\ r.allowed => r.bucket.tokens >= 0
           /\ r.bucket.tokens + (IF r.allowed THEN Cost ELSE 0) <= Size(w.bucket)
           /\ seen # NoBucket =>
                r.bucket.tokens + (IF r.allowed THEN Cost ELSE 0)
                   <= seen.tokens + (w.now - seen.last) * Flow(w.bucket)
<1> DEFINE tokens == refill(w.bucket, seen, w.now)
<1>0. Size(w.bucket) \in Nat /\ Flow(w.bucket) \in Nat /\ Cost \in Nat /\ Cost > 0
  BY Amounts
<1>1. seen.tokens \in Int /\ seen.last \in Int
  BY DEF Row
<1>2. (w.now - seen.last) * Flow(w.bucket) \in Int
  BY <1>0, <1>1
<1>3. /\ tokens \in Int /\ tokens <= Size(w.bucket)
      /\ seen # NoBucket => tokens <= seen.tokens + (w.now - seen.last) * Flow(w.bucket)
  <2>1. CASE seen = NoBucket
    BY <2>1, <1>0 DEF refill, Size
  <2>2. CASE seen # NoBucket
    <3>1. tokens = least(Size(w.bucket), seen.tokens + (w.now - seen.last) * Flow(w.bucket))
      BY <2>2 DEF refill, Size, Flow
    <3>2. QED
      BY <3>1, <1>0, <1>1, <1>2 DEF least
  <2>3. QED
    BY <2>1, <2>2
<1>4. CASE tokens >= Cost
  <2>1. taken(w, seen) = [allowed |-> TRUE, bucket |-> [tokens |-> tokens - Cost, last |-> w.now]]
    BY <1>4 DEF taken
  <2> HIDE DEF tokens
  <2>2. QED
    BY <2>1, <1>0, <1>1, <1>2, <1>3, <1>4 DEF Row
<1>5. CASE ~(tokens >= Cost)
  <2>1. taken(w, seen) = [allowed |-> FALSE, bucket |-> [tokens |-> tokens, last |-> w.now]]
    BY <1>5 DEF taken
  <2> HIDE DEF tokens
  <2>2. QED
    BY <2>1, <1>0, <1>1, <1>2, <1>3, <1>5 DEF Row
<1>6. QED
  BY <1>4, <1>5

(* What a take leaves of a shared bucket: the same, but an early clock     *)
(* takes nothing back.                                                     *)
LEMMA TakenShared ==
    ASSUME NEW w, w.bucket \in Buckets, w.now \in Nat, NEW seen \in Row, backend # "local",
           seen # NoBucket => seen.tokens >= 0
    PROVE  LET r == taken(w, seen) IN
           /\ r.allowed \in BOOLEAN /\ r.bucket \in Row /\ r.bucket.last = w.now
           /\ r.bucket.tokens >= 0
           /\ r.bucket.tokens + (IF r.allowed THEN Cost ELSE 0) <= Size(w.bucket)
           /\ seen # NoBucket =>
                r.bucket.tokens + (IF r.allowed THEN Cost ELSE 0)
                   <= seen.tokens + IF w.now > seen.last
                                    THEN (w.now - seen.last) * Flow(w.bucket) ELSE 0
<1> DEFINE tokens == refill(w.bucket, seen, w.now)
<1> DEFINE credit == IF w.now > seen.last THEN w.now - seen.last ELSE 0
<1>0. Size(w.bucket) \in Nat /\ Flow(w.bucket) \in Nat /\ Cost \in Nat /\ Cost > 0
  BY Amounts
<1>1. seen.tokens \in Int /\ seen.last \in Int
  BY DEF Row
<1>2. credit \in Nat /\ credit * Flow(w.bucket) \in Nat
  <2>1. \A m, n \in Nat : m * n \in Nat
    OBVIOUS
  <2>2. credit \in Nat
    BY <1>1
  <2>3. QED
    BY <1>0, <2>1, <2>2
<1>3. /\ tokens \in Nat /\ tokens <= Size(w.bucket)
      /\ seen # NoBucket => tokens <= seen.tokens + credit * Flow(w.bucket)
  <2>1. CASE seen = NoBucket
    BY <2>1, <1>0 DEF refill, Size
  <2>2. CASE seen # NoBucket
    <3>1. tokens = least(Size(w.bucket), seen.tokens + credit * Flow(w.bucket))
      <4>1. (IF backend = "local" \/ w.now - seen.last > 0 THEN w.now - seen.last ELSE 0) = credit
        BY <1>1
      <4>2. QED
        BY <2>2, <4>1 DEF refill, Size, Flow
    <3> HIDE DEF credit, tokens
    <3>2. QED
      BY <3>1, <2>2, <1>0, <1>1, <1>2 DEF least
  <2>3. QED
    BY <2>1, <2>2
<1>35. credit * Flow(w.bucket) = IF w.now > seen.last THEN (w.now - seen.last) * Flow(w.bucket) ELSE 0
  BY <1>0, <1>1
<1>4. CASE tokens >= Cost
  <2>1. taken(w, seen) = [allowed |-> TRUE, bucket |-> [tokens |-> tokens - Cost, last |-> w.now]]
    BY <1>4 DEF taken
  <2> HIDE DEF tokens, credit
  <2>2. QED
    BY <2>1, <1>0, <1>1, <1>2, <1>3, <1>35, <1>4 DEF Row
<1>5. CASE ~(tokens >= Cost)
  <2>1. taken(w, seen) = [allowed |-> FALSE, bucket |-> [tokens |-> tokens, last |-> w.now]]
    BY <1>5 DEF taken
  <2> HIDE DEF tokens, credit
  <2>2. QED
    BY <2>1, <1>0, <1>1, <1>2, <1>3, <1>35, <1>5 DEF Row
<1>6. QED
  BY <1>4, <1>5
----------------------------------------------------------------------------
(* The bounds hold at first.                                               *)
LEMMA GateInit == Init => GateInv
<1> SUFFICES ASSUME Init PROVE GateInv
  OBVIOUS
<1>1. Shape
  <2>1. NoBucket \in Row /\ Idle \in Works
    BY DEF NoBucket, Row, Works
  <2>2. QED
    BY <2>1, Setup DEF Init, Shape
<1>2. \A t \in Threads : Served(t)
  BY DEF Init, Served, Idle
<1>3. ASSUME NEW b \in Buckets PROVE Bounded(b)
  <2>1. Share(b, 0) \in Nat /\ Cost \in Nat
    BY Amounts
  <2>2. buckets[b] = NoBucket /\ passed[b] = 0 /\ evictions[b] = 0 /\ clock = 0
    BY DEF Init
  <2>3. QED
    BY <2>1, <2>2 DEF Bounded, Local, Shared
<1>4. QED
  BY <1>1, <1>2, <1>3 DEF GateInv

(* What a step does not touch stays bounded.                               *)
LEMMA BoundFrame ==
    ASSUME NEW b, Bounded(b), backend' = backend, clock' = clock,
           buckets'[b] = buckets[b], passed'[b] = passed[b], evictions'[b] = evictions[b],
           rewound'[b] = rewound[b], overwritten'[b] = overwritten[b]
    PROVE  Bounded(b)'
  BY DEF Bounded, Local, Shared, Share, Size, Flow

(* Time only adds to what a bucket may let through.                        *)
LEMMA BoundTick ==
    ASSUME Shape, NEW b \in Buckets, Bounded(b), Tick, backend' = backend
    PROVE  Bounded(b)'
<1> DEFINE p == passed[b]  e == evictions[b]  row == buckets[b]  now == Share(b, clock)
           later == Share(b, clock + 1)
<1>1. /\ clock' = clock + 1 /\ buckets' = buckets /\ passed' = passed /\ evictions' = evictions
      /\ rewound' = rewound /\ overwritten' = overwritten
  BY DEF Tick
<1>2. clock \in Nat /\ p \in Nat /\ e \in Nat /\ row \in Row
  BY DEF Shape
<1>3. now \in Nat /\ later \in Nat /\ now <= later /\ Cost \in Nat
  <2>1. Size(b) \in Nat /\ Flow(b) \in Nat
    BY Amounts
  <2>2. later = now + Flow(b)
    BY <1>2, <2>1 DEF Share
  <2>3. QED
    BY <1>2, <2>1, <2>2, Amounts
<1>4. e * now <= e * later /\ (1 + e) * now <= (1 + e) * later
  <2>1. \A k, m, n \in Nat : m <= n => k * m <= k * n
    OBVIOUS
  <2>2. 1 + e \in Nat
    BY <1>2
  <2> HIDE DEF e, now, later
  <2>3. QED
    BY <1>2, <1>3, <2>1, <2>2
<1>5. p * Cost \in Nat /\ e * now \in Nat /\ e * later \in Nat /\ (1 + e) * now \in Nat /\ (1 + e) * later \in Nat
  <2>1. \A m, n \in Nat : m * n \in Nat
    OBVIOUS
  <2> HIDE DEF e, p, now, later
  <2>2. QED
    BY <1>2, <1>3, <2>1
<1>6. CASE backend = "local"
  <2>1. /\ p * Cost <= (1 + e) * now
        /\ row = NoBucket => p * Cost <= e * now
        /\ row # NoBucket => /\ row.last \in 0 .. clock
                             /\ p * Cost + row.tokens <= Share(b, row.last) + e * now
    BY <1>6 DEF Bounded, Local
  <2>2. row.tokens \in Int /\ (row # NoBucket => Share(b, row.last) \in Nat)
    BY <1>2, <2>1, Amounts DEF Row
  <2>3. /\ p * Cost <= (1 + e) * later
        /\ row = NoBucket => p * Cost <= e * later
        /\ row # NoBucket => /\ row.last \in 0 .. clock + 1
                             /\ p * Cost + row.tokens <= Share(b, row.last) + e * later
    <3> HIDE DEF e, p, now, later, row
    <3>1. QED
      BY <1>2, <1>4, <1>5, <2>1, <2>2
  <2>4. QED
    BY <1>1, <1>6, <2>3 DEF Bounded, Local, Share, Size, Flow
<1>7. CASE backend # "local"
  BY <1>1, <1>2, <1>7 DEF Bounded, Shared, Size, Flow
<1>8. QED
  BY <1>6, <1>7

(* A take in process, whose bucket may be the one that is evicted.         *)
LEMMA BoundTakeLocal ==
    ASSUME Shape, NEW t \in Threads, Served(t), NEW b \in Buckets, Bounded(b), TakeLocal(t),
           backend' = backend
    PROVE  Bounded(b)' /\ buckets'[b] \in Row /\ evictions'[b] \in Nat
<1> DEFINE w == work[t]
           r == taken(w, buckets[w.bucket])
           out == evicted(w.bucket[1], w.bucket)
           p == passed[b]  e == evictions[b]  row == buckets[b]  now == Share(b, clock)
           more == IF b = w.bucket /\ r.allowed THEN 1 ELSE 0
<1>1. /\ clock' = clock /\ backend = "local" /\ w.pc = "take"
      /\ buckets'[b] = IF b \in out THEN NoBucket ELSE IF b = w.bucket THEN r.bucket ELSE row
      /\ evictions'[b] = e + IF b \in out THEN 1 ELSE 0
      /\ passed' = IF r.allowed THEN [passed EXCEPT ![w.bucket] = @ + 1] ELSE passed
  BY DEF TakeLocal, Finish
<1>2. clock \in Nat /\ p \in Nat /\ e \in Nat /\ row \in Row /\ w \in Works /\ w.bucket \in Buckets
      /\ w.now \in Nat /\ w.now <= clock
  BY <1>1, WorkFields DEF Shape, Served
<1>3. /\ now \in Nat /\ Cost \in Nat /\ Size(b) \in Nat /\ Flow(b) \in Nat
      /\ Share(b, w.now) \in Nat /\ Share(b, w.now) <= now
  <2>1. \A k, m, n \in Nat : m <= n => k * m <= k * n
    OBVIOUS
  <2>2. /\ now \in Nat /\ Cost \in Nat /\ Size(b) \in Nat /\ Flow(b) \in Nat
        /\ Share(b, w.now) \in Nat
    BY <1>2, Amounts
  <2>3. Flow(b) * w.now <= Flow(b) * clock
    BY <1>2, <2>1, <2>2
  <2>4. Flow(b) * w.now \in Int /\ Flow(b) * clock \in Int
    BY <1>2, <2>2
  <2>5. QED
    BY <2>2, <2>3, <2>4 DEF Share
<1>4. passed'[b] = p + more
  BY <1>1, <1>2 DEF Shape
<1>5. /\ p * Cost \in Nat /\ e * now \in Nat /\ (1 + e) * now = now + e * now
      /\ (p + more) * Cost = p * Cost + more * Cost
      /\ (2 + e) * now = now + now + e * now
  <2>1. \A m, n \in Nat : m * n \in Nat /\ (1 + m) * n = n + m * n /\ (2 + m) * n = n + n + m * n
    OBVIOUS
  <2>2. \A k, m, n \in Nat : (m + k) * n = m * n + k * n
    OBVIOUS
  <2>3. more \in Nat
    OBVIOUS
  <2> HIDE DEF e, p, now, more
  <2>4. QED
    BY <1>2, <1>3, <2>1, <2>2, <2>3
<1>6. /\ p * Cost <= now + e * now
      /\ row = NoBucket => p * Cost <= e * now
      /\ row # NoBucket => /\ row.last \in 0 .. clock
                           /\ p * Cost + row.tokens <= Share(b, row.last) + e * now
  BY <1>1, <1>5 DEF Bounded, Local
<1>7. CASE b = w.bucket
  <2>1. /\ r.allowed \in BOOLEAN /\ r.bucket \in Row /\ r.bucket.last = w.now
        /\ r.allowed => r.bucket.tokens >= 0
        /\ r.bucket.tokens + (IF r.allowed THEN Cost ELSE 0) <= Size(b)
        /\ row # NoBucket => r.bucket.tokens + (IF r.allowed THEN Cost ELSE 0)
                                <= row.tokens + (w.now - row.last) * Flow(b)
    BY <1>1, <1>2, <1>7, TakenLocal
  <2>2. more * Cost = IF r.allowed THEN Cost ELSE 0
    BY <1>3, <1>7
  <2>3. r.bucket.tokens \in Int /\ row.tokens \in Int /\ row.last \in Int
    BY <1>2, <2>1 DEF Row
  <2>4. row # NoBucket => /\ (w.now - row.last) * Flow(b) = Share(b, w.now) - Share(b, row.last)
                          /\ Share(b, row.last) \in Nat
    <3>1. row # NoBucket => row.last \in Nat
      BY <1>6
    <3>2. \A k, m, n \in Nat : (m - n) * k = k * m - k * n /\ k * m \in Int /\ k * n \in Int
      OBVIOUS
    <3>3. row # NoBucket => (w.now - row.last) * Flow(b) = Flow(b) * w.now - Flow(b) * row.last
      BY <1>2, <1>3, <3>1, <3>2
    <3>4. row # NoBucket => Flow(b) * w.now \in Int /\ Flow(b) * row.last \in Int
      BY <1>2, <1>3, <3>1, <3>2
    <3> HIDE DEF row
    <3>5. QED
      BY <1>2, <1>3, <3>1, <3>3, <3>4, Amounts DEF Share
  <2>5. Size(b) <= Share(b, w.now)
    <3>1. Flow(b) * w.now \in Nat
      <4>1. \A m, n \in Nat : m * n \in Nat
        OBVIOUS
      <4>2. QED
        BY <1>2, <1>3, <4>1
    <3>2. QED
      BY <1>3, <3>1 DEF Share
  <2>6. p * Cost + more * Cost + r.bucket.tokens <= Share(b, w.now) + e * now
    <3> HIDE DEF e, p, now, r, row, more, w
    <3>1. CASE row = NoBucket
      BY <3>1, <1>2, <1>3, <1>5, <1>6, <2>1, <2>2, <2>3, <2>5
    <3>2. CASE row # NoBucket
      BY <3>2, <1>2, <1>3, <1>5, <1>6, <2>1, <2>2, <2>3, <2>4
    <3>3. QED
      BY <3>1, <3>2
  <2>7. p * Cost + more * Cost <= now + e * now
    <3> HIDE DEF e, p, now, r, row, more, w
    <3>1. CASE r.allowed
      BY <3>1, <1>2, <1>3, <1>5, <2>1, <2>2, <2>3, <2>6
    <3>2. CASE ~r.allowed
      BY <3>2, <1>3, <1>5, <1>6, <2>2
    <3>3. QED
      BY <3>1, <3>2
  <2>8. r.bucket # NoBucket
    BY <2>1, <1>2 DEF NoBucket
  <2>9. QED
    <3>1. /\ passed'[b] * Cost <= (1 + evictions'[b]) * now
          /\ buckets'[b] = NoBucket => passed'[b] * Cost <= evictions'[b] * now
          /\ buckets'[b] # NoBucket => /\ buckets'[b].last \in 0 .. clock
                                       /\ passed'[b] * Cost + buckets'[b].tokens
                                            <= Share(b, buckets'[b].last) + evictions'[b] * now
      <4>1. CASE b \in out
        <5>1. buckets'[b] = NoBucket /\ evictions'[b] = e + 1
          BY <4>1, <1>1
        <5> HIDE DEF e, p, now, r, row, more, w, out
        <5>2. (1 + (e + 1)) * now = now + now + e * now /\ (e + 1) * now = now + e * now
          BY <1>2, <1>3, <1>5
        <5>3. QED
          BY <5>1, <5>2, <1>3, <1>4, <1>5, <2>2, <2>7, <1>2
      <4>2. CASE b \notin out
        <5>1. buckets'[b] = r.bucket /\ evictions'[b] = e
          BY <4>2, <1>1, <1>2, <1>7
        <5> HIDE DEF e, p, now, r, row, more, w, out
        <5>2. QED
          BY <5>1, <1>2, <1>3, <1>4, <1>5, <2>1, <2>3, <2>6, <2>7, <2>8
      <4>3. QED
        BY <4>1, <4>2
    <3>2. buckets'[b] \in Row /\ evictions'[b] \in Nat
      BY <1>1, <1>2, <1>7, <2>1 DEF NoBucket, Row
    <3>3. QED
      BY <1>1, <3>1, <3>2 DEF Bounded, Local, Share, Size, Flow
<1>8. CASE b # w.bucket
  <2>1. passed'[b] = p
    BY <1>4, <1>8, <1>2
  <2>2. /\ passed'[b] * Cost <= (1 + evictions'[b]) * now
        /\ buckets'[b] = NoBucket => passed'[b] * Cost <= evictions'[b] * now
        /\ buckets'[b] # NoBucket => /\ buckets'[b].last \in 0 .. clock
                                     /\ passed'[b] * Cost + buckets'[b].tokens
                                          <= Share(b, buckets'[b].last) + evictions'[b] * now
    <3>1. CASE b \in out
      <4>1. buckets'[b] = NoBucket /\ evictions'[b] = e + 1
        BY <3>1, <1>1
      <4> HIDE DEF e, p, now, r, row, more, w, out
      <4>2. (1 + (e + 1)) * now = now + now + e * now /\ (e + 1) * now = now + e * now
        BY <1>2, <1>3, <1>5
      <4>3. QED
        BY <4>1, <4>2, <1>3, <1>5, <1>6, <2>1
    <3>2. CASE b \notin out
      <4>1. buckets'[b] = row /\ evictions'[b] = e
        BY <3>2, <1>1, <1>2, <1>8
      <4>2. QED
        BY <4>1, <1>5, <1>6, <2>1
    <3>3. QED
      BY <3>1, <3>2
  <2>3. buckets'[b] \in Row /\ evictions'[b] \in Nat
    BY <1>1, <1>2, <1>8 DEF NoBucket, Row
  <2>4. QED
    BY <1>1, <2>2, <2>3 DEF Bounded, Local, Share, Size, Flow
<1>9. QED
  BY <1>7, <1>8

(* A take from a shared bucket that was seen as it is, or not seen at all. *)
LEMMA BoundWrite ==
    ASSUME Shape, NEW t \in Threads, work[t].pc \in {"take", "upsert"}, Served(t),
           backend # "local", backend' = backend, clock' = clock, evictions' = evictions,
           NEW seen \in {NoBucket, buckets[work[t].bucket]},
           Writes(work[t].bucket, taken(work[t], seen).bucket, seen),
           Finish(t, taken(work[t], seen).allowed),
           NEW b \in Buckets, Bounded(b)
    PROVE  /\ Bounded(b)' /\ buckets'[b] \in Row
           /\ rewound'[b] \in Nat /\ overwritten'[b] \in Nat
<1> DEFINE w == work[t]
           r == taken(w, seen)
           p == passed[b]  row == buckets[b]  o == overwritten[b]  z == rewound[b]
           back == IF row.last > w.now THEN row.last - w.now ELSE 0
           again == IF seen = row THEN 0 ELSE 1
           more == IF r.allowed THEN 1 ELSE 0
<1>1. /\ clock \in Nat /\ p \in Nat /\ o \in Nat /\ z \in Nat /\ row \in Row /\ w \in Works
      /\ w.bucket \in Buckets /\ w.now \in Nat /\ w.now <= clock /\ buckets[w.bucket] \in Row
  BY WorkFields DEF Shape, Served
<1>2. row.tokens \in Int /\ row.last \in Int
  BY <1>1 DEF Row
<1>3. Size(b) \in Nat /\ Flow(b) \in Nat /\ Cost \in Nat
  BY Amounts
<1>4. CASE b # w.bucket
  <2>1. /\ buckets'[b] = row /\ passed'[b] = p /\ rewound'[b] = z /\ overwritten'[b] = o
    BY <1>1, <1>4 DEF Writes, Finish, Shape
  <2>2. QED
    BY <1>1, <2>1, BoundFrame
<1>5. CASE b = w.bucket
  <2>1. /\ row = NoBucket => p = 0
        /\ row # NoBucket =>
              /\ row.tokens >= 0 /\ row.last \in 0 .. clock
              /\ p * Cost + row.tokens <= (1 + o) * Size(b) + Flow(b) * (row.last + z)
    BY DEF Bounded, Shared
  <2>2. /\ r.allowed \in BOOLEAN /\ r.bucket \in Row /\ r.bucket.last = w.now
        /\ r.bucket.tokens >= 0
        /\ r.bucket.tokens + (IF r.allowed THEN Cost ELSE 0) <= Size(b)
        /\ seen # NoBucket =>
             r.bucket.tokens + (IF r.allowed THEN Cost ELSE 0)
                <= row.tokens + IF w.now > row.last THEN (w.now - row.last) * Flow(b) ELSE 0
    <3>1. seen \in Row /\ (seen # NoBucket => seen = row /\ seen.tokens >= 0)
      BY <1>1, <1>5, <2>1 DEF NoBucket, Row
    <3>2. QED
      BY <1>1, <1>5, <3>1, TakenShared
  <2>3. /\ buckets'[b] = r.bucket /\ rewound'[b] = z + back /\ overwritten'[b] = o + again
        /\ passed'[b] = p + more
    <3>1. buckets'[b] = r.bucket
      BY <1>1, <1>5 DEF Writes, Shape
    <3>2. rewound'[b] = z + back
      BY <1>1, <1>5, <2>2 DEF Writes, Shape
    <3>3. overwritten'[b] = o + again
      BY <1>1, <1>5 DEF Writes, Shape
    <3>4. passed'[b] = p + more
      BY <1>1, <1>5, <2>2 DEF Finish, Shape
    <3>5. QED
      BY <3>1, <3>2, <3>3, <3>4
  <2>4. r.bucket.tokens \in Int
    BY <2>2 DEF Row
  <2>5. back \in Nat /\ again \in {0, 1} /\ more \in {0, 1}
        /\ more * Cost = (IF r.allowed THEN Cost ELSE 0)
    BY <1>1, <1>2, <1>3
  <2>6. (p + more) * Cost + r.bucket.tokens
            <= (1 + (o + again)) * Size(b) + Flow(b) * (w.now + (z + back))
    <3>1. /\ (p + more) * Cost = p * Cost + more * Cost
          /\ (1 + (o + again)) * Size(b) = (1 + o) * Size(b) + again * Size(b)
      <4>1. \A k, m, n \in Nat : (m + k) * n = m * n + k * n /\ (1 + (m + k)) * n = (1 + m) * n + k * n
        OBVIOUS
      <4>2. more \in Nat /\ again \in Nat
        OBVIOUS
      <4> HIDE DEF p, o, more, again
      <4>3. QED
        BY <1>1, <1>3, <4>1, <4>2
    <3>2. /\ p * Cost \in Nat /\ o * Size(b) \in Nat /\ (1 + o) * Size(b) \in Nat
          /\ (1 + o) * Size(b) = Size(b) + o * Size(b)
      <4>1. \A m, n \in Nat : m * n \in Nat /\ (1 + m) * n \in Nat /\ (1 + m) * n = n + m * n
        OBVIOUS
      <4> HIDE DEF p, o
      <4>2. QED
        BY <1>1, <1>3, <4>1
    <3>3. Flow(b) * (w.now + (z + back)) \in Nat
      <4>1. \A k, m, n \in Nat : k * (m + n) \in Nat
        OBVIOUS
      <4>2. z + back \in Nat
        BY <1>1, <2>5
      <4> HIDE DEF back, z, w
      <4>3. QED
        BY <1>1, <1>3, <4>1, <4>2
    <3>4. CASE row = NoBucket
      <4>1. p = 0 /\ seen = NoBucket /\ p * Cost = 0
        BY <3>4, <1>3, <1>5, <2>1
      <4>2. r.bucket.tokens + more * Cost <= Size(b)
        BY <2>2, <2>5
      <4>3. again * Size(b) = 0
        BY <1>3, <3>4, <4>1
      <4>4. more * Cost \in Nat
        BY <1>3, <2>5
      <4> HIDE DEF p, o, r, z, w, back, row, more, again
      <4>5. QED
        BY <1>3, <2>4, <3>1, <3>2, <3>3, <4>1, <4>2, <4>3, <4>4
    <3>5. CASE row # NoBucket
      <4>1. /\ row.tokens >= 0 /\ row.last \in Nat
            /\ p * Cost + row.tokens <= (1 + o) * Size(b) + Flow(b) * (row.last + z)
        BY <3>5, <1>1, <2>1
      <4>2. Flow(b) * (row.last + z) \in Nat
        <5>1. \A k, m, n \in Nat : k * (m + n) \in Nat
          OBVIOUS
        <5> HIDE DEF row, z
        <5>2. QED
          BY <1>1, <1>3, <4>1, <5>1
      <4>3. /\ w.now > row.last => /\ back = 0
                                   /\ Flow(b) * (w.now + (z + back)) =
                                        Flow(b) * (row.last + z) + (w.now - row.last) * Flow(b)
                                   /\ (w.now - row.last) * Flow(b) \in Nat
            /\ ~(w.now > row.last) => Flow(b) * (w.now + (z + back)) = Flow(b) * (row.last + z)
        <5>1. \A k, l, m, n \in Nat : m > l => /\ k * (m + n) = k * (l + n) + (m - l) * k
                                               /\ (m - l) * k \in Nat
          OBVIOUS
        <5>2. CASE w.now > row.last
          <6>1. back = 0 /\ z + back = z
            BY <5>2, <1>1, <4>1
          <6>2. QED
            BY <6>1, <5>1, <5>2, <1>1, <1>3, <4>1
        <5>3. CASE ~(w.now > row.last)
          <6>1. w.now + (z + back) = row.last + z
            BY <5>3, <1>1, <4>1
          <6>2. QED
            BY <6>1, <5>3
        <5>4. QED
          BY <5>2, <5>3
      <4>35. more * Cost \in Nat
        BY <1>3, <2>5
      <4>4. CASE seen = row
        <5>1. again * Size(b) = 0
          BY <4>4, <1>3
        <5>2. r.bucket.tokens + more * Cost
                <= row.tokens + IF w.now > row.last THEN (w.now - row.last) * Flow(b) ELSE 0
          BY <4>4, <3>5, <2>2, <2>5
        <5> HIDE DEF p, o, r, z, w, back, row, more, again
        <5>3. QED
          BY <1>1, <1>2, <1>3, <2>4, <3>1, <3>2, <3>3, <4>1, <4>2, <4>3, <4>35, <5>1, <5>2
      <4>5. CASE seen # row
        <5>1. again * Size(b) = Size(b)
          BY <4>5, <1>3
        <5>2. r.bucket.tokens + more * Cost <= Size(b)
          BY <2>2, <2>5
        <5> HIDE DEF p, o, r, z, w, back, row, more, again
        <5>3. QED
          BY <1>1, <1>2, <1>3, <2>4, <3>1, <3>2, <3>3, <4>1, <4>2, <4>3, <4>35, <5>1, <5>2
      <4>6. QED
        BY <4>4, <4>5
    <3>6. QED
      BY <3>4, <3>5
  <2>7. buckets'[b] # NoBucket
    BY <1>1, <2>2, <2>3 DEF NoBucket
  <2>8. Shared(b)'
    BY <1>1, <2>2, <2>3, <2>6, <2>7 DEF Shared, Size, Flow
  <2>9. QED
    <3>1. z + back \in Nat /\ o + again \in Nat
      BY <1>1, <2>5
    <3>2. QED
      BY <2>2, <2>3, <2>8, <3>1 DEF Bounded
<1>6. QED
  BY <1>4, <1>5
----------------------------------------------------------------------------
(* What a thread holds changes with its own steps only.                    *)
LEMMA WorkStep ==
    ASSUME Shape, NEW t \in Threads, NEW w \in Works, work' = [work EXCEPT ![t] = w]
    PROVE  /\ work' \in [Threads -> Works] /\ work'[t] = w
           /\ \A s \in Threads : s # t => work'[s] = work[s]
  BY DEF Shape

(* A thread that leaves its bucket has nothing to keep, and the others     *)
(* keep what they hold if their rows are not touched.                      *)
LEMMA ServedFrame ==
    ASSUME NEW s, Served(s), work'[s] = work[s], backend' = backend, clock' = clock,
           work[s].pc = "upsert" /\ work[s].seen # NoBucket =>
              /\ holder'[work[s].bucket] = holder[work[s].bucket]
              /\ buckets'[work[s].bucket] = buckets[work[s].bucket]
    PROVE  Served(s)'
  BY DEF Served

(* A step of a thread that touches no bucket.                              *)
LEMMA AwayStep ==
    ASSUME GateInv, NEW t \in Threads, NEW w \in Works, w.pc # "upsert",
           w.pc = "take" => w.now <= clock,
           work' = [work EXCEPT ![t] = w],
           UNCHANGED <<backend, clock, buckets, holder, passed, evictions, rewound, overwritten>>
    PROVE  /\ work' \in [Threads -> Works]
           /\ \A s \in Threads : Served(s)'
           /\ \A b \in Buckets : Bounded(b)'
<1>1. /\ work' \in [Threads -> Works] /\ work'[t] = w
      /\ \A s \in Threads : s # t => work'[s] = work[s]
  BY WorkStep DEF GateInv
<1>2. ASSUME NEW s \in Threads PROVE Served(s)'
  <2>1. CASE s = t
    BY <1>1, <2>1 DEF Served
  <2>2. CASE s # t
    BY <1>1, <2>2, ServedFrame DEF GateInv
  <2>3. QED
    BY <2>1, <2>2
<1>3. ASSUME NEW b \in Buckets PROVE Bounded(b)'
  BY BoundFrame DEF GateInv
<1>4. QED
  BY <1>1, <1>2, <1>3

(* The steps outside the buckets and the sampler.                          *)
LEMMA StepPlain ==
    ASSUME GateInv, NEW t \in Threads, backend' = backend,
           (\E c \in Clients : Arrive(t, c)) \/ ReadClock(t) \/ Identify(t)
    PROVE  GateInv'
<1>1. work[t] \in Works /\ clock \in Nat /\ refusals \in [SampleKeys -> Nat]
  BY DEF GateInv, Shape
<1>2. UNCHANGED <<backend, clock, buckets, holder, passed, evictions, rewound, overwritten,
                  suppressed, faults, reported, lost>>
  BY DEF Arrive, ReadClock, Identify
<1>0. \A b \in Buckets, h \in SUBSET Nat : At("clock", b, h) \in Works /\ At("clock", b, h).pc = "clock"
  BY DEF Works, At
<1>3. /\ refusals' \in [SampleKeys -> Nat]
      /\ \E w \in Works : /\ w.pc # "upsert" /\ (w.pc = "take" => w.now <= clock)
                          /\ work' = [work EXCEPT ![t] = w]
  <2>1. CASE \E c \in Clients : Arrive(t, c)
    <3>1. PICK c \in Clients : Arrive(t, c)
      BY <2>1
    <3>2. <<"client", c>> \in Buckets
      BY BucketNames
    <3>3. work' = [work EXCEPT ![t] = At("clock", <<"client", c>>, {})] /\ refusals' = refusals
      BY <3>1 DEF Arrive
    <3>4. QED
      BY <1>0, <1>1, <3>2, <3>3
  <2>2. CASE ReadClock(t)
    <3> DEFINE v == [pc |-> "take", bucket |-> work[t].bucket, held |-> work[t].held, now |-> clock]
    <3>1. work[t].bucket \in Buckets /\ work[t].held \in SUBSET Nat
      BY <1>1, <2>2, WorkFields DEF ReadClock
    <3>2. v \in Works
      BY <1>1, <3>1 DEF Works
    <3>3. work' = [work EXCEPT ![t] = v] /\ refusals' = refusals
      BY <2>2 DEF ReadClock
    <3>4. v.pc = "take" /\ v.now = clock /\ clock <= clock
      BY <1>1
    <3> HIDE DEF v
    <3>5. QED
      BY <1>1, <3>2, <3>3, <3>4
  <2>3. CASE Identify(t)
    <3> DEFINE c == work[t].bucket[2]  k == <<"unauthenticated", c>>
    <3>1. c \in Clients
      BY <1>1, <2>3, WorkFields, BucketNames DEF Identify
    <3>2. k \in SampleKeys /\ <<"audit", k>> \in Buckets
      BY <3>1, BucketNames
    <3>3. CASE /\ \E p \in Principals : work' = [work EXCEPT ![t] = At("clock", <<"principal", p>>, {})]
               /\ UNCHANGED refusals
      <4>1. PICK p \in Principals : work' = [work EXCEPT ![t] = At("clock", <<"principal", p>>, {})]
        BY <3>3
      <4>2. <<"principal", p>> \in Buckets
        BY BucketNames
      <4>3. QED
        BY <1>0, <1>1, <3>3, <4>1, <4>2
    <3>4. CASE work' = [work EXCEPT ![t] = Refused(k)] /\ Refuses(k)
      <4>1. Refused(k) = At("clock", <<"audit", k>>, {refusals[k] + 1})
        BY DEF Refused
      <4>2. {refusals[k] + 1} \in SUBSET Nat /\ refusals' = [refusals EXCEPT ![k] = @ + 1]
        BY <1>1, <3>2, <3>4 DEF Refuses
      <4> HIDE DEF k
      <4>3. refusals' \in [SampleKeys -> Nat]
        BY <1>1, <3>2, <4>2
      <4>4. QED
        BY <1>0, <3>2, <3>4, <4>1, <4>2, <4>3
    <3>5. QED
      BY <2>3, <3>3, <3>4 DEF Identify
  <2>4. QED
    BY <2>1, <2>2, <2>3
<1>4. /\ work' \in [Threads -> Works]
      /\ \A s \in Threads : Served(s)'
      /\ \A b \in Buckets : Bounded(b)'
  BY <1>2, <1>3, AwayStep
<1>5. Shape'
  BY <1>2, <1>3, <1>4 DEF GateInv, Shape
<1>6. QED
  BY <1>4, <1>5 DEF GateInv

(* The steps of the sampler and of the record that follows.                *)
LEMMA StepSampler ==
    ASSUME GateInv, NEW t \in Threads, backend' = backend,
           Suppress(t) \/ Admit(t) \/ Report(t) \/ AccountFails(t)
    PROVE  GateInv'
<1> DEFINE k == work[t].bucket[2]
<1>1. /\ work[t] \in Works /\ work[t].pc \in {"take", "suppress", "admit", "record"}
      /\ work[t].bucket \in Buckets /\ work[t].bucket[1] = "audit" /\ work[t].held \in SUBSET Nat
  BY WorkFields DEF GateInv, Shape, Suppress, Admit, Report, AccountFails
<1>2. k \in SampleKeys
  BY <1>1, BucketNames
<1>3. UNCHANGED <<backend, clock, buckets, holder, passed, evictions, rewound, overwritten, refusals>>
  BY DEF Suppress, Admit, Report, AccountFails
<1>4. /\ suppressed \in [SampleKeys -> SUBSET Nat] /\ reported \in [SampleKeys -> SUBSET Nat]
      /\ lost \in [SampleKeys -> SUBSET Nat] /\ faults \in Nat /\ work \in [Threads -> Works]
  BY DEF GateInv, Shape
<1>5. /\ suppressed' \in [SampleKeys -> SUBSET Nat] /\ reported' \in [SampleKeys -> SUBSET Nat]
      /\ lost' \in [SampleKeys -> SUBSET Nat] /\ faults' \in Nat
      /\ \E w \in Works : w.pc \notin {"take", "upsert"} /\ work' = [work EXCEPT ![t] = w]
  <2>0. Idle \in Works /\ Idle.pc = "idle"
    BY DEF Works, Idle
  <2>1. CASE Suppress(t)
    <3> DEFINE out == IF backend = "local" THEN evicted("suppressed", k) ELSE {}
               count == [suppressed EXCEPT ![k] = @ \cup work[t].held]
    <3>1. /\ suppressed' = [j \in SampleKeys |-> IF j \in out THEN {} ELSE count[j]]
          /\ lost' = [j \in SampleKeys |-> lost[j] \cup IF j \in out THEN count[j] ELSE {}]
          /\ work' = [work EXCEPT ![t] = Idle] /\ reported' = reported /\ faults' = faults
      BY <2>1 DEF Suppress
    <3>2. count \in [SampleKeys -> SUBSET Nat]
      BY <1>1, <1>2, <1>4
    <3> HIDE DEF out, count
    <3>3. QED
      BY <1>4, <2>0, <3>1, <3>2
  <2>2. CASE Admit(t)
    <3> DEFINE v == [work[t] EXCEPT !.pc = "record", !.held = @ \cup suppressed[k]]
    <3>1. /\ work' = [work EXCEPT ![t] = v]
          /\ suppressed' = [suppressed EXCEPT ![k] = {}]
          /\ reported' = reported /\ lost' = lost /\ faults' = faults /\ work[t].pc = "admit"
      BY <1>4, <2>2 DEF Admit
    <3>2. v \in Works /\ v.pc = "record"
      <4>1. work[t] \in [pc : {"suppress", "admit", "record"}, bucket : Kinds("audit"), held : SUBSET Nat]
        BY <1>1, <3>1 DEF Works, Idle
      <4>2. suppressed[k] \in SUBSET Nat
        BY <1>2, <1>4
      <4>3. QED
        BY <4>1, <4>2 DEF Works
    <3> HIDE DEF v, k
    <3>3. QED
      BY <1>2, <1>4, <3>1, <3>2
  <2>3. CASE Report(t)
    <3>1. /\ reported' = [reported EXCEPT ![k] = @ \cup work[t].held]
          /\ work' = [work EXCEPT ![t] = Idle]
          /\ suppressed' = suppressed /\ lost' = lost /\ faults' = faults
      BY <2>3 DEF Report
    <3> HIDE DEF k
    <3>2. QED
      BY <1>1, <1>2, <1>4, <2>0, <3>1
  <2>4. CASE AccountFails(t)
    <3>1. /\ lost' = [lost EXCEPT ![k] = @ \cup work[t].held]
          /\ work' = [work EXCEPT ![t] = Idle]
          /\ suppressed' = suppressed /\ reported' = reported /\ faults' = faults + 1
      BY <2>4 DEF AccountFails
    <3> HIDE DEF k
    <3>2. lost' \in [SampleKeys -> SUBSET Nat]
      BY <1>1, <1>2, <1>4, <3>1
    <3>3. faults' \in Nat
      BY <1>4, <3>1
    <3>4. \E w \in Works : w.pc \notin {"take", "upsert"} /\ work' = [work EXCEPT ![t] = w]
      BY <2>0, <3>1
    <3>5. QED
      BY <1>4, <3>1, <3>2, <3>3, <3>4
  <2>5. QED
    BY <2>1, <2>2, <2>3, <2>4
<1>6. /\ work' \in [Threads -> Works]
      /\ \A s \in Threads : Served(s)'
      /\ \A b \in Buckets : Bounded(b)'
  BY <1>3, <1>5, AwayStep
<1>7. Shape'
  BY <1>3, <1>5, <1>6 DEF GateInv, Shape
<1>8. QED
  BY <1>6, <1>7 DEF GateInv

(* A take in process.                                                      *)
LEMMA StepTakeLocal ==
    ASSUME GateInv, NEW t \in Threads, backend' = backend, TakeLocal(t)
    PROVE  GateInv'
<1> DEFINE w == work[t]
           r == taken(w, buckets[w.bucket])
           out == evicted(w.bucket[1], w.bucket)
<1>1. /\ Shape /\ w \in Works /\ w.pc = "take" /\ w.bucket \in Buckets /\ w.now \in Nat
      /\ buckets[w.bucket] \in Row /\ backend = "local" /\ w.held \in SUBSET Nat
  BY WorkFields DEF GateInv, Shape, TakeLocal
<1>2. r.allowed \in BOOLEAN
  BY <1>1, TakenLocal
<1>3. /\ Onward(w, r.allowed) \in Works /\ Onward(w, r.allowed).pc \notin {"take", "upsert"}
      /\ work' = [work EXCEPT ![t] = Onward(w, r.allowed)]
  <2>1. work' = [work EXCEPT ![t] = Onward(w, r.allowed)]
    BY DEF TakeLocal, Finish
  <2>2. QED
    BY <1>1, <1>2, <2>1, OnwardWorks
<1>4. /\ UNCHANGED <<backend, clock, holder, suppressed, faults, reported, lost, rewound, overwritten>>
      /\ refusals' \in [SampleKeys -> Nat]
  BY <1>1, FinishCounts DEF TakeLocal
<1>5. /\ work' \in [Threads -> Works] /\ work'[t] = Onward(w, r.allowed)
      /\ \A s \in Threads : s # t => work'[s] = work[s]
  BY <1>1, <1>3, WorkStep
<1>6. ASSUME NEW s \in Threads PROVE Served(s)'
  <2>1. CASE s = t
    BY <1>3, <1>5, <2>1 DEF Served
  <2>2. CASE s # t
    <3>1. work[s].pc # "upsert" /\ Served(s)
      BY <1>1 DEF GateInv, Served
    <3>2. QED
      BY <1>4, <1>5, <2>2, <3>1, ServedFrame
  <2>3. QED
    BY <2>1, <2>2
<1>7. \A b \in Buckets : Bounded(b)' /\ buckets'[b] \in Row /\ evictions'[b] \in Nat
  BY <1>1, BoundTakeLocal DEF GateInv
<1>8. buckets' \in [Buckets -> Row] /\ evictions' \in [Buckets -> Nat] /\ passed' \in [Buckets -> Nat]
  <2>1. /\ buckets' = [b \in Buckets |-> buckets'[b]]
        /\ evictions' = [b \in Buckets |-> evictions'[b]]
    BY DEF TakeLocal
  <2>2. passed' = IF r.allowed THEN [passed EXCEPT ![w.bucket] = @ + 1] ELSE passed
    BY DEF TakeLocal, Finish
  <2>3. passed' \in [Buckets -> Nat]
    BY <1>1, <2>2 DEF Shape
  <2>4. QED
    BY <1>7, <2>1, <2>3
<1>9. Shape'
  BY <1>1, <1>4, <1>5, <1>8 DEF Shape
<1>10. QED
  BY <1>6, <1>7, <1>9 DEF GateInv

(* A write to a shared bucket, by a thread nobody has locked out.          *)
LEMMA StepWrite ==
    ASSUME GateInv, NEW t \in Threads, work[t].pc \in {"take", "upsert"},
           NEW seen \in {NoBucket, buckets[work[t].bucket]},
           backend # "local", Writes(work[t].bucket, taken(work[t], seen).bucket, seen),
           Finish(t, taken(work[t], seen).allowed),
           UNCHANGED <<backend, clock, suppressed, evictions, faults, reported, lost>>,
           holder' \in [Buckets -> Threads \cup {Nobody}],
           \A s \in Threads \ {t} : work[s].pc = "upsert" /\ work[s].seen # NoBucket =>
              work[s].bucket # work[t].bucket /\ holder'[work[s].bucket] = holder[work[s].bucket]
    PROVE  GateInv'
<1> DEFINE w == work[t]  r == taken(w, seen)
<1>1. /\ Shape /\ w \in Works /\ w.bucket \in Buckets /\ w.now \in Nat
      /\ buckets[w.bucket] \in Row /\ w.held \in SUBSET Nat
  BY WorkFields DEF GateInv, Shape
<1>4. refusals' \in [SampleKeys -> Nat]
  BY <1>1, FinishCounts
<1>2. r.allowed \in BOOLEAN
  <2>1. seen \in Row /\ (seen # NoBucket => seen.tokens >= 0)
    BY <1>1 DEF GateInv, Bounded, Shared, NoBucket, Row
  <2>2. QED
    BY <1>1, <2>1, TakenShared
<1>3. /\ Onward(w, r.allowed) \in Works /\ Onward(w, r.allowed).pc \notin {"take", "upsert"}
      /\ work' = [work EXCEPT ![t] = Onward(w, r.allowed)]
  <2>1. work' = [work EXCEPT ![t] = Onward(w, r.allowed)]
    BY DEF Finish
  <2>2. QED
    BY <1>1, <1>2, <2>1, OnwardWorks
<1>5. /\ work' \in [Threads -> Works] /\ work'[t] = Onward(w, r.allowed)
      /\ \A s \in Threads : s # t => work'[s] = work[s]
  BY <1>1, <1>3, WorkStep
<1>6. ASSUME NEW s \in Threads PROVE Served(s)'
  <2>1. CASE s = t
    BY <1>3, <1>5, <2>1 DEF Served
  <2>2. CASE s # t
    <3>1. work[s] \in Works /\ Served(s)
      BY <1>1 DEF GateInv, Shape
    <3>2. work[s].pc = "upsert" /\ work[s].seen # NoBucket =>
              /\ holder'[work[s].bucket] = holder[work[s].bucket]
              /\ buckets'[work[s].bucket] = buckets[work[s].bucket]
      <4>1. buckets' = [buckets EXCEPT ![w.bucket] = r.bucket]
        BY DEF Writes
      <4>2. work[s].pc = "upsert" => work[s].bucket \in Buckets
        BY <3>1, WorkFields
      <4>3. QED
        BY <1>1, <2>2, <4>1, <4>2 DEF Shape
    <3>3. QED
      BY <1>5, <2>2, <3>1, <3>2, ServedFrame
  <2>3. QED
    BY <2>1, <2>2
<1>7. \A b \in Buckets : /\ Bounded(b)' /\ buckets'[b] \in Row
                         /\ rewound'[b] \in Nat /\ overwritten'[b] \in Nat
  <2>1. ASSUME NEW b \in Buckets
        PROVE  /\ Bounded(b)' /\ buckets'[b] \in Row
               /\ rewound'[b] \in Nat /\ overwritten'[b] \in Nat
    <3>1. Served(t) /\ Bounded(b)
      BY DEF GateInv
    <3>2. QED
      BY <1>1, <3>1, BoundWrite
  <2>2. QED
    BY <2>1
<1>8. /\ buckets' \in [Buckets -> Row] /\ passed' \in [Buckets -> Nat]
      /\ rewound' \in [Buckets -> Nat] /\ overwritten' \in [Buckets -> Nat]
  <2>1. /\ buckets' = [b \in Buckets |-> buckets'[b]]
        /\ rewound' = [b \in Buckets |-> rewound'[b]]
        /\ overwritten' = [b \in Buckets |-> overwritten'[b]]
    BY <1>1 DEF Writes, Shape
  <2>2. passed' = IF r.allowed THEN [passed EXCEPT ![w.bucket] = @ + 1] ELSE passed
    BY DEF Finish
  <2>3. passed' \in [Buckets -> Nat]
    BY <1>1, <2>2 DEF Shape
  <2>4. QED
    BY <1>7, <2>1, <2>3
<1>9. Shape'
  BY <1>1, <1>4, <1>5, <1>8 DEF Shape
<1>10. QED
  BY <1>6, <1>7, <1>9 DEF GateInv

(* The takes from shared buckets: in one transaction, or in two steps of   *)
(* which the first locks the row if there is one.                          *)
LEMMA StepShared ==
    ASSUME GateInv, NEW t \in Threads, backend' = backend,
           TakeStored(t) \/ SelectForUpdate(t) \/ Upsert(t)
    PROVE  GateInv'
<1> DEFINE w == work[t]
<1>1. /\ Shape /\ w \in Works /\ w.pc \in {"take", "upsert"} /\ w.bucket \in Buckets /\ w.now \in Nat
      /\ buckets[w.bucket] \in Row /\ Served(t) /\ w.held \in SUBSET Nat
  BY WorkFields DEF GateInv, Shape, TakeStored, SelectForUpdate, Upsert
<1>2. CASE TakeStored(t)
  <2>1. /\ backend = "store" /\ holder' = holder
        /\ Writes(w.bucket, taken(w, buckets[w.bucket]).bucket, buckets[w.bucket])
        /\ Finish(t, taken(w, buckets[w.bucket]).allowed)
        /\ UNCHANGED <<clock, suppressed, evictions, faults, reported, lost>>
    BY <1>2 DEF TakeStored
  <2>2. \A s \in Threads : work[s].pc # "upsert"
    BY <2>1 DEF GateInv, Served
  <2>3. QED
    BY <1>1, <2>1, <2>2, StepWrite DEF Shape
<1>3. CASE Upsert(t)
  <2>1. /\ w.pc = "upsert" /\ holder[w.bucket] \in {Nobody, t}
        /\ Writes(w.bucket, taken(w, w.seen).bucket, w.seen)
        /\ Finish(t, taken(w, w.seen).allowed)
        /\ holder' = [holder EXCEPT ![w.bucket] = Nobody]
        /\ UNCHANGED <<clock, suppressed, evictions, faults, reported, lost>>
    BY <1>3 DEF Upsert
  <2>2. w.seen \in {NoBucket, buckets[w.bucket]} /\ backend = "postgres"
    BY <1>1, <2>1 DEF Served
  <2>3. holder' \in [Buckets -> Threads \cup {Nobody}]
    BY <1>1, <2>1 DEF Shape
  <2>4. \A s \in Threads \ {t} : work[s].pc = "upsert" /\ work[s].seen # NoBucket =>
              work[s].bucket # w.bucket /\ holder'[work[s].bucket] = holder[work[s].bucket]
    <3>1. ASSUME NEW s \in Threads \ {t}, work[s].pc = "upsert", work[s].seen # NoBucket
          PROVE  work[s].bucket # w.bucket /\ holder'[work[s].bucket] = holder[work[s].bucket]
      <4>1. holder[work[s].bucket] = s /\ work[s] \in Works
        BY <1>1, <3>1 DEF GateInv, Served, Shape
      <4>2. s # Nobody
        BY Setup
      <4>3. work[s].bucket \in Buckets
        BY <3>1, <4>1, WorkFields
      <4>4. QED
        BY <1>1, <2>1, <3>1, <4>1, <4>2, <4>3 DEF Shape
    <3>2. QED
      BY <3>1
  <2>5. QED
    BY <1>1, <2>1, <2>2, <2>3, <2>4, StepWrite
<1>4. CASE SelectForUpdate(t)
  <2> DEFINE row == buckets[w.bucket]
             v == [pc |-> "upsert", bucket |-> w.bucket, held |-> w.held, now |-> w.now, seen |-> row]
  <2>1. /\ backend = "postgres" /\ w.pc = "take" /\ holder[w.bucket] = Nobody
        /\ holder' = (IF row = NoBucket THEN holder ELSE [holder EXCEPT ![w.bucket] = t])
        /\ work' = [work EXCEPT ![t] = v]
        /\ UNCHANGED <<clock, buckets, suppressed, passed, evictions,
                       faults, refusals, reported, lost, rewound, overwritten>>
    BY <1>4 DEF SelectForUpdate
  <2>2. v \in Works
    BY <1>1 DEF Works
  <2>3. /\ work' \in [Threads -> Works] /\ work'[t] = v
        /\ \A s \in Threads : s # t => work'[s] = work[s]
    BY <1>1, <2>1, <2>2, WorkStep
  <2>4. holder' \in [Buckets -> Threads \cup {Nobody}]
    BY <1>1, <2>1 DEF Shape
  <2>5. ASSUME NEW s \in Threads PROVE Served(s)'
    <3>1. CASE s = t
      <4>1. row # NoBucket => holder'[w.bucket] = t
        BY <1>1, <2>1 DEF Shape
      <4>2. w.now <= clock
        BY <1>1, <2>1 DEF Served
      <4>3. QED
        BY <2>1, <2>3, <3>1, <4>1, <4>2 DEF Served
    <3>2. CASE s # t
      <4>1. work[s] \in Works /\ Served(s)
        BY <1>1 DEF GateInv, Shape
      <4>2. work[s].pc = "upsert" /\ work[s].seen # NoBucket =>
              holder'[work[s].bucket] = holder[work[s].bucket]
        <5>1. SUFFICES ASSUME work[s].pc = "upsert", work[s].seen # NoBucket
                       PROVE  holder'[work[s].bucket] = holder[work[s].bucket]
          OBVIOUS
        <5>2. holder[work[s].bucket] = s /\ s # Nobody
          BY <4>1, <5>1, Setup DEF Served
        <5>3. work[s].bucket \in Buckets
          BY <4>1, <5>1, WorkFields
        <5>4. work[s].bucket # w.bucket
          BY <2>1, <5>2
        <5>5. QED
          BY <1>1, <2>1, <5>3, <5>4 DEF Shape
      <4>3. QED
        BY <2>1, <2>3, <3>2, <4>1, <4>2, ServedFrame
    <3>3. QED
      BY <3>1, <3>2
  <2>6. ASSUME NEW b \in Buckets PROVE Bounded(b)'
    BY <2>1, BoundFrame DEF GateInv
  <2>7. Shape'
    BY <1>1, <2>1, <2>3, <2>4 DEF Shape
  <2>8. QED
    BY <2>5, <2>6, <2>7 DEF GateInv
<1>5. QED
  BY <1>2, <1>3, <1>4

(* Every step keeps the bounds.                                            *)
LEMMA GateNext == GateInv /\ [Next]_vars => GateInv'
<1> SUFFICES ASSUME GateInv, [Next]_vars PROVE GateInv'
  OBVIOUS
<1>1. CASE UNCHANGED vars
  <2>1. Shape'
    BY <1>1 DEF GateInv, Shape, vars
  <2>2. \A b \in Buckets : Bounded(b)'
    BY <1>1, BoundFrame DEF GateInv, vars
  <2>3. \A s \in Threads : Served(s)'
    BY <1>1, ServedFrame DEF GateInv, vars
  <2>4. QED
    BY <2>1, <2>2, <2>3 DEF GateInv
<1>2. CASE Tick /\ backend' = backend
  <2>1. Shape'
    BY <1>2 DEF GateInv, Shape, Tick
  <2>2. \A b \in Buckets : Bounded(b)'
    BY <1>2, BoundTick DEF GateInv
  <2>3. ASSUME NEW s \in Threads PROVE Served(s)'
    <3>1. work[s] \in Works /\ Served(s) /\ clock \in Nat
      BY DEF GateInv, Shape
    <3>2. work[s].pc \in {"take", "upsert"} => work[s].now \in Nat /\ work[s].now <= clock + 1
      BY <3>1, WorkFields DEF Served
    <3>3. QED
      BY <1>2, <3>1, <3>2 DEF Served, Tick
  <2>4. QED
    BY <2>1, <2>2, <2>3 DEF GateInv
<1>3. ASSUME NEW t \in Threads, backend' = backend,
             \/ \E c \in Clients : Arrive(t, c)
             \/ ReadClock(t) \/ TakeLocal(t) \/ TakeStored(t) \/ SelectForUpdate(t) \/ Upsert(t)
             \/ Identify(t) \/ Suppress(t) \/ Admit(t) \/ Report(t) \/ AccountFails(t)
      PROVE  GateInv'
  BY <1>3, StepPlain, StepSampler, StepTakeLocal, StepShared
<1>4. QED
  BY <1>1, <1>2, <1>3 DEF Next

----------------------------------------------------------------------------
(* The bounds of every bucket always hold.                                 *)
THEOREM GateHolds == Spec => []GateInv
  BY GateInit, GateNext, PTL DEF Spec

(* No bucket of TokenBucket, _bucket_step or rate_take lets more through   *)
(* than its burst and its rate since, whatever the order in which threads  *)
(* read the clock and reach the bucket: each eviction, each overwritten    *)
(* first row and each tick set back is paid for.                           *)
THEOREM RatesHold == Spec => []RateBound
<1>1. GateInv => RateBound
  <2> SUFFICES ASSUME GateInv, NEW b \in Buckets
               PROVE  passed[b] * Cost <=
                        IF backend = "local"
                        THEN (1 + evictions[b]) * (Burst[b[1]] * Cost + Rate[b[1]] * clock)
                        ELSE (1 + overwritten[b]) * Burst[b[1]] * Cost + Rate[b[1]] * (clock + rewound[b])
    BY DEF RateBound
  <2>1. Bounded(b) /\ Shape
    BY DEF GateInv
  <2>2. CASE backend = "local"
    BY <2>1, <2>2 DEF Bounded, Local, Share, Size, Flow
  <2>3. CASE backend # "local"
    <3>1. /\ overwritten[b] \in Nat /\ rewound[b] \in Nat /\ clock \in Nat /\ passed[b] \in Nat
          /\ buckets[b] \in Row
      BY <2>1 DEF Shape
    <3>2. Burst[b[1]] \in Nat /\ Rate[b[1]] \in Nat /\ Cost \in Nat
      BY BucketNames, Setup
    <3>3. /\ (1 + overwritten[b]) * Burst[b[1]] * Cost = (1 + overwritten[b]) * Size(b)
          /\ (1 + overwritten[b]) * Size(b) \in Nat
      <4>1. \A k, m, n \in Nat : (1 + k) * m * n = (1 + k) * (m * n) /\ (1 + k) * (m * n) \in Nat
        OBVIOUS
      <4>2. QED
        BY <3>1, <3>2, <4>1 DEF Size
    <3>4. CASE buckets[b] = NoBucket
      <4>1. passed[b] * Cost = 0
        BY <2>1, <2>3, <3>2, <3>4 DEF Bounded, Shared
      <4>2. Rate[b[1]] * (clock + rewound[b]) \in Nat
        <5>1. \A k, m, n \in Nat : k * (m + n) \in Nat
          OBVIOUS
        <5>2. QED
          BY <3>1, <3>2, <5>1
      <4>3. QED
        BY <2>3, <3>3, <4>1, <4>2
    <3>5. CASE buckets[b] # NoBucket
      <4> DEFINE row == buckets[b]
      <4>1. /\ row.tokens >= 0 /\ row.last \in 0 .. clock
            /\ passed[b] * Cost + row.tokens <= (1 + overwritten[b]) * Size(b) + Rate[b[1]] * (row.last + rewound[b])
        BY <2>1, <2>3, <3>5 DEF Bounded, Shared, Flow
      <4>2. /\ Rate[b[1]] * (row.last + rewound[b]) <= Rate[b[1]] * (clock + rewound[b])
            /\ Rate[b[1]] * (row.last + rewound[b]) \in Nat
            /\ Rate[b[1]] * (clock + rewound[b]) \in Nat
        <5>1. \A k, l, m, n \in Nat : l <= m => /\ k * (l + n) <= k * (m + n)
                                                /\ k * (l + n) \in Nat /\ k * (m + n) \in Nat
          OBVIOUS
        <5>2. row.last \in Nat /\ row.last <= clock
          BY <3>1, <4>1
        <5> HIDE DEF row
        <5>3. QED
          BY <3>1, <3>2, <5>1, <5>2
      <4>3. passed[b] * Cost \in Nat /\ row.tokens \in Int
        <5>1. \A m, n \in Nat : m * n \in Nat
          OBVIOUS
        <5>2. QED
          BY <3>1, <3>2, <5>1 DEF Row
      <4> HIDE DEF row
      <4>4. QED
        BY <2>3, <3>3, <4>1, <4>2, <4>3
    <3>6. QED
      BY <3>4, <3>5
  <2>4. QED
    BY <2>2, <2>3
<1>2. QED
  BY <1>1, GateHolds, PTL
----------------------------------------------------------------------------
(* Where the refusals of one key are.                                      *)
Account(k) ==
    /\ \A n \in Nat : n \in 1..refusals[k] <=>
          n \in reported[k] \/ n \in suppressed[k] \/ n \in lost[k] \/ \E t \in Threads : n \in Held(t, k)
    /\ \A n \in Nat :
          /\ ~(n \in reported[k] /\ n \in suppressed[k])
          /\ ~(n \in reported[k] /\ n \in lost[k]) /\ ~(n \in suppressed[k] /\ n \in lost[k])
          /\ \A t \in Threads : n \in Held(t, k) =>
                /\ n \notin reported[k] /\ n \notin suppressed[k] /\ n \notin lost[k]
                /\ \A u \in Threads \ {t} : n \notin Held(u, k)
    /\ backend # "local" /\ faults = 0 => lost[k] = {}

(* The refusals of a key that a thread doing this has in hand.             *)
Carries(w, k) == IF w # Idle /\ w.bucket = <<"audit", k>> THEN w.held ELSE {}

(* What threads hold are numbers of refusals.                              *)
LEMMA HeldNumbers ==
    ASSUME Shape, NEW t \in Threads, NEW k PROVE Held(t, k) \in SUBSET Nat
<1>1. work[t] \in Works
  BY DEF Shape
<1>2. QED
  BY <1>1, WorkFields DEF Held, Idle

Accounts == \A k \in SampleKeys : Account(k)

(* The accounts of all keys are what RefusalsAccounted says.               *)
LEMMA AccountsMean == Shape => (RefusalsAccounted <=> Accounts)
<1> SUFFICES ASSUME Shape PROVE RefusalsAccounted <=> Accounts
  OBVIOUS
<1> DEFINE One(k) ==
        /\ 1..refusals[k] = reported[k] \cup suppressed[k] \cup lost[k]
                                \cup UNION {Held(t, k) : t \in Threads}
        /\ reported[k] \cap suppressed[k] = {}
        /\ (reported[k] \cup suppressed[k]) \cap lost[k] = {}
        /\ \A t \in Threads :
             /\ Held(t, k) \cap (reported[k] \cup suppressed[k] \cup lost[k]) = {}
             /\ \A u \in Threads \ {t} : Held(t, k) \cap Held(u, k) = {}
        /\ backend # "local" /\ faults = 0 => lost[k] = {}
<1>1. ASSUME NEW k \in SampleKeys PROVE One(k) <=> Account(k)
  <2> DEFINE H == UNION {Held(t, k) : t \in Threads}
  <2>1. /\ reported[k] \in SUBSET Nat /\ suppressed[k] \in SUBSET Nat /\ lost[k] \in SUBSET Nat
        /\ refusals[k] \in Nat
    BY DEF Shape
  <2>2. \A n : n \in H <=> \E t \in Threads : n \in Held(t, k)
    OBVIOUS
  <2>3. \A t \in Threads : Held(t, k) \in SUBSET Nat
    BY HeldNumbers
  <2>4. 1..refusals[k] \in SUBSET Nat
    BY <2>1
  <2>5. (1..refusals[k] = reported[k] \cup suppressed[k] \cup lost[k] \cup H) <=>
        \A n \in Nat : n \in 1..refusals[k] <=>
            n \in reported[k] \/ n \in suppressed[k] \/ n \in lost[k] \/ \E t \in Threads : n \in Held(t, k)
    <3> HIDE DEF H
    <3>1. QED
      BY <2>1, <2>2, <2>3, <2>4
  <2>6. (/\ reported[k] \cap suppressed[k] = {}
         /\ (reported[k] \cup suppressed[k]) \cap lost[k] = {}) <=>
        \A n \in Nat : /\ ~(n \in reported[k] /\ n \in suppressed[k])
                       /\ ~(n \in reported[k] /\ n \in lost[k]) /\ ~(n \in suppressed[k] /\ n \in lost[k])
    BY <2>1
  <2>7. (\A t \in Threads :
             /\ Held(t, k) \cap (reported[k] \cup suppressed[k] \cup lost[k]) = {}
             /\ \A u \in Threads \ {t} : Held(t, k) \cap Held(u, k) = {}) <=>
        \A n \in Nat : \A t \in Threads : n \in Held(t, k) =>
                /\ n \notin reported[k] /\ n \notin suppressed[k] /\ n \notin lost[k]
                /\ \A u \in Threads \ {t} : n \notin Held(u, k)
    BY <2>3
  <2>8. QED
    BY <2>5, <2>6, <2>7, Zenon DEF Account
<1>2. QED
  BY <1>1, Zenon DEF RefusalsAccounted, Accounts

(* The other threads keep what they have.                                  *)
LEMMA HeldStep ==
    ASSUME Shape, NEW t \in Threads, NEW w \in Works, work' = [work EXCEPT ![t] = w]
    PROVE  \A k : /\ Held(t, k) = Carries(work[t], k) /\ Held(t, k)' = Carries(w, k)
                  /\ \A s \in Threads : s # t => Held(s, k)' = Held(s, k)
<1>1. work'[t] = w /\ \A s \in Threads : s # t => work'[s] = work[s]
  BY WorkStep
<1>2. QED
  BY <1>1 DEF Held, Carries

(* Nothing changes hands.                                                  *)
LEMMA AccountQuiet ==
    ASSUME NEW k, Account(k), \A s \in Threads : Held(s, k)' = Held(s, k),
           UNCHANGED <<backend, faults>>, refusals'[k] = refusals[k], reported'[k] = reported[k],
           suppressed'[k] = suppressed[k], lost'[k] = lost[k]
    PROVE  Account(k)'
  BY DEF Account

(* One more refusal, in the hands of the thread that is refused.           *)
LEMMA AccountRefused ==
    ASSUME NEW k, Account(k), NEW t \in Threads, refusals[k] \in Nat,
           \A s \in Threads : s # t => Held(s, k)' = Held(s, k),
           Held(t, k) = {}, Held(t, k)' = {refusals[k] + 1},
           UNCHANGED <<backend, faults>>, refusals'[k] = refusals[k] + 1, reported'[k] = reported[k],
           suppressed'[k] = suppressed[k], lost'[k] = lost[k]
    PROVE  Account(k)'
<1>1. \A n \in Nat : n \in 1..refusals'[k] <=> n \in 1..refusals[k] \/ n = refusals[k] + 1
  OBVIOUS
<1>2. refusals[k] + 1 \notin 1..refusals[k] /\ refusals[k] + 1 \in Nat
  OBVIOUS
<1>3. QED
  BY <1>1, <1>2 DEF Account
(* A step by which no refusal changes hands.                               *)
LEMMA QuietStep ==
    ASSUME Shape, \A k \in SampleKeys : Account(k), NEW t \in Threads, NEW w \in Works,
           work' = [work EXCEPT ![t] = w], \A k \in SampleKeys : Carries(w, k) = Carries(work[t], k),
           UNCHANGED <<backend, faults, refusals, reported, suppressed, lost>>
    PROVE  \A k \in SampleKeys : Account(k)'
<1>1. ASSUME NEW k \in SampleKeys, NEW s \in Threads PROVE Held(s, k)' = Held(s, k)
  BY HeldStep
<1>2. QED
  BY <1>1, AccountQuiet

(* A request is refused.                                                   *)
LEMMA RefusedStep ==
    ASSUME Shape, \A k \in SampleKeys : Account(k), NEW t \in Threads, NEW r \in SampleKeys,
           work[t].bucket[1] # "audit", work' = [work EXCEPT ![t] = Refused(r)], Refuses(r),
           UNCHANGED <<backend, faults, reported, suppressed, lost>>
    PROVE  \A k \in SampleKeys : Account(k)'
<1> SUFFICES ASSUME NEW k \in SampleKeys PROVE Account(k)'
  OBVIOUS
<1>1. /\ Refused(r) \in Works /\ Refused(r) # Idle
      /\ Refused(r).bucket = <<"audit", r>> /\ Refused(r).held = {refusals[r] + 1}
  <2>1. /\ <<"audit", r>> \in Buckets /\ {refusals[r] + 1} \in SUBSET Nat
    BY BucketNames DEF Shape
  <2>2. Refused(r) = [pc |-> "clock", bucket |-> <<"audit", r>>, held |-> {refusals[r] + 1}]
    BY DEF Refused, At
  <2>3. QED
    BY <2>1, <2>2 DEF Works, Idle
<1>2. /\ Held(t, k) = Carries(work[t], k) /\ Held(t, k)' = Carries(Refused(r), k)
      /\ \A s \in Threads : s # t => Held(s, k)' = Held(s, k)
  BY <1>1, HeldStep
<1>3. Held(t, k) = {}
  <2>1. work[t].bucket # <<"audit", k>>
    OBVIOUS
  <2>2. QED
    BY <1>2, <2>1 DEF Carries
<1>4. refusals' = [refusals EXCEPT ![r] = @ + 1] /\ refusals[k] \in Nat
  BY DEF Refuses, Shape
<1>5. CASE k = r
  <2>1. Held(t, k)' = {refusals[k] + 1}
    BY <1>1, <1>2, <1>5 DEF Carries
  <2>2. refusals'[k] = refusals[k] + 1
    BY <1>4, <1>5 DEF Shape
  <2>3. QED
    BY <1>2, <1>3, <1>4, <2>1, <2>2, AccountRefused
<1>6. CASE k # r
  <2>1. Held(t, k)' = {}
    BY <1>1, <1>2, <1>6 DEF Carries
  <2>2. \A s \in Threads : Held(s, k)' = Held(s, k)
    BY <1>2, <1>3, <2>1
  <2>3. refusals'[k] = refusals[k]
    BY <1>4, <1>6 DEF Shape
  <2>4. QED
    BY <2>2, <2>3, AccountQuiet
<1>7. QED
  BY <1>5, <1>6

(* What a take of a bucket does to the accounts.                           *)
LEMMA AccountFinish ==
    ASSUME GateInv, \A k \in SampleKeys : Account(k), NEW t \in Threads, work[t].pc \in {"take", "upsert"},
           NEW allowed \in BOOLEAN, Finish(t, allowed),
           UNCHANGED <<backend, faults, reported, suppressed, lost>>
    PROVE  \A k \in SampleKeys : Account(k)'
<1> DEFINE w == work[t]
           v == Onward(w, allowed)
<1>1. Shape /\ w \in Works /\ w.bucket \in Buckets /\ w.held \in SUBSET Nat /\ w # Idle
  BY WorkFields DEF GateInv, Shape
<1>2. v \in Works /\ work' = [work EXCEPT ![t] = v]
  BY <1>1, OnwardWorks DEF Finish
<1>3. CASE w.bucket[1] = "audit"
  <2>1. v.bucket = w.bucket /\ v.held = w.held /\ v # Idle
    BY <1>3 DEF Onward, At, Idle
  <2>2. \A k \in SampleKeys : Carries(v, k) = Carries(work[t], k)
    BY <1>1, <2>1 DEF Carries
  <2>3. refusals' = refusals
    BY <1>3 DEF Finish
  <2> HIDE DEF v, w
  <2>4. QED
    BY <1>1, <1>2, <2>2, <2>3, QuietStep
<1>4. CASE w.bucket[1] # "audit" /\ allowed
  <2>1. v = Idle \/ v = At("identify", w.bucket, {})
    BY <1>1, <1>4, BucketNames DEF Onward, Tables
  <2>2. \A k \in SampleKeys : Carries(v, k) = {} /\ Carries(work[t], k) = {}
    <3>1. \A k \in SampleKeys : w.bucket # <<"audit", k>>
      BY <1>4
    <3>2. QED
      BY <2>1, <3>1 DEF Carries, At
  <2>3. refusals' = refusals
    BY <1>4 DEF Finish
  <2> HIDE DEF v, w
  <2>4. QED
    BY <1>1, <1>2, <2>2, <2>3, QuietStep
<1>5. CASE w.bucket[1] # "audit" /\ ~allowed
  <2>1. v = Refused(w.bucket) /\ w.bucket \in SampleKeys /\ Refuses(w.bucket)
    <3>1. w.bucket \in SampleKeys
      BY <1>1, <1>5, BucketNames
    <3>2. v = Refused(w.bucket)
      BY <1>5 DEF Onward
    <3>3. Refuses(w.bucket)
      BY <1>5 DEF Finish
    <3>4. QED
      BY <3>1, <3>2, <3>3
  <2>2. work' = [work EXCEPT ![t] = Refused(w.bucket)]
    BY <1>2, <2>1
  <2>3. QED
    BY <1>1, <1>5, <2>1, <2>2, RefusedStep
<1>6. QED
  BY <1>3, <1>4, <1>5
(* What a thread in the sampler holds goes to a count, to a record or is   *)
(* lost, and a count that is dropped is lost.                              *)
LEMMA AccountSampler ==
    ASSUME GateInv, \A k \in SampleKeys : Account(k), NEW t \in Threads, backend' = backend,
           Suppress(t) \/ Admit(t) \/ Report(t) \/ AccountFails(t)
    PROVE  \A k \in SampleKeys : Account(k)'
<1> DEFINE w == work[t]
           r == w.bucket[2]
<1>1. /\ Shape /\ w \in Works /\ w.pc \in {"take", "suppress", "admit", "record"} /\ w # Idle
      /\ w.bucket \in Buckets /\ w.bucket[1] = "audit" /\ w.held \in SUBSET Nat
  BY WorkFields DEF GateInv, Shape, Suppress, Admit, Report, AccountFails
<1>2. r \in SampleKeys /\ w.bucket = <<"audit", r>>
  BY <1>1, BucketNames
<1>3. /\ suppressed \in [SampleKeys -> SUBSET Nat] /\ reported \in [SampleKeys -> SUBSET Nat]
      /\ lost \in [SampleKeys -> SUBSET Nat] /\ faults \in Nat /\ work \in [Threads -> Works]
      /\ refusals' = refusals /\ Idle \in Works
  BY <1>1 DEF Shape, Suppress, Admit, Report, AccountFails, Works
<1>4. \A k \in SampleKeys : Carries(w, k) = IF k = r THEN w.held ELSE {}
  BY <1>1, <1>2 DEF Carries
<1>5. \A k \in SampleKeys : Carries(Idle, k) = {}
  BY DEF Carries
<1> SUFFICES ASSUME NEW k \in SampleKeys PROVE Account(k)'
  OBVIOUS
<1>6. Account(k)
  OBVIOUS
<1>7. CASE Suppress(t)
  <2> DEFINE out == IF backend = "local" THEN evicted("suppressed", r) ELSE {}
             count == [suppressed EXCEPT ![r] = @ \cup w.held]
  <2>1. /\ suppressed' = [j \in SampleKeys |-> IF j \in out THEN {} ELSE count[j]]
        /\ lost' = [j \in SampleKeys |-> lost[j] \cup IF j \in out THEN count[j] ELSE {}]
        /\ work' = [work EXCEPT ![t] = Idle] /\ reported' = reported /\ faults' = faults
    BY <1>7 DEF Suppress
  <2>2. /\ Held(t, k) = (IF k = r THEN w.held ELSE {}) /\ Held(t, k)' = {}
        /\ \A s \in Threads : s # t => Held(s, k)' = Held(s, k)
    <3>1. /\ Held(t, k) = Carries(work[t], k) /\ Held(t, k)' = Carries(Idle, k)
          /\ \A s \in Threads : s # t => Held(s, k)' = Held(s, k)
      BY <1>1, <1>3, <2>1, HeldStep
    <3>2. QED
      BY <1>4, <1>5, <3>1
  <2>3. count[k] = suppressed[k] \cup Held(t, k)
    BY <1>2, <1>3, <2>2
  <2>4. k \in out => backend = "local"
    OBVIOUS
  <2>5. CASE k \in out
    <3>1. suppressed'[k] = {} /\ lost'[k] = lost[k] \cup suppressed[k] \cup Held(t, k)
      BY <2>1, <2>3, <2>5
    <3> HIDE DEF out, count, w, r
    <3>2. lost'[k] = {} \/ backend' = "local"
      BY <2>4, <2>5
    <3>3. UNCHANGED <<refusals, reported, faults>>
      BY <1>3, <2>1
    <3>4. QED
      BY <1>6, <2>2, <3>1, <3>2, <3>3 DEF Account
  <2>6. CASE k \notin out
    <3>1. suppressed'[k] = suppressed[k] \cup Held(t, k) /\ lost'[k] = lost[k]
      BY <2>1, <2>3, <2>6
    <3>2. QED
      BY <1>3, <1>6, <2>1, <2>2, <3>1 DEF Account
  <2>7. QED
    BY <2>5, <2>6
<1>8. CASE Admit(t)
  <2> DEFINE v == [w EXCEPT !.pc = "record", !.held = @ \cup suppressed[r]]
  <2>1. /\ work' = [work EXCEPT ![t] = v] /\ suppressed' = [suppressed EXCEPT ![r] = {}]
        /\ reported' = reported /\ lost' = lost /\ faults' = faults
    BY <1>3, <1>8 DEF Admit
  <2>2. v \in Works /\ v # Idle /\ v.bucket = w.bucket /\ v.held = w.held \cup suppressed[r]
    <3>1. w \in [pc : {"suppress", "admit", "record"}, bucket : Kinds("audit"), held : SUBSET Nat]
      BY <1>1, <1>8 DEF Works, Idle, Admit
    <3>2. suppressed[r] \in SUBSET Nat
      BY <1>2, <1>3
    <3>3. QED
      BY <3>1, <3>2 DEF Works, Idle
  <2>3. Carries(v, k) = IF k = r THEN w.held \cup suppressed[r] ELSE {}
    BY <1>2, <2>2 DEF Carries
  <2> HIDE DEF v
  <2>4. /\ Held(t, k) = (IF k = r THEN w.held ELSE {})
        /\ Held(t, k)' = (IF k = r THEN w.held \cup suppressed[r] ELSE {})
        /\ \A s \in Threads : s # t => Held(s, k)' = Held(s, k)
    <3>1. /\ Held(t, k) = Carries(work[t], k) /\ Held(t, k)' = Carries(v, k)
          /\ \A s \in Threads : s # t => Held(s, k)' = Held(s, k)
      BY <1>1, <2>1, <2>2, HeldStep
    <3>2. QED
      BY <1>4, <2>3, <3>1
  <2> HIDE DEF w, r
  <2>5. CASE k = r
    <3>1. suppressed'[k] = {} /\ Held(t, k)' = Held(t, k) \cup suppressed[k]
      BY <1>3, <2>1, <2>4, <2>5
    <3>2. QED
      BY <1>3, <1>6, <2>1, <2>4, <3>1 DEF Account
  <2>6. CASE k # r
    <3>1. suppressed'[k] = suppressed[k] /\ Held(t, k)' = Held(t, k)
      BY <1>2, <1>3, <2>1, <2>4, <2>6
    <3>2. \A s \in Threads : Held(s, k)' = Held(s, k)
      BY <2>4, <3>1
    <3>3. QED
      BY <1>3, <1>6, <2>1, <3>1, <3>2, AccountQuiet
  <2>7. QED
    BY <2>5, <2>6
<1>9. CASE Report(t) \/ AccountFails(t)
  <2>1. /\ \/ /\ reported' = [reported EXCEPT ![r] = @ \cup w.held]
              /\ lost' = lost /\ faults' = faults
           \/ /\ lost' = [lost EXCEPT ![r] = @ \cup w.held]
              /\ reported' = reported /\ faults' = faults + 1
        /\ work' = [work EXCEPT ![t] = Idle] /\ suppressed' = suppressed
    BY <1>9 DEF Report, AccountFails
  <2>2. /\ Held(t, k) = (IF k = r THEN w.held ELSE {}) /\ Held(t, k)' = {}
        /\ \A s \in Threads : s # t => Held(s, k)' = Held(s, k)
    <3>1. /\ Held(t, k) = Carries(work[t], k) /\ Held(t, k)' = Carries(Idle, k)
          /\ \A s \in Threads : s # t => Held(s, k)' = Held(s, k)
      BY <1>1, <1>3, <2>1, HeldStep
    <3>2. QED
      BY <1>4, <1>5, <3>1
  <2> HIDE DEF w, r
  <2>3. \/ /\ reported'[k] = reported[k] \cup Held(t, k)
           /\ lost'[k] = lost[k] /\ faults' = faults
        \/ /\ lost'[k] = lost[k] \cup Held(t, k)
           /\ reported'[k] = reported[k] /\ faults' = faults + 1
    BY <1>2, <1>3, <2>1, <2>2
  <2>4. faults' = faults + 1 => faults' # 0
    BY <1>3
  <2>5. QED
    BY <1>3, <1>6, <2>1, <2>2, <2>3, <2>4 DEF Account
<1>10. QED
  BY <1>7, <1>8, <1>9

(* A take says yes or no.                                                  *)
LEMMA TakenAnswers == \A w, seen : taken(w, seen).allowed \in BOOLEAN
  BY DEF taken

(* Every step keeps the accounts.                                          *)
LEMMA AccountNext ==
    ASSUME GateInv, Accounts, [Next]_vars PROVE Accounts'
<1>1. Shape
  BY DEF GateInv
<1>2. \A k \in SampleKeys : Account(k)
  BY DEF Accounts
<1>3. SUFFICES \A k \in SampleKeys : Account(k)'
  BY DEF Accounts
<1>4. CASE Tick \/ UNCHANGED vars
  <2>1. UNCHANGED <<work, backend, faults, refusals, reported, suppressed, lost>>
    BY <1>4 DEF Next, Tick, vars
  <2>2. \A k \in SampleKeys : \A s \in Threads : Held(s, k)' = Held(s, k)
    BY <2>1 DEF Held
  <2>3. QED
    BY <1>2, <2>1, <2>2, AccountQuiet
<1>5. ASSUME UNCHANGED backend, NEW t \in Threads, NEW c \in Clients, Arrive(t, c)
      PROVE  \A k \in SampleKeys : Account(k)'
  <2> DEFINE v == At("clock", <<"client", c>>, {})
  <2>1. v \in Works /\ v.held = {} /\ \A k \in SampleKeys : Carries(v, k) = {}
    <3>1. <<"client", c>> \in Buckets
      BY BucketNames
    <3>2. QED
      BY <3>1 DEF Works, At, Carries
  <2>2. \A k \in SampleKeys : Carries(work[t], k) = {}
    BY <1>5 DEF Arrive, Carries
  <2> HIDE DEF v
  <2>3. work' = [work EXCEPT ![t] = v] /\ UNCHANGED <<faults, refusals, reported, suppressed, lost>>
    BY <1>5 DEF Arrive, v
  <2>4. \A k \in SampleKeys : Carries(v, k) = Carries(work[t], k)
    BY <2>1, <2>2
  <2>5. v \in Works
    BY <2>1
  <2>6. QED
    BY ONLY <1>1, <1>2, <1>5, <2>3, <2>4, <2>5, QuietStep
<1>6. ASSUME UNCHANGED backend, NEW t \in Threads, ReadClock(t) \/ SelectForUpdate(t)
      PROVE  \A k \in SampleKeys : Account(k)'
  <2>1. /\ work[t] \in Works /\ work[t] # Idle /\ work[t].bucket \in Buckets
        /\ work[t].held \in SUBSET Nat /\ clock \in Nat
        /\ work[t].pc = "take" => work[t].now \in Nat
        /\ buckets[work[t].bucket] \in Row
    BY <1>1, <1>6, WorkFields DEF ReadClock, SelectForUpdate, Shape
  <2>2. PICK v \in Works : /\ work' = [work EXCEPT ![t] = v]
                           /\ v # Idle /\ v.bucket = work[t].bucket /\ v.held = work[t].held
    <3>1. CASE ReadClock(t)
      <4> DEFINE v == [pc |-> "take", bucket |-> work[t].bucket, held |-> work[t].held, now |-> clock]
      <4>1. v \in Works /\ v # Idle /\ work' = [work EXCEPT ![t] = v]
        BY <2>1, <3>1 DEF Works, Idle, ReadClock
      <4>2. QED
        BY <4>1
    <3>2. CASE SelectForUpdate(t)
      <4> DEFINE v == [pc |-> "upsert", bucket |-> work[t].bucket, held |-> work[t].held,
                       now |-> work[t].now, seen |-> buckets[work[t].bucket]]
      <4>1. v \in Works /\ v # Idle /\ work' = [work EXCEPT ![t] = v]
        BY <2>1, <3>2 DEF Works, Idle, SelectForUpdate
      <4>2. QED
        BY <4>1
    <3>3. QED
      BY <1>6, <3>1, <3>2
  <2>3. \A k \in SampleKeys : Carries(v, k) = Carries(work[t], k)
    BY <2>1, <2>2 DEF Carries
  <2>4. UNCHANGED <<faults, refusals, reported, suppressed, lost>>
    BY <1>6 DEF ReadClock, SelectForUpdate
  <2>5. QED
    BY <1>1, <1>2, <1>6, <2>2, <2>3, <2>4, QuietStep
<1>7. ASSUME UNCHANGED backend, NEW t \in Threads, TakeLocal(t) \/ TakeStored(t) \/ Upsert(t)
      PROVE  \A k \in SampleKeys : Account(k)'
  <2>1. PICK allowed \in BOOLEAN : Finish(t, allowed)
    BY <1>7, TakenAnswers DEF TakeLocal, TakeStored, Upsert
  <2>2. work[t].pc \in {"take", "upsert"} /\ UNCHANGED <<faults, reported, suppressed, lost>>
    BY <1>7 DEF TakeLocal, TakeStored, Upsert
  <2>3. QED
    BY <1>2, <1>7, <2>1, <2>2, AccountFinish
<1>8. ASSUME UNCHANGED backend, NEW t \in Threads, Identify(t)
      PROVE  \A k \in SampleKeys : Account(k)'
  <2> DEFINE r == <<"unauthenticated", work[t].bucket[2]>>
  <2>1. work[t].bucket \in Buckets /\ work[t].bucket[1] = "client"
    BY <1>1, <1>8, WorkFields DEF Identify, Shape
  <2>2. r \in SampleKeys
    BY <2>1, BucketNames
  <2>3. UNCHANGED <<faults, reported, suppressed, lost>>
    BY <1>8 DEF Identify
  <2>4. CASE /\ \E p \in Principals : work' = [work EXCEPT ![t] = At("clock", <<"principal", p>>, {})]
             /\ UNCHANGED refusals
    <3>1. PICK p \in Principals : work' = [work EXCEPT ![t] = At("clock", <<"principal", p>>, {})]
      BY <2>4
    <3> DEFINE v == At("clock", <<"principal", p>>, {})
    <3>2. v \in Works /\ \A k \in SampleKeys : Carries(v, k) = {}
      <4>1. <<"principal", p>> \in Buckets
        BY BucketNames
      <4>2. QED
        BY <4>1 DEF Works, At, Carries
    <3>3. \A k \in SampleKeys : Carries(work[t], k) = {}
      BY <2>1 DEF Carries
    <3> HIDE DEF v
    <3>4. work' = [work EXCEPT ![t] = v]
      BY <3>1 DEF v
    <3>5. QED
      BY <1>1, <1>2, <1>8, <2>3, <2>4, <3>2, <3>3, <3>4, QuietStep
  <2>5. CASE work' = [work EXCEPT ![t] = Refused(r)] /\ Refuses(r)
    <3> HIDE DEF r
    <3>1. QED
      BY <1>1, <1>2, <1>8, <2>1, <2>2, <2>3, <2>5, RefusedStep
  <2>6. QED
    BY <1>8, <2>4, <2>5 DEF Identify
<1>9. ASSUME UNCHANGED backend, NEW t \in Threads, Suppress(t) \/ Admit(t) \/ Report(t) \/ AccountFails(t)
      PROVE  \A k \in SampleKeys : Account(k)'
  BY <1>2, <1>9, AccountSampler
<1>10. QED
  BY <1>4, <1>5, <1>6, <1>7, <1>8, <1>9 DEF Next

(* However threads and replicas overlap at the sampler (AuditSampler.admit,*)
(* rate_admit) and at the audit write that follows it (_gate, _limited),   *)
(* each refusal is told of by one record, or counted for the next, or in   *)
(* the hands of one thread; on shared stores only failures lose any.       *)
THEOREM RefusalsLeaveTraces == Spec => []RefusalsAccounted
<1>1. Init => Accounts
  <2> SUFFICES ASSUME Init PROVE Accounts
    OBVIOUS
  <2>1. ASSUME NEW k \in SampleKeys PROVE Account(k)
    <3>1. /\ refusals[k] = 0 /\ reported[k] = {} /\ suppressed[k] = {} /\ lost[k] = {}
          /\ \A t \in Threads : Held(t, k) = {}
      BY DEF Init, Held
    <3>2. QED
      BY <3>1 DEF Account
  <2>2. QED
    BY <2>1 DEF Accounts
<1>2. GateInv /\ Accounts /\ [Next]_vars => Accounts'
  BY AccountNext
<1>3. GateInv /\ Accounts => RefusalsAccounted
  BY AccountsMean DEF GateInv
<1>4. QED
  BY <1>1, <1>2, <1>3, GateHolds, PTL DEF Spec

============================================================================
