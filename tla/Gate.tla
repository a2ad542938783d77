-------------------------------- MODULE Gate --------------------------------
(***************************************************************************)
(* The gate every HTTP request passes (HarnessAPI._gate in api.py) and the *)
(* token buckets behind it (ratelimit.py, and rate_take and rate_admit of  *)
(* state.py): a bucket per client address before authentication, one per   *)
(* principal after it, and one per key for the audit records of refusals,  *)
(* with a count of the refusals that were not recorded.                    *)
(*                                                                         *)
(* Tokens are counted in units, Cost of them to a token, so that rates     *)
(* below one token per tick stay exact.                                    *)
(***************************************************************************)
EXTENDS Integers, Sequences, FiniteSets, SequencesExt

CONSTANTS
    Threads,
    Clients,       \* client addresses
    Principals,    \* authenticated agents and approvers
    Backends,      \* "local": TokenBucket; "store": MemoryStateStore and SQLite; "postgres"
    Cost,          \* units in a token
    Rate,          \* table -> units added per tick
    Burst,         \* table -> tokens in a full bucket
    MaxKeys,       \* max_tracked_keys
    MaxRequests, MaxTime, MaxFaults    \* bounds: requests, ticks, failures

VARIABLES
    backend,       \* where the buckets are kept, fixed by the server's configuration
    clock,
    buckets,       \* bucket -> its tokens and the time of its last update
    recency,       \* table -> its keys, least recently used first ("local")
    suppressed,    \* key -> the refusals that its count stands for
    work,          \* thread -> what it is doing
    holder,        \* bucket -> the thread that has locked its row ("postgres")
    requests,      \* requests received
    passed,        \* bucket -> takes it has allowed
    evictions,     \* bucket -> how often it was evicted
    rewound,       \* bucket -> ticks its time was set back by, in all (shared ones)
    overwritten,   \* bucket -> how often it was written as new though it was there
    faults,        \* audit writes and calls of the sampler that failed
    refusals,      \* key -> refusals so far; each is known by its number
    reported,      \* key -> the refusals that audit records have told of
    lost           \* key -> the refusals whose count was evicted, or whose account failed

vars == <<backend, clock, buckets, recency, suppressed, work, holder, requests, passed,
          evictions, rewound, overwritten, faults, refusals, reported, lost>>

(* Refusals are sampled by client address, by rate-limited client and by   *)
(* rate-limited principal.                                                 *)
SampleKeys == {<<"unauthenticated", c>> : c \in Clients}
         \cup {<<"client", c>> : c \in Clients} \cup {<<"principal", p>> : p \in Principals}

Buckets == {<<"client", c>> : c \in Clients} \cup {<<"principal", p>> : p \in Principals}
      \cup {<<"audit", k>> : k \in SampleKeys}

Tables == {"client", "principal", "audit"}

NoBucket == [tokens |-> 0, last |-> -1]
Nobody == "nobody"
Idle == [pc |-> "idle"]

ASSUME Setup ==
    /\ Backends \subseteq {"local", "store", "postgres"}
    /\ Cost \in Nat \ {0} /\ MaxKeys \in Nat \ {0}
    /\ Rate \in [Tables -> Nat \ {0}] /\ Burst \in [Tables -> Nat \ {0}]
    /\ Nobody \notin Threads

Init ==
    /\ backend \in Backends
    /\ clock = 0
    /\ buckets = [b \in Buckets |-> NoBucket]
    /\ recency = [x \in Tables \cup {"suppressed"} |-> <<>>]
    /\ suppressed = [k \in SampleKeys |-> {}]
    /\ work = [t \in Threads |-> Idle]
    /\ holder = [b \in Buckets |-> Nobody]
    /\ requests = 0
    /\ passed = [b \in Buckets |-> 0]
    /\ evictions = [b \in Buckets |-> 0]
    /\ rewound = [b \in Buckets |-> 0]
    /\ overwritten = [b \in Buckets |-> 0]
    /\ faults = 0
    /\ refusals = [k \in SampleKeys |-> 0]
    /\ reported = [k \in SampleKeys |-> {}]
    /\ lost = [k \in SampleKeys |-> {}]

----------------------------------------------------------------------------
least(m, n) == IF m < n THEN m ELSE n

(* The refill of TokenBucket.take, where a clock read before another       *)
(* thread's may take units back, and of _bucket_step, where it may not.    *)
refill(b, seen, now) ==
    LET elapsed == now - seen.last
        credit  == IF backend = "local" \/ elapsed > 0 THEN elapsed ELSE 0
    IN  IF seen = NoBucket THEN Burst[b[1]] * Cost
        ELSE least(Burst[b[1]] * Cost, seen.tokens + credit * Rate[b[1]])

(* A thread at a bucket.  It holds the refusals it will tell the sampler   *)
(* of: its own, once it is at a bucket of the sampler.                     *)
At(pc, b, held) == [pc |-> pc, bucket |-> b, held |-> held]

(* The request is refused, and the sampler asked about the refusal.        *)
Refused(k) == At("clock", <<"audit", k>>, {refusals[k] + 1})
Refuses(k) == refusals' = [refusals EXCEPT ![k] = @ + 1]

(* Where a thread goes from a bucket: on, or to the sampler with a refusal.*)
Onward(w, allowed) ==
    CASE w.bucket[1] = "audit" -> At(IF allowed THEN "admit" ELSE "suppress", w.bucket, w.held)
      [] w.bucket[1] = "client" /\ allowed -> At("identify", w.bucket, {})
      [] w.bucket[1] = "principal" /\ allowed -> Idle
      [] OTHER -> Refused(w.bucket)

(* What one take makes of a bucket that was seen like this.                *)
taken(w, seen) ==
    LET tokens == refill(w.bucket, seen, w.now)
    IN  IF tokens >= Cost
            THEN [allowed |-> TRUE, bucket |-> [tokens |-> tokens - Cost, last |-> w.now]]
            ELSE [allowed |-> FALSE, bucket |-> [tokens |-> tokens, last |-> w.now]]

(* What a shared bucket's write does to the one that is there.             *)
Writes(b, bucket, seen) ==
    LET there == buckets[b]
    IN  /\ buckets' = [buckets EXCEPT ![b] = bucket]
        /\ rewound' = [rewound EXCEPT ![b] =
                @ + IF there.last > bucket.last THEN there.last - bucket.last ELSE 0]
        /\ overwritten' = [overwritten EXCEPT ![b] = @ + IF seen = there THEN 0 ELSE 1]

Finish(t, allowed) ==
    /\ passed' = IF allowed THEN [passed EXCEPT ![work[t].bucket] = @ + 1] ELSE passed
    /\ work' = [work EXCEPT ![t] = Onward(work[t], allowed)]
    /\ IF work[t].bucket[1] # "audit" /\ ~allowed THEN Refuses(work[t].bucket)
                                                  ELSE UNCHANGED refusals

(* An OrderedDict of at most MaxKeys entries, after an entry was put last: *)
(* its keys, and those that made room.                                     *)
touched(x, k) == Append(Remove(recency[x], k), k)
evicted(x, k) == IF Len(touched(x, k)) > MaxKeys THEN {Head(touched(x, k))} ELSE {}
kept(x, k) == IF evicted(x, k) = {} THEN touched(x, k) ELSE Tail(touched(x, k))

(* A request arrives; its client's bucket comes first.                     *)
Arrive(t, c) ==
    /\ work[t] = Idle
    /\ requests < MaxRequests /\ requests' = requests + 1
    /\ work' = [work EXCEPT ![t] = At("clock", <<"client", c>>, {})]
    /\ UNCHANGED <<clock, buckets, recency, suppressed, holder, passed, evictions, faults,
                   refusals, reported, lost, rewound, overwritten>>

(* The clock is read before the bucket's lock is taken.                    *)
ReadClock(t) ==
    /\ work[t].pc = "clock"
    /\ work' = [work EXCEPT ![t] = [pc |-> "take", bucket |-> work[t].bucket,
                                    held |-> work[t].held, now |-> clock]]
    /\ UNCHANGED <<clock, buckets, recency, suppressed, holder, requests, passed, evictions,
                   faults, refusals, reported, lost, rewound, overwritten>>

(* TokenBucket.take under its lock, with the eviction of idle buckets.     *)
TakeLocal(t) ==
    LET w == work[t]
        result == taken(w, buckets[w.bucket])
        out == evicted(w.bucket[1], w.bucket)
    IN  /\ backend = "local" /\ w.pc = "take"
        /\ buckets' = [b \in Buckets |-> IF b \in out THEN NoBucket
                                        ELSE IF b = w.bucket THEN result.bucket ELSE buckets[b]]
        /\ evictions' = [b \in Buckets |-> evictions[b] + IF b \in out THEN 1 ELSE 0]
        /\ recency' = [recency EXCEPT ![w.bucket[1]] = kept(w.bucket[1], w.bucket)]
        /\ Finish(t, result.allowed)
        /\ UNCHANGED <<clock, suppressed, holder, requests, faults, reported, lost, rewound,
                       overwritten>>

(* Mistake: a bucket keeps the time at which it was first used.            *)
TakeStoredUntimed(t) ==
    LET w == work[t]
        seen == buckets[w.bucket]
        result == taken(w, seen)
    IN  /\ backend = "store" /\ w.pc = "take"
        /\ Writes(w.bucket, IF seen = NoBucket THEN result.bucket
                            ELSE [result.bucket EXCEPT !.last = seen.last], seen)
        /\ Finish(t, result.allowed)
        /\ UNCHANGED <<clock, recency, suppressed, holder, requests, evictions, faults,
                       reported, lost>>

(* rate_take in one transaction (MemoryStateStore, SQLiteStateStore).      *)
TakeStored(t) ==
    LET w == work[t]
        result == taken(w, buckets[w.bucket])
    IN  /\ backend = "store" /\ w.pc = "take"
        /\ Writes(w.bucket, result.bucket, buckets[w.bucket])
        /\ Finish(t, result.allowed)
        /\ UNCHANGED <<clock, recency, suppressed, holder, requests, evictions, faults,
                       reported, lost>>

(* rate_take of PostgresStateStore: SELECT ... FOR UPDATE locks the row if *)
(* there is one ...                                                        *)
SelectForUpdate(t) ==
    LET w == work[t]
    IN  /\ backend = "postgres" /\ w.pc = "take"
        /\ holder[w.bucket] = Nobody
        /\ holder' = IF buckets[w.bucket] = NoBucket THEN holder
                                                     ELSE [holder EXCEPT ![w.bucket] = t]
        /\ work' = [work EXCEPT ![t] = [pc |-> "upsert", bucket |-> w.bucket, held |-> w.held,
                                        now |-> w.now, seen |-> buckets[w.bucket]]]
        /\ UNCHANGED <<clock, buckets, recency, suppressed, requests, passed, evictions, faults,
                       refusals, reported, lost, rewound, overwritten>>

(* ... and INSERT ... ON CONFLICT DO UPDATE writes it.                     *)
Upsert(t) ==
    LET w == work[t]
        result == taken(w, w.seen)
    IN  /\ w.pc = "upsert"
        /\ holder[w.bucket] \in {Nobody, t}
        /\ Writes(w.bucket, result.bucket, w.seen)
        /\ holder' = [holder EXCEPT ![w.bucket] = Nobody]
        /\ Finish(t, result.allowed)
        /\ UNCHANGED <<clock, recency, suppressed, requests, evictions, faults, reported, lost>>

(* identify: the token is good for a principal, or the request is refused. *)
Identify(t) ==
    LET unauthenticated == <<"unauthenticated", work[t].bucket[2]>>
    IN  /\ work[t].pc = "identify"
        /\ \/ /\ \E p \in Principals :
                    work' = [work EXCEPT ![t] = At("clock", <<"principal", p>>, {})]
              /\ UNCHANGED refusals
           \/ /\ work' = [work EXCEPT ![t] = Refused(unauthenticated)]
              /\ Refuses(unauthenticated)
        /\ UNCHANGED <<clock, buckets, recency, suppressed, holder, requests, passed, evictions,
                       faults, reported, lost, rewound, overwritten>>

(* AuditSampler.admit and rate_admit when the bucket says no: one more     *)
(* refusal is only counted.  The count has a lock or transaction of its    *)
(* own; SQLite, where one transaction covers bucket and count, does the    *)
(* same with nothing in between.                                           *)
Suppress(t) ==
    LET k == work[t].bucket[2]
        out == IF backend = "local" THEN evicted("suppressed", k) ELSE {}
        count == [suppressed EXCEPT ![k] = @ \cup work[t].held]
    IN  /\ work[t].pc = "suppress"
        /\ suppressed' = [j \in SampleKeys |-> IF j \in out THEN {} ELSE count[j]]
        /\ lost' = [j \in SampleKeys |-> lost[j] \cup IF j \in out THEN count[j] ELSE {}]
        /\ recency' = IF backend = "local"
                THEN [recency EXCEPT !["suppressed"] = kept("suppressed", k)] ELSE recency
        /\ work' = [work EXCEPT ![t] = Idle]
        /\ UNCHANGED <<clock, buckets, holder, requests, passed, evictions, faults, refusals,
                       reported, rewound, overwritten>>

(* Mistake: the count is read and stays.                                   *)
AdmitReading(t) ==
    LET k == work[t].bucket[2]
    IN  /\ work[t].pc = "admit"
        /\ work' = [work EXCEPT ![t].pc = "record", ![t].held = @ \cup suppressed[k]]
        /\ UNCHANGED <<clock, buckets, recency, suppressed, holder, requests, passed, evictions,
                       faults, refusals, reported, lost, rewound, overwritten>>

(* ... and when it says yes: the thread takes the count with it ...        *)
Admit(t) ==
    LET k == work[t].bucket[2]
    IN  /\ work[t].pc = "admit"
        /\ work' = [work EXCEPT ![t].pc = "record", ![t].held = @ \cup suppressed[k]]
        /\ suppressed' = [suppressed EXCEPT ![k] = {}]
        /\ recency' = [recency EXCEPT !["suppressed"] = Remove(@, k)]
        /\ UNCHANGED <<clock, buckets, holder, requests, passed, evictions, faults, refusals,
                       reported, lost, rewound, overwritten>>

(* ... and _gate or _limited records the refusal, with the count of those  *)
(* that were not.                                                          *)
Report(t) ==
    LET k == work[t].bucket[2]
    IN  /\ work[t].pc = "record"
        /\ reported' = [reported EXCEPT ![k] = @ \cup work[t].held]
        /\ work' = [work EXCEPT ![t] = Idle]
        /\ UNCHANGED <<clock, buckets, recency, suppressed, holder, requests, passed, evictions,
                       faults, refusals, lost, rewound, overwritten>>

(* The audit write raises: nothing puts the count back.  Or the shared     *)
(* store fails and the refusal is not even counted: rate_admit rolls back, *)
(* except for the take of PostgreSQL, a transaction of its own.            *)
AccountFails(t) ==
    LET k == work[t].bucket[2]
    IN  /\ \/ work[t].pc = "record"
           \/ backend # "local" /\ work[t].pc = "take" /\ work[t].bucket[1] = "audit"
           \/ backend = "postgres" /\ work[t].pc \in {"suppress", "admit"}
        /\ faults < MaxFaults /\ faults' = faults + 1
        /\ lost' = [lost EXCEPT ![k] = @ \cup work[t].held]
        /\ work' = [work EXCEPT ![t] = Idle]
        /\ UNCHANGED <<clock, buckets, recency, suppressed, holder, requests, passed, evictions,
                       refusals, reported, rewound, overwritten>>

Tick ==
    /\ clock < MaxTime
    /\ clock' = clock + 1
    /\ UNCHANGED <<buckets, recency, suppressed, work, holder, requests, passed,
                   evictions, faults, refusals, reported, lost, rewound, overwritten>>

Next ==
    /\ UNCHANGED backend
    /\ \/ \E t \in Threads :
            \/ \E c \in Clients : Arrive(t, c)
            \/ ReadClock(t) \/ TakeLocal(t) \/ TakeStored(t) \/ SelectForUpdate(t) \/ Upsert(t)
            \/ Identify(t) \/ Suppress(t) \/ Admit(t) \/ Report(t) \/ AccountFails(t)
       \/ Tick

Spec == Init /\ [][Next]_vars

----------------------------------------------------------------------------
(* Every bucket and count has its shape, and at most MaxKeys buckets of a  *)
(* table and counts are kept.                                              *)
TypeOK ==
    /\ buckets \in [Buckets -> [tokens: Int, last: Int]]
    /\ suppressed \in [SampleKeys -> SUBSET Nat]
    /\ \A x \in DOMAIN recency : Len(recency[x]) <= MaxKeys
    /\ holder \in [Buckets -> Threads \cup {Nobody}]

(* A bucket never lets more through than a full bucket and what its rate   *)
(* has added since, for requests and for the audit records of refusals,    *)
(* whatever threads take from it with clocks they read in another order.   *)
(* In process an evicted bucket starts again (TokenBucket.take).  One that *)
(* replicas share exceeds the bound in two ways only: ticks are credited   *)
(* again after its time was set back, and the first takes of a row that is *)
(* not there yet may each start it full (_bucket_step, rate_take).         *)
RateBound ==
    \A b \in Buckets :
        passed[b] * Cost <=
            IF backend = "local"
            THEN (1 + evictions[b]) * (Burst[b[1]] * Cost + Rate[b[1]] * clock)
            ELSE (1 + overwritten[b]) * Burst[b[1]] * Cost + Rate[b[1]] * (clock + rewound[b])

(* The refusals of a key that a thread has in hand.                        *)
Held(t, k) == IF work[t] # Idle /\ work[t].bucket = <<"audit", k>> THEN work[t].held ELSE {}

(* A flood leaves its evidence, and each refusal leaves it once, however   *)
(* threads and replicas that are refused overlap: it is told of by one     *)
(* audit record, or stands in the count for the next one, or is in the     *)
(* hands of one thread on its way to either.  Only an evicted count, the   *)
(* failed write of a record that had taken the count, and a failure of the *)
(* shared store lose any (AuditSampler.admit, rate_admit, _gate, _limited).*)
RefusalsAccounted ==
    \A k \in SampleKeys :
        /\ 1..refusals[k] = reported[k] \cup suppressed[k] \cup lost[k]
                                \cup UNION {Held(t, k) : t \in Threads}
        /\ reported[k] \cap suppressed[k] = {}
        /\ (reported[k] \cup suppressed[k]) \cap lost[k] = {}
        /\ \A t \in Threads :
             /\ Held(t, k) \cap (reported[k] \cup suppressed[k] \cup lost[k]) = {}
             /\ \A u \in Threads \ {t} : Held(t, k) \cap Held(u, k) = {}
        /\ backend # "local" /\ faults = 0 => lost[k] = {}

=============================================================================
