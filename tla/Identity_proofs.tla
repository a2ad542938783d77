-------------------------- MODULE Identity_proofs --------------------------
(***************************************************************************)
(* Rotation, verification and revocation, for any number of servers,       *)
(* threads, keys and tokens, and any lifetimes.                            *)
(***************************************************************************)
EXTENDS Identity, FiniteSetTheorems, TLAPS

Token == [jti: Nat, kid: Kids, iat: Nat, exp: Nat, binding: Workloads \cup {Unbound}]
Pcs == {"reload", "lookup", "unknown_key", "revocation", "accepted"}
Verification ==
    [pc: Pcs, token: issued, workload: Workloads \cup {NoWorkload}, stamp: Nat,
     before: SUBSET Kids, gone: SUBSET ever_revoked]

Typed ==
    /\ clock \in Nat
    /\ file \in [stamp: Nat, keys: SUBSET Kids, active: Kids] /\ file.active \in file.keys
    /\ authority \in [Servers -> [up: {"down", "loaded", "up"}, keys: SUBSET Kids, stamp: Nat]]
    /\ issued \subseteq Token /\ IsFiniteSet(issued)
    /\ revoked \subseteq ever_revoked
    /\ ever_revoked \subseteq {x.jti : x \in issued}
    /\ work = [t \in Threads |-> work[t]]
    /\ \A t \in Threads : work[t] = Idle \/ work[t] \in Verification

----------------------------------------------------------------------------
(* Key ids only grow, and a retired key never comes back: what a file with *)
(* the keys b can hold later.                                              *)
Precedes(b, k) ==
    /\ \A j \in k \ b, i \in b : i < j
    /\ \A i \in b : \E j \in k : i <= j

(* The active key is the newest, and the only one that tokens are issued   *)
(* under.                                                                  *)
Newest ==
    /\ \A k \in file.keys : k <= file.active
    /\ \A x \in issued : x.kid <= file.active

(* A server's keyring is the file as it was not before its stamp.          *)
Current(s) ==
    /\ authority[s].up = "up"
    /\ Precedes(authority[s].keys, file.keys)
    /\ authority[s].stamp <= file.stamp
    /\ authority[s].stamp = file.stamp => authority[s].keys = file.keys

(* What a verification saw of the file is not newer than what its server   *)
(* holds when it looks the key up.                                         *)
Saw(t) ==
    /\ work[t].stamp <= file.stamp
    /\ Precedes(work[t].before, file.keys)
    /\ \E b \in work[t].before : work[t].token.kid <= b
    /\ work[t].pc = "lookup" /\ server[t] \notin Starting =>
         Precedes(work[t].before, authority[server[t]].keys)

KeysInv ==
    /\ Typed /\ Newest
    /\ \A s \in Servers \ Starting : Current(s)
    /\ \A t \in Threads : work[t] # Idle => Saw(t)

(* A token has an id of its own; the store remembers a revocation for as   *)
(* long as the token can be accepted, and an accepting verification asks   *)
(* within that time.                                                       *)
Remembered ==
    /\ \A x \in issued : x.jti <= Cardinality(issued)
    /\ \A x \in issued :
         x.jti \in ever_revoked /\ clock <= x.exp + PruneGrace => x.jti \in revoked
    /\ \A t \in Threads : work[t].pc = "revocation" => clock <= work[t].token.exp + PruneGrace
    /\ RevokedStaysOut

RevInv == Typed /\ Remembered

----------------------------------------------------------------------------
(* Nothing in the file, nor in what the servers hold, leaves the type.     *)
LEMMA TypedSteps ==
    ASSUME Typed, [Next]_vars
    PROVE  Typed' /\ issued \subseteq issued' /\ ever_revoked \subseteq ever_revoked'
<1>1. MaxTTL \in Nat /\ RevokeTTL \in Nat /\ MaxKeys \in Nat
  BY Setup
<1>2. ASSUME issued \subseteq issued', ever_revoked \subseteq ever_revoked', UNCHANGED work
      PROVE  /\ work' = [t \in Threads |-> work'[t]]
             /\ \A t \in Threads : work'[t] = Idle \/ work'[t] \in Verification'
  <2>1. Verification \subseteq Verification'
    BY <1>2 DEF Verification
  <2> QED BY <1>2, <2>1 DEF Typed
<1>3. ASSUME UNCHANGED <<clock, file, authority, issued, revoked, ever_revoked>>,
             NEW t \in Threads, NEW v, work' = [work EXCEPT ![t] = v],
             v = Idle \/ v \in Verification
      PROVE  Typed'
  <2>1. Verification' = Verification
    BY <1>3 DEF Verification
  <2>2. work' = [u \in Threads |-> IF u = t THEN v ELSE work[u]]
    BY <1>3 DEF Typed
  <2> QED BY <1>3, <2>1, <2>2 DEF Typed
<1>4. CASE rotate \/ \E kid \in Kids : retire(kid)
  <2>1. UNCHANGED <<clock, authority, issued, revoked, ever_revoked, work>>
    BY <1>4 DEF rotate, retire
  <2>2. file \in [stamp: Nat, keys: SUBSET Kids, active: Kids] /\ file.active \in file.keys
    BY DEF Typed
  <2>3. file' \in [stamp: Nat, keys: SUBSET Kids, active: Kids] /\ file'.active \in file'.keys
    <3>1. CASE rotate
      <4>1. file.active + 1 \in Kids /\ file.stamp + 1 \in Nat
        BY <1>1, <2>2, <3>1 DEF rotate, Kids
      <4> QED BY <2>2, <3>1, <4>1 DEF rotate
    <3>2. CASE \E kid \in Kids : retire(kid)
      <4>1. PICK kid \in Kids : retire(kid)
        BY <3>2
      <4>2. file' = [stamp |-> file.stamp + 1, keys |-> file.keys \ {kid}, active |-> file.active]
        BY <2>2, <4>1 DEF retire
      <4>3. file.active \in file.keys \ {kid} /\ file.stamp + 1 \in Nat
        BY <2>2, <4>1 DEF retire
      <4> QED BY <2>2, <4>2, <4>3
    <3> QED BY <1>4, <3>1, <3>2
  <2> QED BY <1>2, <2>1, <2>3 DEF Typed
<1>5. CASE \E s \in Servers : LoadKeyring(s) \/ TakeStamp(s)
  <2>1. UNCHANGED <<clock, file, issued, revoked, ever_revoked, work>>
    BY <1>5 DEF LoadKeyring, TakeStamp
  <2>2. authority' \in [Servers -> [up: {"down", "loaded", "up"}, keys: SUBSET Kids, stamp: Nat]]
    BY <1>5 DEF LoadKeyring, TakeStamp, Typed
  <2> QED BY <1>2, <2>1, <2>2 DEF Typed
<1>6. CASE \E ttl \in 1..MaxTTL + 1, iat \in clock..clock + 1, b \in Workloads \cup {Unbound} :
              issue(ttl, iat, b)
  <2>1. PICK ttl \in 1..MaxTTL + 1, iat \in clock..clock + 1, b \in Workloads \cup {Unbound} :
              issue(ttl, iat, b)
    BY <1>6
  <2> DEFINE x == [jti |-> Cardinality(issued) + 1, kid |-> file.active, iat |-> iat,
                   exp |-> iat + ttl, binding |-> b]
  <2>2. issued' = issued \cup {x} /\ UNCHANGED <<clock, file, authority, revoked, ever_revoked, work>>
    BY <2>1 DEF issue
  <2>3. Cardinality(issued) \in Nat
    BY FS_CardinalityType DEF Typed
  <2>4. x \in Token
    BY <1>1, <2>3 DEF Token, Typed
  <2> HIDE DEF x
  <2>5. issued' \subseteq Token /\ IsFiniteSet(issued') /\ issued \subseteq issued'
    BY <2>2, <2>4, FS_AddElement DEF Typed
  <2>6. ever_revoked' \subseteq {y.jti : y \in issued'}
    BY <2>2, <2>5 DEF Typed
  <2> QED BY <1>2, <2>2, <2>5, <2>6 DEF Typed
<1>7. CASE \E t \in Threads : \E token \in issued, w \in Workloads \cup {NoWorkload} :
              BeginVerify(t, token, w)
  <2>1. PICK t \in Threads, token \in issued, w \in Workloads \cup {NoWorkload} :
              BeginVerify(t, token, w)
    BY <1>7
  <2>2. PICK p \in Pcs : work' = [work EXCEPT ![t] =
                [pc |-> p, token |-> token, workload |-> w, stamp |-> file.stamp,
                 before |-> file.keys, gone |-> ever_revoked]]
    BY <2>1 DEF BeginVerify, Pcs
  <2>3. UNCHANGED <<clock, file, authority, issued, revoked, ever_revoked>>
    BY <2>1 DEF BeginVerify
  <2>4. [pc |-> p, token |-> token, workload |-> w, stamp |-> file.stamp,
                 before |-> file.keys, gone |-> ever_revoked] \in Verification
    BY DEF Verification, Typed
  <2> QED BY <1>3, <2>2, <2>3, <2>4
<1>8. CASE \E t \in Threads : Lookup(t) \/ CheckRevoked(t) \/ EndVerify(t)
  <2>1. PICK t \in Threads : Lookup(t) \/ CheckRevoked(t) \/ EndVerify(t)
    BY <1>8
  <2>2. UNCHANGED <<clock, file, authority, issued, revoked, ever_revoked>>
    BY <2>1 DEF Lookup, CheckRevoked, EndVerify
  <2>3. work[t] \in Verification
    BY <2>1 DEF Typed, Lookup, CheckRevoked, EndVerify, Idle
  <2>4. \A p \in Pcs : [work[t] EXCEPT !.pc = p] \in Verification
    BY <2>3 DEF Verification
  <2>5. PICK v : work' = [work EXCEPT ![t] = v] /\ (v = Idle \/ \E p \in Pcs : v = [work[t] EXCEPT !.pc = p])
    BY <2>1 DEF Lookup, CheckRevoked, EndVerify, Pcs
  <2> QED BY <1>3, <2>2, <2>4, <2>5
<1>9. CASE \E t \in Threads : Reload(t)
  <2>1. PICK t \in Threads : Reload(t)
    BY <1>9
  <2>2. work[t] \in Verification
    BY <2>1 DEF Typed, Reload, Idle
  <2>3. /\ UNCHANGED <<clock, file, issued, revoked, ever_revoked>>
        /\ work' = [work EXCEPT ![t] = [work[t] EXCEPT !.pc = "lookup"]]
        /\ authority' = [authority EXCEPT ![server[t]].keys = file.keys,
                                          ![server[t]].stamp = work[t].stamp]
    BY <2>1 DEF Reload
  <2>4. [work[t] EXCEPT !.pc = "lookup"] \in Verification' /\ Verification' = Verification
    BY <2>2, <2>3 DEF Verification, Pcs
  <2>5. work' = [u \in Threads |-> IF u = t THEN [work[t] EXCEPT !.pc = "lookup"] ELSE work[u]]
    BY <2>3 DEF Typed
  <2>6. authority' \in [Servers -> [up: {"down", "loaded", "up"}, keys: SUBSET Kids, stamp: Nat]]
    BY <2>2, <2>3 DEF Typed, Verification, Servers
  <2> QED BY <2>3, <2>4, <2>5, <2>6 DEF Typed
<1>10. CASE \E token \in issued : revoke(token)
  <2>1. PICK token \in issued : revoke(token)
    BY <1>10
  <2>2. /\ UNCHANGED <<clock, file, authority, issued, work>>
        /\ ever_revoked' = ever_revoked \cup {token.jti} /\ revoked' = revoked \cup {token.jti}
    BY <2>1 DEF revoke
  <2>3. revoked' \subseteq ever_revoked' /\ ever_revoked' \subseteq {y.jti : y \in issued'}
    BY <2>1, <2>2 DEF Typed
  <2> QED BY <1>2, <2>2, <2>3 DEF Typed
<1>11. CASE prune \/ Tick \/ UNCHANGED vars
  <2>1. /\ UNCHANGED <<file, authority, issued, ever_revoked, work>>
        /\ revoked' \subseteq revoked
        /\ clock' \in {clock, clock + 1}
    BY <1>11 DEF prune, Tick, vars
  <2> QED BY <1>2, <2>1 DEF Typed
<1>12. issued \subseteq issued' /\ ever_revoked \subseteq ever_revoked'
  BY DEF Next, rotate, retire, LoadKeyring, TakeStamp, issue, BeginVerify, Reload, Lookup,
         CheckRevoked, EndVerify, revoke, prune, Tick, vars
<1> QED BY <1>4, <1>5, <1>6, <1>7, <1>8, <1>9, <1>10, <1>11, <1>12 DEF Next

----------------------------------------------------------------------------
(* Precedes is an order on the states of the file: it is reflexive,        *)
LEMMA PrecedesItself ==
    ASSUME NEW b \in SUBSET Kids
    PROVE  Precedes(b, b)
  BY Setup DEF Precedes, Kids

(* and transitive.                                                         *)
LEMMA PrecedesTransitive ==
    ASSUME NEW a \in SUBSET Kids, NEW b \in SUBSET Kids, NEW c \in SUBSET Kids,
           Precedes(a, b), Precedes(b, c)
    PROVE  Precedes(a, c)
<1>1. Kids \subseteq Nat
  BY Setup DEF Kids
<1>2. ASSUME NEW j \in c \ a, NEW i \in a PROVE i < j
  <2>1. CASE j \in b
    BY <2>1 DEF Precedes
  <2>2. CASE j \notin b
    <3>1. PICK k \in b : i <= k
      BY DEF Precedes
    <3>2. k < j
      BY <2>2 DEF Precedes
    <3>3. i \in Nat /\ j \in Nat /\ k \in Nat
      BY <1>1
    <3> QED BY <3>1, <3>2, <3>3
  <2> QED BY <2>1, <2>2
<1>3. ASSUME NEW i \in a PROVE \E j \in c : i <= j
  <2>1. PICK k \in b : i <= k
    BY DEF Precedes
  <2>2. PICK j \in c : k <= j
    BY DEF Precedes
  <2>3. i \in Nat /\ j \in Nat /\ k \in Nat
    BY <1>1
  <2> QED BY <2>1, <2>2, <2>3
<1> QED BY <1>2, <1>3 DEF Precedes

(* The shape of the typed state that the steps below use.                  *)
LEMMA Shapes ==
    ASSUME Typed
    PROVE  /\ file.keys \in SUBSET Kids /\ file.active \in Kids /\ file.stamp \in Nat
           /\ file.active \in file.keys
           /\ \A s \in Servers : authority[s].keys \in SUBSET Kids /\ authority[s].stamp \in Nat
           /\ \A t \in Threads : work[t] # Idle =>
                /\ work[t].pc \in Pcs /\ work[t].stamp \in Nat /\ work[t].before \in SUBSET Kids
                /\ work[t].token \in issued /\ work[t].gone \subseteq ever_revoked
           /\ \A t \in Threads : work[t] = Idle => work[t].pc = "idle"
           /\ \A x \in issued : x.kid \in Kids /\ x.jti \in Nat /\ x.exp \in Nat
           /\ \A t \in Threads : server[t] \in Servers
           /\ Kids \subseteq Nat
<1>1. file.keys \in SUBSET Kids /\ file.active \in Kids /\ file.stamp \in Nat /\ file.active \in file.keys
  BY DEF Typed
<1>2. \A s \in Servers : authority[s].keys \in SUBSET Kids /\ authority[s].stamp \in Nat
  BY DEF Typed
<1>3. ASSUME NEW t \in Threads, work[t] # Idle
      PROVE  /\ work[t].pc \in Pcs /\ work[t].stamp \in Nat /\ work[t].before \in SUBSET Kids
             /\ work[t].token \in issued /\ work[t].gone \subseteq ever_revoked
  <2>1. work[t] \in Verification
    BY <1>3 DEF Typed
  <2> QED BY <2>1 DEF Verification
<1>4. \A x \in issued : x.kid \in Kids /\ x.jti \in Nat /\ x.exp \in Nat
  BY DEF Typed, Token
<1>5. \A t \in Threads : server[t] \in Servers
  BY DEF Servers
<1>6. Kids \subseteq Nat
  BY Setup DEF Kids
<1>7. \A t \in Threads : work[t] = Idle => work[t].pc = "idle"
  BY DEF Idle
<1> QED BY <1>1, <1>2, <1>3, <1>4, <1>5, <1>6, <1>7

(* rotate and retire take the file to a later state.                       *)
LEMMA FileMoves ==
    ASSUME Typed, Newest, rotate \/ \E kid \in Kids : retire(kid)
    PROVE  /\ Precedes(file.keys, file'.keys) /\ Newest'
           /\ file'.stamp = file.stamp + 1
           /\ UNCHANGED <<authority, issued, work>>
<1>1. file \in [stamp: Nat, keys: SUBSET Kids, active: Kids] /\ file.active \in file.keys
  BY DEF Typed
<1>2. /\ Kids \subseteq Nat /\ \A k \in file.keys : k <= file.active /\ k \in Nat
      /\ \A x \in issued : x.kid <= file.active /\ x.kid \in Nat
      /\ file.active \in Nat
  BY Shapes DEF Newest
<1>3. CASE rotate
  <2>1. /\ file'.keys = file.keys \cup {file.active + 1} /\ file'.active = file.active + 1
        /\ file'.stamp = file.stamp + 1 /\ UNCHANGED <<authority, issued, work>>
    BY <1>3 DEF rotate
  <2>2. Precedes(file.keys, file'.keys)
    BY <1>1, <1>2, <2>1 DEF Precedes
  <2>3. Newest'
    <3>1. \A k \in file'.keys : k <= file.active + 1
      BY <1>2, <2>1
    <3>2. \A x \in issued : x.kid <= file.active + 1
      BY <1>2
    <3> QED BY <2>1, <3>1, <3>2 DEF Newest
  <2> QED BY <2>1, <2>2, <2>3
<1>4. CASE \E kid \in Kids : retire(kid)
  <2>1. PICK kid \in Kids : retire(kid)
    BY <1>4
  <2>2. /\ file'.keys = file.keys \ {kid} /\ file'.active = file.active /\ kid # file.active
        /\ file'.stamp = file.stamp + 1 /\ UNCHANGED <<authority, issued, work>>
    BY <1>1, <2>1 DEF retire
  <2>3. Precedes(file.keys, file'.keys)
    BY <1>1, <1>2, <2>2 DEF Precedes
  <2>4. Newest'
    BY <1>2, <2>2 DEF Newest
  <2> QED BY <2>2, <2>3, <2>4
<1> QED BY <1>3, <1>4

(* Every step keeps what the servers and the verifications hold of the     *)
(* file in the order it was read in.                                       *)
LEMMA KeysSteps ==
    ASSUME KeysInv, [Next]_vars
    PROVE  KeysInv'
<1>1. Typed /\ Typed' /\ Newest
  BY TypedSteps DEF KeysInv
<1> USE Shapes, <1>1
<1>2. \A t \in Threads : work[t] # Idle => Saw(t)
  BY DEF KeysInv
<1>3. \A s \in Servers \ Starting : Current(s)
  BY DEF KeysInv
<1>4. CASE rotate \/ \E kid \in Kids : retire(kid)
  <2>1. /\ Precedes(file.keys, file'.keys) /\ Newest' /\ file'.stamp = file.stamp + 1
        /\ UNCHANGED <<authority, issued, work>> /\ file'.keys \in SUBSET Kids
    <3>1. file'.keys \in SUBSET Kids
      BY DEF Typed
    <3> QED BY <1>4, <3>1, FileMoves
  <2>2. ASSUME NEW s \in Servers \ Starting PROVE Current(s)'
    <3>1. Current(s)
      BY <1>3
    <3>2. Precedes(authority[s].keys, file'.keys)
      BY <2>1, <3>1, PrecedesTransitive DEF Current
    <3>3. authority[s].stamp < file'.stamp
      BY <2>1, <3>1 DEF Current
    <3> QED BY <2>1, <3>1, <3>2, <3>3 DEF Current, Precedes
  <2>3. ASSUME NEW t \in Threads, work'[t] # Idle PROVE Saw(t)'
    <3>1. Saw(t) /\ work[t] # Idle
      BY <1>2, <2>1, <2>3
    <3>2. Precedes(work[t].before, file'.keys)
      BY <2>1, <3>1, PrecedesTransitive DEF Saw
    <3>3. work[t].stamp <= file'.stamp
      BY <2>1, <3>1 DEF Saw
    <3> QED BY <2>1, <3>1, <3>2, <3>3 DEF Saw, Precedes
  <2> QED BY <2>1, <2>2, <2>3 DEF KeysInv
<1>5. CASE \E s \in Servers : LoadKeyring(s) \/ TakeStamp(s)
  <2>1. PICK r \in Servers : LoadKeyring(r) \/ TakeStamp(r)
    BY <1>5
  <2>2. r \in Starting
    BY <1>3, <2>1 DEF LoadKeyring, TakeStamp, Current
  <2>3. UNCHANGED <<file, issued, work>> /\ \A s \in Servers : s # r => authority'[s] = authority[s]
    BY <2>1 DEF LoadKeyring, TakeStamp, Typed
  <2>4. Newest'
    BY <2>3 DEF Newest
  <2>5. ASSUME NEW s \in Servers \ Starting PROVE Current(s)'
    BY <1>3, <2>2, <2>3 DEF Current, Precedes
  <2>6. ASSUME NEW t \in Threads, work'[t] # Idle PROVE Saw(t)'
    BY <1>2, <2>2, <2>3, <2>6 DEF Saw, Precedes
  <2> QED BY <2>4, <2>5, <2>6 DEF KeysInv
<1>6. CASE \E ttl \in 1..MaxTTL + 1, iat \in clock..clock + 1, b \in Workloads \cup {Unbound} :
              issue(ttl, iat, b)
  <2>1. UNCHANGED <<file, authority, work>>
        /\ \A x \in issued' : x \in issued \/ x.kid = file.active
    BY <1>6 DEF issue
  <2>2. Newest'
    BY <2>1 DEF Newest
  <2> QED BY <1>2, <1>3, <2>1, <2>2 DEF KeysInv, Current, Saw, Precedes
<1>7. CASE \E t \in Threads : \E token \in issued, w \in Workloads \cup {NoWorkload} :
              BeginVerify(t, token, w)
  <2>1. PICK t \in Threads, token \in issued, w \in Workloads \cup {NoWorkload} :
              BeginVerify(t, token, w)
    BY <1>7
  <2>2. /\ UNCHANGED <<file, authority, issued>>
        /\ \A u \in Threads : u # t => work'[u] = work[u]
        /\ work'[t].token = token /\ work'[t].stamp = file.stamp /\ work'[t].before = file.keys
        /\ work'[t].pc = "lookup" => authority[server[t]].stamp = file.stamp
    BY <2>1 DEF BeginVerify, Typed
  <2>3. Newest' /\ \A s \in Servers \ Starting : Current(s)'
    BY <1>3, <2>2 DEF Newest, Current, Precedes
  <2>4. Saw(t)'
    <3>1. token.kid <= file.active
      BY DEF Newest
    <3>2. Precedes(file.keys, file.keys)
      BY PrecedesItself
    <3>3. server[t] \notin Starting /\ work'[t].pc = "lookup" => authority[server[t]].keys = file.keys
      BY <1>3, <2>2 DEF Current
    <3> QED BY <2>2, <3>1, <3>2, <3>3 DEF Saw, Precedes
  <2>5. ASSUME NEW u \in Threads, u # t, work'[u] # Idle PROVE Saw(u)'
    BY <1>2, <2>2, <2>5 DEF Saw, Precedes
  <2> QED BY <2>3, <2>4, <2>5 DEF KeysInv
<1>8. CASE \E t \in Threads : Lookup(t) \/ CheckRevoked(t) \/ EndVerify(t)
  <2>1. PICK t \in Threads : Lookup(t) \/ CheckRevoked(t) \/ EndVerify(t)
    BY <1>8
  <2>2. work[t] # Idle
    BY <2>1 DEF Lookup, CheckRevoked, EndVerify, Idle
  <2>3. /\ UNCHANGED <<file, authority, issued>>
        /\ \A u \in Threads : u # t => work'[u] = work[u]
        /\ work'[t] = Idle \/ \E p \in Pcs \ {"lookup"} : work'[t] = [work[t] EXCEPT !.pc = p]
    <3>1. \E v \in {Idle} \cup {[work[t] EXCEPT !.pc = p] : p \in Pcs \ {"lookup"}} :
             work' = [work EXCEPT ![t] = v]
      <4>1. {"unknown_key", "revocation", "accepted"} \subseteq Pcs \ {"lookup"}
        BY DEF Pcs
      <4>2. CASE Lookup(t)
        BY <4>1, <4>2 DEF Lookup
      <4>3. CASE CheckRevoked(t)
        BY <4>1, <4>3 DEF CheckRevoked
      <4>4. CASE EndVerify(t)
        BY <4>4 DEF EndVerify
      <4> QED BY <2>1, <4>2, <4>3, <4>4
    <3>2. UNCHANGED <<file, authority, issued>>
      BY <2>1 DEF Lookup, CheckRevoked, EndVerify
    <3> QED BY <3>1, <3>2 DEF Typed
  <2>4. Newest' /\ \A s \in Servers \ Starting : Current(s)'
    BY <1>3, <2>3 DEF Newest, Current, Precedes
  <2>5. ASSUME work'[t] # Idle PROVE Saw(t)'
    <3>1. PICK p \in Pcs \ {"lookup"} : work'[t] = [work[t] EXCEPT !.pc = p]
      BY <2>3, <2>5
    <3>2. work[t] \in Verification
      BY <2>2 DEF Typed
    <3>3. work'[t].stamp = work[t].stamp /\ work'[t].before = work[t].before
          /\ work'[t].token = work[t].token /\ work'[t].pc # "lookup"
      BY <3>1, <3>2 DEF Verification
    <3> QED BY <1>2, <2>2, <2>3, <3>3 DEF Saw, Precedes
  <2>6. ASSUME NEW u \in Threads, u # t, work'[u] # Idle PROVE Saw(u)'
    BY <1>2, <2>3, <2>6 DEF Saw, Precedes
  <2> QED BY <2>4, <2>5, <2>6 DEF KeysInv
<1>9. CASE \E t \in Threads : Reload(t)
  <2>1. PICK t \in Threads : Reload(t)
    BY <1>9
  <2>2. work[t] # Idle /\ Saw(t)
    BY <1>2, <2>1 DEF Reload, Idle
  <2>3. /\ UNCHANGED <<file, issued>>
        /\ \A u \in Threads : u # t => work'[u] = work[u]
        /\ work'[t].token = work[t].token /\ work'[t].stamp = work[t].stamp
        /\ work'[t].before = work[t].before
        /\ authority'[server[t]].keys = file.keys /\ authority'[server[t]].stamp = work[t].stamp
        /\ authority'[server[t]].up = authority[server[t]].up
        /\ \A s \in Servers : s # server[t] => authority'[s] = authority[s]
    <3>1. work[t] \in Verification
      BY <2>2 DEF Typed
    <3> QED BY <2>1, <3>1 DEF Reload, Typed, Verification
  <2>4. Newest'
    BY <2>3 DEF Newest
  <2>5. ASSUME NEW s \in Servers \ Starting PROVE Current(s)'
    <3>1. CASE s = server[t]
      <4>1. Precedes(file.keys, file.keys)
        BY PrecedesItself
      <4> QED BY <1>3, <2>2, <2>3, <3>1, <4>1 DEF Current, Saw, Precedes
    <3>2. CASE s # server[t]
      BY <1>3, <2>3, <3>2 DEF Current, Precedes
    <3> QED BY <3>1, <3>2
  <2>6. ASSUME NEW u \in Threads, work'[u] # Idle PROVE Saw(u)'
    <3>1. /\ work[u] # Idle /\ Saw(u)
          /\ work'[u].token = work[u].token /\ work'[u].stamp = work[u].stamp
          /\ work'[u].before = work[u].before
      BY <1>2, <2>2, <2>3, <2>6
    <3>2. CASE server[u] = server[t]
      BY <2>3, <3>1, <3>2 DEF Saw, Precedes
    <3>3. CASE server[u] # server[t]
      BY <2>3, <3>1, <3>3 DEF Saw, Precedes
    <3> QED BY <3>2, <3>3
  <2> QED BY <2>4, <2>5, <2>6 DEF KeysInv
<1>10. CASE (\E token \in issued : revoke(token)) \/ prune \/ Tick \/ UNCHANGED vars
  <2>1. UNCHANGED <<file, authority, issued, work>>
    BY <1>10 DEF revoke, prune, Tick, vars
  <2> QED BY <1>2, <1>3, <2>1 DEF KeysInv, Newest, Current, Saw, Precedes
<1> QED BY <1>4, <1>5, <1>6, <1>7, <1>8, <1>9, <1>10 DEF Next

(* The initial state.                                                      *)
LEMMA Start == ASSUME Init PROVE KeysInv /\ RevInv
<1>1. 1 \in Kids /\ {1} \in SUBSET Kids
  BY Setup DEF Kids
<1>2. /\ clock = 0 /\ file = [stamp |-> 1, keys |-> {1}, active |-> 1]
      /\ issued = {} /\ revoked = {} /\ ever_revoked = {}
      /\ work = [t \in Threads |-> Idle]
      /\ authority = [s \in Servers |->
            IF s \in Starting THEN [up |-> "down", keys |-> {}, stamp |-> 0]
                              ELSE [up |-> "up", keys |-> {1}, stamp |-> 1]]
  BY DEF Init
<1>3. Typed
  <2>1. IsFiniteSet(issued)
    BY <1>2, FS_EmptySet
  <2>2. authority \in [Servers -> [up: {"down", "loaded", "up"}, keys: SUBSET Kids, stamp: Nat]]
    BY <1>1, <1>2
  <2>3. file \in [stamp: Nat, keys: SUBSET Kids, active: Kids] /\ file.active \in file.keys
    BY <1>1, <1>2
  <2> QED BY <1>2, <2>1, <2>2, <2>3 DEF Typed
<1>4. Newest
  BY <1>2 DEF Newest
<1>5. ASSUME NEW s \in Servers \ Starting PROVE Current(s)
  BY <1>2 DEF Current, Precedes
<1>6. KeysInv
  BY <1>2, <1>3, <1>4, <1>5 DEF KeysInv
<1>7. Remembered
  BY <1>2 DEF Remembered, RevokedStaysOut, Idle
<1> QED BY <1>3, <1>6, <1>7 DEF RevInv

(* A server's keyring is always one the file held since its stamp, and the *)
(* one a verification looks its key up in one the file held since that     *)
(* verification began (_current_keyring).                                  *)
THEOREM KeyringsAreCurrent == Spec => []KeysInv
  BY Start, KeysSteps, PTL DEF Spec

(* Whether a token's key is known is decided by the file as it was during  *)
(* the verification, whatever other requests reload (_current_keyring).    *)
THEOREM RotationIsSeen == Spec => RotationNeedsNoRestart
<1>1. ASSUME KeysInv, [Next]_vars,
             NEW t \in Threads, server[t] \notin Starting, work[t].pc = "lookup", work'[t] # work[t]
      PROVE  IF work'[t].pc = "unknown_key"
                THEN work[t].token.kid \notin work[t].before \cap file.keys
                ELSE work[t].token.kid \in work[t].before \cup file.keys
  <2>1. Typed /\ work[t] # Idle /\ Saw(t) /\ Current(server[t])
    <3>1. Typed /\ server[t] \in Servers \ Starting
      BY <1>1, Shapes DEF KeysInv
    <3>2. work[t] # Idle
      BY <1>1 DEF Idle
    <3> QED BY <1>1, <3>1, <3>2 DEF KeysInv
  <2>2. ASSUME NEW u \in Threads, u # t,
               \/ \E token \in issued, w \in Workloads \cup {NoWorkload} : BeginVerify(u, token, w)
               \/ Reload(u) \/ Lookup(u) \/ CheckRevoked(u) \/ EndVerify(u)
        PROVE  FALSE
    BY <1>1, <2>1, <2>2 DEF BeginVerify, Reload, Lookup, CheckRevoked, EndVerify, Typed
  <2>3. ~(UNCHANGED work)
    BY <1>1
  <2>4. \/ \E token \in issued, w \in Workloads \cup {NoWorkload} : BeginVerify(t, token, w)
        \/ Reload(t) \/ Lookup(t) \/ CheckRevoked(t) \/ EndVerify(t)
    BY <1>1, <2>2, <2>3 DEF Next, rotate, retire, LoadKeyring, TakeStamp, issue, revoke, prune, Tick, vars
  <2>5. Lookup(t)
    BY <1>1, <2>1, <2>4 DEF BeginVerify, Reload, CheckRevoked, EndVerify, Idle
  <2>6. work'[t].pc = "unknown_key" <=> work[t].token.kid \notin authority[server[t]].keys
    <3>1. work[t] \in Verification /\ work' = [u \in Threads |-> IF u = t THEN work'[t] ELSE work[u]]
      BY <2>1, <2>5 DEF Typed, Lookup
    <3> QED BY <2>1, <2>5, <3>1 DEF Lookup, Verification, Idle, Typed
  <2>7. /\ Precedes(work[t].before, authority[server[t]].keys)
        /\ Precedes(authority[server[t]].keys, file.keys)
        /\ \E b \in work[t].before : work[t].token.kid <= b
    BY <1>1, <2>1 DEF Saw, Current
  <2>8. /\ work[t].before \subseteq Nat /\ authority[server[t]].keys \subseteq Nat
        /\ file.keys \subseteq Nat /\ work[t].token.kid \in Nat
    BY <2>1, Shapes
  <2>9. ASSUME work[t].token.kid \notin authority[server[t]].keys,
               work[t].token.kid \in work[t].before \cap file.keys
        PROVE  FALSE
    <3>1. PICK j \in authority[server[t]].keys : work[t].token.kid <= j
      BY <2>7, <2>9 DEF Precedes
    <3>2. j < work[t].token.kid
      BY <2>7, <2>9 DEF Precedes
    <3> QED BY <2>8, <3>1, <3>2
  <2>10. ASSUME work[t].token.kid \in authority[server[t]].keys,
                work[t].token.kid \notin work[t].before
         PROVE  FALSE
    <3>1. PICK b \in work[t].before : work[t].token.kid <= b
      BY <2>7
    <3>2. b < work[t].token.kid
      BY <2>7, <2>10 DEF Precedes
    <3> QED BY <2>8, <3>1, <3>2
  <2> QED BY <2>6, <2>9, <2>10
<1>2. KeysInv /\ [Next]_vars =>
        [\A t \in Threads :
          server[t] \notin Starting /\ work[t].pc = "lookup" /\ work'[t] # work[t] =>
            IF work'[t].pc = "unknown_key"
                THEN work[t].token.kid \notin work[t].before \cap file.keys
                ELSE work[t].token.kid \in work[t].before \cup file.keys]_vars
  BY <1>1
<1> QED BY <1>2, KeyringsAreCurrent, PTL DEF Spec, RotationNeedsNoRestart

----------------------------------------------------------------------------
(* Every step keeps the memory of revocations.                             *)
LEMMA RevSteps ==
    ASSUME RevInv, [Next]_vars
    PROVE  RevInv'
<1>1. Typed /\ Typed' /\ Remembered
  BY TypedSteps DEF RevInv
<1>2. /\ clock \in Nat /\ PruneGrace \in Nat /\ revoked \subseteq ever_revoked
      /\ \A x \in issued : x.jti \in Nat /\ x.exp \in Nat
      /\ \A t \in Threads : work[t].pc # "idle" =>
           work[t] \in Verification /\ work[t].token \in issued /\ work[t].gone \subseteq ever_revoked
      /\ work = [t \in Threads |-> work[t]]
  BY <1>1, Shapes, Setup DEF Typed, Idle
<1>3. ASSUME NEW t \in Threads, work[t].pc = "revocation"
      PROVE  /\ clock <= work[t].token.exp + PruneGrace /\ work[t].token \in issued
             /\ work[t].token.jti \in work[t].gone => work[t].token.jti \in revoked
  BY <1>1, <1>2, <1>3 DEF Remembered
<1>4. CASE \/ rotate \/ \E kid \in Kids : retire(kid)
           \/ \E s \in Servers : LoadKeyring(s) \/ TakeStamp(s)
           \/ UNCHANGED vars
  <2>1. UNCHANGED <<clock, issued, revoked, ever_revoked, work>>
    BY <1>4 DEF rotate, retire, LoadKeyring, TakeStamp, vars
  <2> QED BY <1>1, <2>1 DEF RevInv, Remembered, RevokedStaysOut
<1>5. CASE \E ttl \in 1..MaxTTL + 1, iat \in clock..clock + 1, b \in Workloads \cup {Unbound} :
              issue(ttl, iat, b)
  <2>1. PICK x : issued' = issued \cup {x} /\ x.jti = Cardinality(issued) + 1
    <3>1. PICK ttl \in 1..MaxTTL + 1, iat \in clock..clock + 1, b \in Workloads \cup {Unbound} :
              issue(ttl, iat, b)
      BY <1>5
    <3> DEFINE y == [jti |-> Cardinality(issued) + 1, kid |-> file.active, iat |-> iat,
                     exp |-> iat + ttl, binding |-> b]
    <3>2. issued' = issued \cup {y} /\ y.jti = Cardinality(issued) + 1
      BY <3>1 DEF issue
    <3> QED BY <3>2
  <2>2. UNCHANGED <<clock, revoked, ever_revoked, work>>
    BY <1>5 DEF issue
  <2>3. /\ Cardinality(issued) \in Nat /\ \A y \in issued : y.jti <= Cardinality(issued)
        /\ IsFiniteSet(issued)
    BY <1>1, FS_CardinalityType DEF Typed, Remembered
  <2>4. x \notin issued
    BY <1>2, <2>1, <2>3
  <2>5. Cardinality(issued') = Cardinality(issued) + 1
    BY <2>1, <2>3, <2>4, FS_AddElement
  <2>6. \A y \in issued' : y.jti <= Cardinality(issued')
    BY <1>2, <2>1, <2>3, <2>5
  <2>7. x.jti \notin ever_revoked
    <3>1. \A j \in ever_revoked : j \in Nat /\ j <= Cardinality(issued)
      BY <1>1, <1>2, <2>3 DEF Typed
    <3> QED BY <2>1, <2>3, <3>1
  <2>8. \A y \in issued' :
          y.jti \in ever_revoked /\ clock <= y.exp + PruneGrace => y.jti \in revoked
    <3>1. \A y \in issued : y.jti \in ever_revoked /\ clock <= y.exp + PruneGrace => y.jti \in revoked
      BY <1>1 DEF Remembered
    <3> QED BY <2>1, <2>7, <3>1
  <2> QED BY <1>1, <2>2, <2>6, <2>8 DEF RevInv, Remembered, RevokedStaysOut
<1>6. CASE \E t \in Threads :
              \/ \E token \in issued, w \in Workloads \cup {NoWorkload} : BeginVerify(t, token, w)
              \/ Reload(t) \/ Lookup(t) \/ CheckRevoked(t) \/ EndVerify(t)
  <2>1. PICK t \in Threads :
              \/ \E token \in issued, w \in Workloads \cup {NoWorkload} : BeginVerify(t, token, w)
              \/ Reload(t) \/ Lookup(t) \/ CheckRevoked(t) \/ EndVerify(t)
    BY <1>6
  <2>2. /\ UNCHANGED <<clock, issued, revoked, ever_revoked>>
        /\ \A u \in Threads : u # t => work'[u] = work[u]
    BY <1>2, <2>1 DEF BeginVerify, Reload, Lookup, CheckRevoked, EndVerify
  <2>3. ASSUME work'[t].pc = "revocation"
        PROVE  clock <= work'[t].token.exp + PruneGrace
    <3>1. CASE Lookup(t)
      <4>1. work[t] \in Verification /\ work[t].token \in issued
        BY <1>2, <3>1 DEF Lookup
      <4>2. /\ work'[t] = [work[t] EXCEPT !.pc = "revocation"]
            /\ in_time(work[t].token, clock, MaxTTL)
        BY <1>2, <2>3, <3>1, <4>1 DEF Lookup, Idle, Verification
      <4>3. work'[t].token = work[t].token
        BY <4>1, <4>2 DEF Verification
      <4>4. clock < work[t].token.exp
        BY <4>2 DEF in_time
      <4> QED BY <1>2, <4>1, <4>3, <4>4
    <3>2. CASE ~Lookup(t)
      <4>1. work'[t].pc # "revocation"
        <5>1. CASE \E token \in issued, w \in Workloads \cup {NoWorkload} : BeginVerify(t, token, w)
          BY <1>2, <5>1 DEF BeginVerify
        <5>2. CASE Reload(t)
          <6>1. work[t] \in Verification
            BY <1>2, <5>2 DEF Reload
          <6> QED BY <1>2, <5>2, <6>1 DEF Reload, Verification
        <5>3. CASE CheckRevoked(t)
          <6>1. work[t] \in Verification
            BY <1>2, <5>3 DEF CheckRevoked
          <6> QED BY <1>2, <5>3, <6>1 DEF CheckRevoked, Verification, Idle
        <5>4. CASE EndVerify(t)
          BY <1>2, <5>4 DEF EndVerify, Idle
        <5> QED BY <2>1, <3>2, <5>1, <5>2, <5>3, <5>4
      <4> QED BY <2>3, <4>1
    <3> QED BY <3>1, <3>2
  <2>4. ASSUME work'[t].pc = "accepted"
        PROVE  work'[t].token.jti \notin work'[t].gone
    <3>1. CASE CheckRevoked(t)
      <4>1. work[t] \in Verification /\ work[t].pc = "revocation"
        BY <1>2, <3>1 DEF CheckRevoked
      <4>2. work'[t] = [work[t] EXCEPT !.pc = "accepted"] /\ work[t].token.jti \notin revoked
        BY <1>2, <2>4, <3>1, <4>1 DEF CheckRevoked, Idle, Verification
      <4>3. work'[t].token = work[t].token /\ work'[t].gone = work[t].gone
        BY <4>1, <4>2 DEF Verification
      <4> QED BY <1>3, <4>1, <4>2, <4>3
    <3>2. CASE ~CheckRevoked(t)
      <4>1. work'[t].pc # "accepted"
        <5>1. CASE \E token \in issued, w \in Workloads \cup {NoWorkload} : BeginVerify(t, token, w)
          BY <1>2, <5>1 DEF BeginVerify
        <5>2. CASE Reload(t)
          <6>1. work[t] \in Verification
            BY <1>2, <5>2 DEF Reload
          <6> QED BY <1>2, <5>2, <6>1 DEF Reload, Verification
        <5>3. CASE Lookup(t)
          <6>1. work[t] \in Verification
            BY <1>2, <5>3 DEF Lookup
          <6> QED BY <1>2, <5>3, <6>1 DEF Lookup, Verification, Idle
        <5>4. CASE EndVerify(t)
          BY <1>2, <5>4 DEF EndVerify, Idle
        <5> QED BY <2>1, <3>2, <5>1, <5>2, <5>3, <5>4
      <4> QED BY <2>4, <4>1
    <3> QED BY <3>1, <3>2
  <2>5. ASSUME NEW u \in Threads
        PROVE  /\ work'[u].pc = "revocation" => clock <= work'[u].token.exp + PruneGrace
               /\ work'[u].pc = "accepted" => work'[u].token.jti \notin work'[u].gone
    BY <1>1, <2>2, <2>3, <2>4 DEF Remembered, RevokedStaysOut
  <2> QED BY <1>1, <2>2, <2>5 DEF RevInv, Remembered, RevokedStaysOut
<1>7. CASE \E token \in issued : revoke(token)
  <2>1. /\ UNCHANGED <<clock, issued, work>>
        /\ \E j : ever_revoked' = ever_revoked \cup {j} /\ revoked' = revoked \cup {j}
    BY <1>7 DEF revoke
  <2> QED BY <1>1, <2>1 DEF RevInv, Remembered, RevokedStaysOut
<1>8. CASE prune
  <2>1. UNCHANGED <<clock, issued, ever_revoked, work>>
        /\ revoked' = {j \in revoked : \E x \in issued : x.jti = j /\ ~(x.exp + PruneGrace < clock)}
    BY <1>8 DEF prune
  <2>2. ASSUME NEW x \in issued, x.jti \in ever_revoked, clock <= x.exp + PruneGrace
        PROVE  x.jti \in revoked'
    <3>1. x.jti \in revoked /\ ~(x.exp + PruneGrace < clock)
      BY <1>1, <1>2, <2>2 DEF Remembered
    <3> QED BY <2>1, <3>1
  <2> QED BY <1>1, <2>1, <2>2 DEF RevInv, Remembered, RevokedStaysOut
<1>9. CASE Tick
  <2>1. UNCHANGED <<issued, revoked, ever_revoked, work>> /\ clock' = clock + 1 /\ VerifyIsPrompt
    BY <1>9 DEF Tick
  <2>2. \A t \in Threads : work'[t].pc = "revocation" => clock' <= work'[t].token.exp + PruneGrace
    BY <2>1 DEF VerifyIsPrompt
  <2>3. ASSUME NEW x \in issued, x.jti \in ever_revoked, clock + 1 <= x.exp + PruneGrace
        PROVE  x.jti \in revoked
    BY <1>1, <1>2, <2>3 DEF Remembered
  <2> QED BY <1>1, <2>1, <2>2, <2>3 DEF RevInv, Remembered, RevokedStaysOut
<1> QED BY <1>4, <1>5, <1>6, <1>7, <1>8, <1>9 DEF Next

(* No verification accepts a token that was revoked before it began, on    *)
(* any server, whatever prune forgets (verify, revoke, prune).             *)
THEOREM RevocationHolds == Spec => []RevokedStaysOut
<1>1. RevInv => RevokedStaysOut
  BY DEF RevInv, Remembered
<1> QED BY <1>1, Start, RevSteps, PTL DEF Spec

(* The state keeps its types (the constructors and steps of identity.py).  *)
THEOREM IdentityTypes == Spec => []TypeOK
<1>1. KeysInv => TypeOK
  BY Shapes DEF KeysInv, Typed, TypeOK
<1> QED BY <1>1, KeyringsAreCurrent, PTL

============================================================================
