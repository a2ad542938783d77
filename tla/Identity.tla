------------------------------ MODULE Identity ------------------------------
(***************************************************************************)
(* Credentials of the HTTP boundary (identity.py, and check_binding of     *)
(* workload.py): a keyring file that operators rotate, servers that reload *)
(* it when it changes, tokens, their verification by concurrent requests,  *)
(* and their revocation.                                                   *)
(*                                                                         *)
(* A token's signature is the key id it was signed under: a token that the *)
(* authority did not issue, or whose payload was altered, does not verify  *)
(* under any key and is not represented.                                   *)
(***************************************************************************)
EXTENDS Naturals, FiniteSets

CONSTANTS
    Threads,       \* request threads
    server,        \* thread -> the server process it belongs to
    Starting,      \* servers that are started while the model runs
    Workloads,     \* identities a transport can have verified
    NoWorkload,    \* no verified identity
    Unbound,       \* the binding of a token that has none
    MaxTTL,        \* max_ttl_seconds of the servers
    RevokeTTL,     \* max_ttl_seconds of "capgate token revoke"
    Leeway,        \* leeway_seconds
    PruneGrace,    \* how long past expiry prune keeps a revocation
    MaxKeys, MaxTokens, MaxTime    \* bounds

VARIABLES
    clock,
    file,          \* the keyring file: its stamp, keys and active key
    authority,     \* server -> whether it is up, its keyring, and its stamp
    issued,        \* tokens
    revoked,       \* the state store: ids of revoked tokens
    ever_revoked,  \* ids of tokens that were ever revoked
    work           \* thread -> the verification it is in

vars == <<clock, file, authority, issued, revoked, ever_revoked, work>>

Servers == {server[t] : t \in Threads}
Kids == 1..MaxKeys

Idle == [pc |-> "idle"]

ASSUME Setup ==
    /\ Starting \subseteq Servers
    /\ MaxTTL \in Nat \ {0} /\ RevokeTTL \in Nat \ {0}
    /\ Leeway \in Nat /\ PruneGrace \in Nat
    /\ MaxKeys \in Nat \ {0} /\ MaxTokens \in Nat /\ MaxTime \in Nat
    /\ NoWorkload \notin Workloads /\ Unbound \notin Workloads

(* Keyring.generate, by "capgate bootstrap" or the first keygen.           *)
Init ==
    /\ clock = 0
    /\ file = [stamp |-> 1, keys |-> {1}, active |-> 1]
    /\ authority = [s \in Servers |->
            IF s \in Starting THEN [up |-> "down", keys |-> {}, stamp |-> 0]
                              ELSE [up |-> "up", keys |-> {1}, stamp |-> 1]]
    /\ issued = {}
    /\ revoked = {} /\ ever_revoked = {}
    /\ work = [t \in Threads |-> Idle]

----------------------------------------------------------------------------
(* "capgate token keygen" on an existing keyring: load, rotate, save.      *)
rotate ==
    /\ file.active < MaxKeys
    /\ file' = [stamp |-> file.stamp + 1, keys |-> file.keys \cup {file.active + 1},
                active |-> file.active + 1]
    /\ UNCHANGED <<clock, authority, issued, revoked, ever_revoked, work>>

(* "capgate token retire": load, retire, save.                             *)
retire(kid) ==
    /\ kid \in file.keys /\ kid # file.active
    /\ file' = [file EXCEPT !.stamp = @ + 1, !.keys = @ \ {kid}]
    /\ UNCHANGED <<clock, authority, issued, revoked, ever_revoked, work>>

(* TokenAuthority.__init__ of a server: the file is loaded ...             *)
LoadKeyring(s) ==
    /\ authority[s].up = "down"
    /\ authority' = [authority EXCEPT ![s].up = "loaded", ![s].keys = file.keys]
    /\ UNCHANGED <<clock, file, issued, revoked, ever_revoked, work>>

(* ... and then its stamp is taken.                                        *)
TakeStamp(s) ==
    /\ authority[s].up = "loaded"
    /\ authority' = [authority EXCEPT ![s].up = "up", ![s].stamp = file.stamp]
    /\ UNCHANGED <<clock, file, issued, revoked, ever_revoked, work>>

(* issue, by "capgate token issue", with the file's active key.            *)
issue(ttl, iat, binding) ==
    /\ Cardinality(issued) < MaxTokens
    /\ issued' = issued \cup
         {[jti |-> Cardinality(issued) + 1, kid |-> file.active, iat |-> iat,
           exp |-> iat + ttl, binding |-> binding]}
    /\ UNCHANGED <<clock, file, authority, revoked, ever_revoked, work>>

----------------------------------------------------------------------------
(* workload.check_binding                                                  *)
check_binding(binding, presented) == binding = Unbound \/ binding = presented

(* What verify checks of a token whose signature is good, at time now.     *)
in_time(token, now, max_ttl) ==
    /\ token.iat <= now + Leeway
    /\ now < token.exp
    /\ token.exp - token.iat <= max_ttl

(* verify reaches _current_keyring and stats the file.  "before" and       *)
(* "gone" remember what the file and the store held at that moment.        *)
BeginVerify(t, token, workload) ==
    LET s == authority[server[t]]
    IN  /\ work[t] = Idle
        /\ s.up = "up"
        /\ work' = [work EXCEPT ![t] =
                [pc |-> IF s.stamp = file.stamp THEN "lookup" ELSE "reload",
                 token |-> token, workload |-> workload, stamp |-> file.stamp,
                 before |-> file.keys, gone |-> ever_revoked]]
        /\ UNCHANGED <<clock, file, authority, issued, revoked, ever_revoked>>

(* Mistake: the stamp is renewed and the keyring is not.                   *)
ReloadStamp(t) ==
    /\ work[t].pc = "reload"
    /\ authority' = [authority EXCEPT ![server[t]].stamp = work[t].stamp]
    /\ work' = [work EXCEPT ![t].pc = "lookup"]
    /\ UNCHANGED <<clock, file, issued, revoked, ever_revoked>>

(* _current_keyring under its lock: the file as it is now, under the stamp *)
(* it had at the stat.                                                     *)
Reload(t) ==
    /\ work[t].pc = "reload"
    /\ authority' = [authority EXCEPT ![server[t]].keys = file.keys,
                                      ![server[t]].stamp = work[t].stamp]
    /\ work' = [work EXCEPT ![t].pc = "lookup"]
    /\ UNCHANGED <<clock, file, issued, revoked, ever_revoked>>

(* The key, the signature, and the claims that need no store.              *)
Lookup(t) ==
    LET w == work[t]
    IN  /\ w.pc = "lookup"
        /\ work' = [work EXCEPT ![t] =
                IF w.token.kid \notin authority[server[t]].keys
                    THEN [w EXCEPT !.pc = "unknown_key"]
                ELSE IF ~in_time(w.token, clock, MaxTTL) THEN Idle
                ELSE [w EXCEPT !.pc = "revocation"]]
        /\ UNCHANGED <<clock, file, authority, issued, revoked, ever_revoked>>

(* is_revoked, and the binding.                                            *)
CheckRevoked(t) ==
    LET w == work[t]
    IN  /\ w.pc = "revocation"
        /\ work' = [work EXCEPT ![t] =
                IF w.token.jti \in revoked \/ ~check_binding(w.token.binding, w.workload)
                    THEN Idle ELSE [w EXCEPT !.pc = "accepted"]]
        /\ UNCHANGED <<clock, file, authority, issued, revoked, ever_revoked>>

(* The request is answered.                                                *)
EndVerify(t) ==
    /\ work[t].pc \in {"accepted", "unknown_key"}
    /\ work' = [work EXCEPT ![t] = Idle]
    /\ UNCHANGED <<clock, file, authority, issued, revoked, ever_revoked>>

(* revoke, by "capgate token revoke", which verifies the token first, with *)
(* a limit of its own on its life and presenting no workload: it refuses a *)
(* bound token, and one that lives longer than that limit.                 *)
CanRevoke(token) ==
    /\ token.kid \in file.keys
    /\ in_time(token, clock, RevokeTTL)
    /\ token.jti \notin revoked
    /\ check_binding(token.binding, NoWorkload)

revoke(token) ==
    /\ CanRevoke(token)
    /\ revoked' = revoked \cup {token.jti}
    /\ ever_revoked' = ever_revoked \cup {token.jti}
    /\ UNCHANGED <<clock, file, authority, issued, work>>

(* Mistake: the grace is added to the wrong side.                          *)
prune_early ==
    /\ revoked' = {j \in revoked : \E x \in issued : x.jti = j /\ ~(x.exp < clock + PruneGrace)}
    /\ revoked' # revoked
    /\ UNCHANGED <<clock, file, authority, issued, ever_revoked, work>>

(* StateStore.prune, of revocations.                                       *)
prune ==
    /\ revoked' = {j \in revoked : \E x \in issued : x.jti = j /\ ~(x.exp + PruneGrace < clock)}
    /\ revoked' # revoked
    /\ UNCHANGED <<clock, file, authority, issued, ever_revoked, work>>

(* Assumed of the environment: no verification waits for prune's grace (an *)
(* hour) between reading the clock and asking the store.                   *)
VerifyIsPrompt ==
    \A t \in Threads :
        work[t].pc = "revocation" => clock + 1 <= work[t].token.exp + PruneGrace

Tick ==
    /\ clock < MaxTime
    /\ VerifyIsPrompt
    /\ clock' = clock + 1
    /\ UNCHANGED <<file, authority, issued, revoked, ever_revoked, work>>

Next ==
    \/ rotate \/ \E kid \in Kids : retire(kid)
    \/ \E s \in Servers : LoadKeyring(s) \/ TakeStamp(s)
    \/ \E ttl \in 1..MaxTTL + 1, iat \in clock..clock + 1, b \in Workloads \cup {Unbound} :
            issue(ttl, iat, b)
    \/ \E t \in Threads :
         \/ \E token \in issued, w \in Workloads \cup {NoWorkload} : BeginVerify(t, token, w)
         \/ Reload(t) \/ Lookup(t) \/ CheckRevoked(t) \/ EndVerify(t)
    \/ \E token \in issued : revoke(token)
    \/ prune \/ Tick

Spec == Init /\ [][Next]_vars

----------------------------------------------------------------------------
(* Every key a server holds was once in the file, and every thread holds a *)
(* token that was issued.                                                  *)
TypeOK ==
    /\ clock \in Nat
    /\ file \in [stamp: Nat, keys: SUBSET Kids, active: Kids] /\ file.active \in file.keys
    /\ authority \in [Servers -> [up: {"down", "loaded", "up"}, keys: SUBSET Kids, stamp: Nat]]
    /\ revoked \subseteq ever_revoked
    /\ ever_revoked \subseteq {x.jti : x \in issued}
    /\ \A t \in Threads : work[t] # Idle => work[t].token \in issued

(* Rotation needs no restart: whether a token's key is known is decided by *)
(* the file, as it was at some moment of the verification, although        *)
(* requests stat and reload it concurrently (_current_keyring).  (A server *)
(* can miss a rotation in the middle of its own start: __init__ loads the  *)
(* file before it stats it.)                                               *)
RotationNeedsNoRestart ==
    [][\A t \in Threads :
          server[t] \notin Starting /\ work[t].pc = "lookup" /\ work'[t] # work[t] =>
            IF work'[t].pc = "unknown_key"
                THEN work[t].token.kid \notin work[t].before \cap file.keys
                ELSE work[t].token.kid \in work[t].before \cup file.keys]_vars

(* A token that was revoked before a verification began is not accepted by *)
(* it, although prune forgets revocations (verify, revoke, prune).         *)
RevokedStaysOut ==
    \A t \in Threads : work[t].pc = "accepted" => work[t].token.jti \notin work[t].gone
=============================================================================
