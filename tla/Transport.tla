----------------------------- MODULE Transport -----------------------------
(* From a client's socket to HarnessAPI.dispatch and back: the ASGI app    *)
(* (asgi.py) or the stdlib server (server.py), reached directly or through *)
(* the mTLS edge (mtlsedge.py).  A body is a number of pieces; a client    *)
(* sends them as it likes, stalls, or hangs up.  What dispatch does is     *)
(* opaque here: it takes a while, and a thread of the pool.  A socket of   *)
(* Python's ssl that listens shakes hands inside accept.                   *)
EXTENDS Naturals, FiniteSets

CONSTANTS
    Clients,       \* one request each; a client is also its own certificate
                   \* and its own address
    Profiles,      \* client -> the requests it may make, see Profile
    Servers,       \* "asgi", "stdlib", and "tls": stdlib with a TLSConfig
                   \* that asks for a certificate and does not require it
    MAX_BODY,
    PoolSize,      \* threads of asyncio.to_thread
    None

(* What a client sends.  `declared` is Content-Length, None if absent;     *)
(* `claims` whom its X-Client-* and X-Real-IP headers name; `twice` how    *)
(* some other header is repeated, in the same letters or with another      *)
(* case; `fat` whether headers are over MAX_HEADER_BYTES.                  *)
Profile == [via : {"edge", "direct"}, method : {"POST", "GET"}, cert : BOOLEAN,
            declared : Nat \cup {None}, size : Nat,
            claims : Clients \cup {None}, twice : {"no", "same", "cased"}, fat : BOOLEAN]

ASSUME Offered ==
    /\ Profiles \in [Clients -> SUBSET Profile]
    /\ Servers \subseteq {"asgi", "stdlib", "tls"}
    /\ MAX_BODY \in Nat
    /\ PoolSize \in Nat \ {0}

VARIABLES
    server, req,   \* chosen at the start
    sent,          \* pieces each client has put on the wire
    closed,        \* clients that have hung up, or were cut off
    greeting,      \* listener -> the client whose TLS handshake it is in
    opened,        \* clients whose connection has a handler
    edge,          \* the edge's handler: "none", "read", "wait", "done"
    app,           \* the server's handler: "none", "begin", "read", "queued",
                   \* "running", "done"
    got,           \* pieces that the handler reading has received
    dispatched,    \* what dispatch was called with, as a set of calls
    answers        \* what each client was answered

vars == <<server, req, sent, closed, greeting, opened, edge, app, got, dispatched, answers>>
listen == <<greeting, opened>>
wire == <<server, req, sent, closed, listen>>
handlers == <<edge, app, got, dispatched, answers>>

Init ==
    /\ server \in Servers
    /\ req \in {f \in [Clients -> UNION {Profiles[c] : c \in Clients}] :
                  /\ \A c \in Clients : f[c] \in Profiles[c]
                  \* the edge speaks plain HTTP to its upstream
                  /\ server = "tls" => \A c \in Clients : f[c].via = "direct"}
    /\ sent = [c \in Clients |-> 0]
    /\ closed = {}
    /\ greeting = [l \in {"edge", "server"} |-> None]
    /\ opened = {}
    /\ edge = [c \in Clients |-> "none"]
    /\ app = [c \in Clients |-> "none"]
    /\ got = [c \in Clients |-> 0]
    /\ dispatched = [c \in Clients |-> {}]
    /\ answers = [c \in Clients |-> {}]

----------------------------------------------------------------------------
(* Clients (external). *)

SendPiece(c) ==
    /\ c \in opened \ closed
    /\ sent[c] < req[c].size
    /\ sent' = [sent EXCEPT ![c] = @ + 1]
    /\ UNCHANGED <<server, req, closed, listen, handlers>>

HangUp(c) ==
    /\ c \notin closed
    /\ closed' = closed \cup {c}
    /\ UNCHANGED <<server, req, sent, listen, handlers>>

----------------------------------------------------------------------------
(* Listening: one thread accepts connections and gives each its handler.   *)
(* On a TLS socket that thread also shakes hands, and waits for the client *)
(* as long as that takes: a handler's timeout is not set yet.  uvicorn     *)
(* shakes hands in its event loop.                                         *)

Door(c) == IF req[c].via = "edge" THEN "edge" ELSE "server"
Secured(c) == req[c].via = "edge" \/ server = "tls"

Accept(c) ==
    /\ c \notin opened \cup closed
    /\ greeting[Door(c)] = None
    /\ \/ Secured(c) /\ greeting' = [greeting EXCEPT ![Door(c)] = c] /\ UNCHANGED opened
       \/ ~Secured(c) /\ opened' = opened \cup {c} /\ UNCHANGED greeting
    /\ UNCHANGED <<server, req, sent, closed, handlers>>

(* The client does its part.  The edge has CERT_REQUIRED, so that its      *)
(* handler never meets a client without one.                               *)
Greet(c) ==
    /\ greeting[Door(c)] = c
    /\ c \notin closed
    /\ greeting' = [greeting EXCEPT ![Door(c)] = None]
    /\ \/ Door(c) = "edge" /\ ~req[c].cert /\ closed' = closed \cup {c} /\ UNCHANGED opened
       \/ (Door(c) = "edge" => req[c].cert) /\ opened' = opened \cup {c} /\ UNCHANGED closed
    /\ UNCHANGED <<server, req, sent, handlers>>

(* A handshake that breaks off is an OSError in get_request: the next one. *)
GreetingBreaks(c) ==
    /\ greeting[Door(c)] = c
    /\ c \in closed
    /\ greeting' = [greeting EXCEPT ![Door(c)] = None]
    /\ UNCHANGED <<server, req, sent, closed, opened, handlers>>

(* A response reaches its client, unless that one is gone. *)
Deliver(c, status) ==
    answers' = IF c \in closed THEN answers ELSE [answers EXCEPT ![c] = @ \cup {status}]

----------------------------------------------------------------------------
(* The edge, mtlsedge.py: Handler._handle. *)

Oversized(c) == IF req[c].declared = None THEN TRUE ELSE req[c].declared > MAX_BODY

EdgeEnds(c, status) ==
    /\ Deliver(c, status)
    /\ edge' = [edge EXCEPT ![c] = "done"]

EdgeBegin(c) ==
    /\ req[c].via = "edge"
    /\ c \in opened
    /\ edge[c] = "none"
    /\ \/ req[c].method = "POST" /\ Oversized(c) /\ EdgeEnds(c, 413) /\ UNCHANGED app
       \/ /\ req[c].method = "POST" /\ ~Oversized(c)
          /\ edge' = [edge EXCEPT ![c] = "read"]
          /\ UNCHANGED <<app, answers>>
       \/ /\ req[c].method = "GET"
          /\ edge' = [edge EXCEPT ![c] = "wait"]
          /\ app' = [app EXCEPT ![c] = "begin"]
          /\ UNCHANGED answers
    /\ UNCHANGED <<wire, got, dispatched>>

(* rfile.read: all of it, or a timeout, or a short body.  Then the request *)
(* is sent on, with its body whole.                                        *)
EdgeReads(c) ==
    /\ edge[c] = "read"
    /\ got[c] < req[c].declared
    /\ got[c] < sent[c]
    /\ got' = [got EXCEPT ![c] = @ + 1]
    /\ UNCHANGED <<wire, edge, app, dispatched, answers>>

EdgeForwards(c) ==
    /\ edge[c] = "read"
    /\ got[c] = req[c].declared
    /\ edge' = [edge EXCEPT ![c] = "wait"]
    /\ app' = [app EXCEPT ![c] = "begin"]
    /\ got' = [got EXCEPT ![c] = 0]
    /\ UNCHANGED <<wire, dispatched, answers>>

(* Mistake: a body that does not come whole is refused and sent on. *)
EdgeRefusesAndForwards(c) ==
    /\ edge[c] = "read"
    /\ got[c] = sent[c]
    /\ got[c] < req[c].declared
    /\ EdgeEnds(c, IF c \in closed THEN 400 ELSE 408)
    /\ app' = [app EXCEPT ![c] = "begin"]
    /\ got' = [got EXCEPT ![c] = 0]
    /\ UNCHANGED <<wire, dispatched>>

EdgeGivesUpReading(c) ==
    /\ edge[c] = "read"
    /\ got[c] = sent[c]
    /\ got[c] < req[c].declared
    /\ EdgeEnds(c, IF c \in closed THEN 400 ELSE 408)
    /\ UNCHANGED <<wire, app, got, dispatched>>

(* Thirty seconds, or no connection: the server may still be at it. *)
EdgeGivesUpWaiting(c) ==
    /\ edge[c] = "wait"
    /\ EdgeEnds(c, 502)
    /\ app' \in {app, IF app[c] = "begin" THEN [app EXCEPT ![c] = "done"] ELSE app}
    /\ UNCHANGED <<wire, got, dispatched>>

(* What the request looks like to the server.  The edge drops the client's *)
(* own identity headers and writes those of the certificate.               *)
EdgeHeaders(c) == [named |-> c, address |-> c]

(* Mistake: the edge adds its headers and lets the client's through. *)
EdgeHeadersKept(c) ==
    IF req[c].claims = None THEN EdgeHeaders(c) ELSE [named |-> req[c].claims, address |-> req[c].claims]
Headers_kept(c) == IF req[c].via = "edge" THEN EdgeHeadersKept(c) ELSE EdgeHeaders(req[c].claims)

Headers(c) == IF req[c].via = "edge" THEN EdgeHeaders(c) ELSE EdgeHeaders(req[c].claims)

----------------------------------------------------------------------------
(* The server. *)

(* Its answer goes to the edge, if that still waits, or to the client. *)
AppEnds(c, status) ==
    /\ app' = [app EXCEPT ![c] = "done"]
    /\ IF req[c].via = "edge"
       THEN \/ edge[c] = "wait" /\ EdgeEnds(c, status)
            \/ edge[c] # "wait" /\ UNCHANGED <<edge, answers>>
       ELSE Deliver(c, status) /\ UNCHANGED edge

Arrives(c) ==
    IF req[c].via = "edge" THEN app[c] = "begin" ELSE c \in opened /\ app[c] = "none"

(* The edge's headers are a dict: a header repeated in the same letters    *)
(* goes on once, in other letters twice.                                   *)
duplicate(c) == req[c].twice \in (IF req[c].via = "edge" THEN {"cased"} ELSE {"same", "cased"})

(* What is refused before the body: in asgi.py's app, oversized or         *)
(* repeated headers and a declared length over the limit; in server.py's   *)
(* _read_body a length that is missing or over the limit.                  *)
RefusedAtOnce(c) ==
    IF server = "asgi"
    THEN IF req[c].fat THEN 431
         ELSE IF duplicate(c) THEN 400
         ELSE IF req[c].declared # None /\ req[c].declared > MAX_BODY THEN 413
         ELSE 0
    ELSE IF req[c].method = "POST" /\ Oversized(c) THEN 400 ELSE 0

AppBegins(c) ==
    /\ Arrives(c)
    /\ \/ RefusedAtOnce(c) # 0 /\ AppEnds(c, RefusedAtOnce(c))
       \/ /\ RefusedAtOnce(c) = 0
          /\ app' = [app EXCEPT ![c] = IF req[c].method = "POST" THEN "read" ELSE "queued"]
          /\ UNCHANGED <<edge, answers>>
    /\ UNCHANGED <<wire, got, dispatched>>

(* Pieces on the wire to the server: the edge has sent everything. *)
Offering(c) == IF req[c].via = "edge" THEN req[c].declared ELSE sent[c]
Length(c) == IF req[c].declared # None THEN req[c].declared ELSE req[c].size

(* The next piece.  Without a declared length, which only the ASGI app     *)
(* reads, a body that grows over the limit is refused.                     *)
AppReads(c) ==
    /\ app[c] = "read"
    /\ got[c] < Length(c)
    /\ got[c] < Offering(c)
    /\ got' = [got EXCEPT ![c] = @ + 1]
    /\ IF got'[c] > MAX_BODY THEN AppEnds(c, 413) ELSE UNCHANGED <<edge, app, answers>>
    /\ UNCHANGED <<wire, dispatched>>

(* Mistake: what has arrived when the client stops is taken for the body. *)
AppTakesWhatCame(c) ==
    /\ app[c] = "read"
    /\ got[c] = Offering(c)
    /\ app' = [app EXCEPT ![c] = "queued"]
    /\ UNCHANGED <<wire, edge, got, dispatched, answers>>

AppHasBody(c) ==
    /\ app[c] = "read"
    /\ got[c] = Length(c)
    /\ app' = [app EXCEPT ![c] = "queued"]
    /\ UNCHANGED <<wire, edge, got, dispatched, answers>>

(* Whoever is connected to the server has gone. *)
PeerGone(c) == IF req[c].via = "edge" THEN edge[c] = "done" ELSE c \in closed

(* The client stalls for ten seconds, or hangs up.  uvicorn may tell of    *)
(* the disconnect though all has arrived.                                  *)
AppGivesUpReading(c) ==
    /\ app[c] = "read"
    /\ \/ server = "asgi" /\ got[c] = Offering(c) /\ got[c] < Length(c) /\ ~PeerGone(c) /\ AppEnds(c, 408)
       \/ server = "asgi" /\ PeerGone(c) /\ app' = [app EXCEPT ![c] = "done"] /\ UNCHANGED <<edge, answers>>
       \/ server # "asgi" /\ got[c] = Offering(c) /\ got[c] < Length(c) /\ AppEnds(c, 400)
    /\ UNCHANGED <<wire, got, dispatched>>

(* Mistake: any peer's identity headers are believed. *)
trusted_any(c) == TRUE

(* from_trusted_proxy: trusted_proxies is the edge's network. *)
trusted(c) == req[c].via = "edge"

(* asgi.py: what a trusted proxy's headers say. *)
forwarded_workload(c) == IF trusted(c) THEN Headers(c).named ELSE None

(* server.py: the certificate of a client that connects itself over TLS. *)
_peer_workload(c) == IF server = "tls" /\ req[c].cert THEN c ELSE None

workload(c) == IF server = "asgi" THEN forwarded_workload(c) ELSE _peer_workload(c)

(* client_address (asgi.py); self.client_address[0] (server.py). *)
peer(c) == IF req[c].via = "edge" THEN "edge" ELSE c
client_address(c) ==
    IF server = "asgi" /\ trusted(c) /\ Headers(c).address # None THEN Headers(c).address ELSE peer(c)

Running == {c \in Clients : app[c] = "running"}

(* asyncio.to_thread waits for a thread of the pool; the stdlib server has *)
(* a thread for every connection.                                          *)
Dispatch(c) ==
    /\ app[c] = "queued"
    /\ server = "asgi" => Cardinality(Running) < PoolSize
    /\ app' = [app EXCEPT ![c] = "running"]
    /\ dispatched' = [dispatched EXCEPT ![c] = @ \cup
          {[body |-> got[c], workload |-> workload(c), client |-> client_address(c)]}]
    /\ UNCHANGED <<wire, edge, got, answers>>

(* Mistake: a thread of the pool that finished for a client that is gone   *)
(* is not given back.                                                      *)
FinishIfHeard(c) ==
    /\ app[c] = "running"
    /\ c \notin closed
    /\ AppEnds(c, 200)
    /\ UNCHANGED <<wire, got, dispatched>>

(* dispatch returns, whoever is still there to hear it; 200 stands for any *)
(* answer of its own.                                                      *)
Finish(c) ==
    /\ app[c] = "running"
    /\ AppEnds(c, 200)
    /\ UNCHANGED <<wire, got, dispatched>>

HandlerStep(c) ==
    \/ Accept(c)
    \/ GreetingBreaks(c)
    \/ EdgeBegin(c)
    \/ EdgeReads(c)
    \/ EdgeForwards(c)
    \/ EdgeGivesUpReading(c)
    \/ AppBegins(c)
    \/ AppReads(c)
    \/ AppHasBody(c)
    \/ AppGivesUpReading(c)
    \/ Dispatch(c)
    \/ Finish(c)

Next == \E c \in Clients : SendPiece(c) \/ HangUp(c) \/ Greet(c) \/ HandlerStep(c) \/ EdgeGivesUpWaiting(c)

(* Handlers run, their timeouts fire, and dispatch returns, as it does     *)
(* with SQLite and servers that read (HarnessLocks, McpUpstream).          *)
Fairness == \A c \in Clients : WF_vars(HandlerStep(c))

Spec == Init /\ [][Next]_vars /\ Fairness

----------------------------------------------------------------------------
TypeOK ==
    /\ server \in Servers
    /\ \A c \in Clients : req[c] \in Profiles[c]
    /\ \A c \in Clients : sent[c] \in 0 .. req[c].size
    /\ closed \subseteq Clients
    /\ greeting \in [{"edge", "server"} -> Clients \cup {None}]
    /\ opened \subseteq Clients
    /\ edge \in [Clients -> {"none", "read", "wait", "done"}]
    /\ app \in [Clients -> {"none", "begin", "read", "queued", "running", "done"}]
    /\ \A c \in Clients : got[c] <= MAX_BODY + 1
    /\ Cardinality(Running) <= IF server = "asgi" THEN PoolSize ELSE Cardinality(Clients)

(* The API sees a body only when all of it has arrived and it is within    *)
(* the limit, whatever the client declared, sent or left out, and sees     *)
(* each request once (asgi.py app, server.py _read_body, mtlsedge _handle). *)
WholeBodiesOnly ==
    \A c \in Clients :
       /\ Cardinality(dispatched[c]) <= 1
       /\ \A d \in dispatched[c] :
             req[c].method = "POST" =>
                d.body = Length(c) /\ d.body <= sent[c] /\ d.body <= MAX_BODY

(* The workload and the address that tokens and limits are checked against *)
(* are the client's own, or none, or the edge's address, whatever its      *)
(* headers claim (forwarded_workload, client_address, the edge's STRIP).   *)
IdentityIsThePeers ==
    \A c \in Clients : \A d \in dispatched[c] :
       d.workload \in {None, c} /\ d.client \in {c, "edge"}

(* A client that is refused by a transport can try again safely: only 502  *)
(* leaves it open whether the API saw the request.  And no client is       *)
(* answered twice (send_response, _fail).                                  *)
RefusedWasNotSeen ==
    \A c \in Clients :
       /\ Cardinality(answers[c]) <= 1
       /\ answers[c] \cap {400, 408, 413, 431} # {} => dispatched[c] = {} /\ app[c] \notin {"queued", "running"}

(* Every request is answered unless its client hangs up: slow clients, a   *)
(* full pool and clients that went away keep no other from its answer      *)
(* (BODY_CHUNK_TIMEOUT_SECONDS, to_thread) - as long as no client leaves   *)
(* its TLS handshake unfinished for ever, which nothing bounds.            *)
EveryClientIsAnswered ==
    (\A l \in {"edge", "server"} : []<>(greeting[l] = None))
       => \A c \in Clients : <>(answers[c] # {} \/ c \in closed)
============================================================================
