-------------------------- MODULE Transport_proofs --------------------------
(***************************************************************************)
(* What reaches dispatch, and what its client is told, for any number of   *)
(* clients, any requests, body limit and pool.                             *)
(***************************************************************************)
EXTENDS Transport, FiniteSetTheorems, TLAPS

Refusals == {400, 408, 413, 431}

Shape ==
    /\ server \in Servers
    /\ req \in [Clients -> Profile]
    /\ sent \in [Clients -> Nat] /\ got \in [Clients -> Nat]
    /\ edge \in [Clients -> {"none", "read", "wait", "done"}]
    /\ app \in [Clients -> {"none", "begin", "read", "queued", "running", "done"}]
    /\ dispatched = [c \in Clients |-> dispatched[c]]
    /\ answers = [c \in Clients |-> answers[c]]

(* A handler of the server exists for a client of the edge only once the   *)
(* edge has the whole body; for another client there is no edge.           *)
Placed(c) ==
    IF req[c].via = "edge"
    THEN /\ edge[c] \in {"none", "read"} => app[c] = "none"
         /\ edge[c] = "none" => got[c] = 0
         /\ app[c] # "none" /\ req[c].method = "POST" => ~Oversized(c) /\ req[c].declared <= sent[c]
    ELSE edge[c] = "none" /\ app[c] # "begin" /\ (app[c] = "none" => got[c] = 0)

(* What was read of a body.                                                *)
Reading(c) ==
    /\ edge[c] = "read" => /\ req[c].method = "POST" /\ ~Oversized(c)
                           /\ got[c] <= sent[c] /\ got[c] <= req[c].declared
    /\ app[c] = "begin" => got[c] = 0
    /\ app[c] = "read" => /\ req[c].method = "POST"
                          /\ req[c].declared # None => req[c].declared <= MAX_BODY
                          /\ got[c] <= Length(c) /\ got[c] <= Offering(c) /\ got[c] <= MAX_BODY
    /\ app[c] \in {"queued", "running"} /\ req[c].method = "POST" =>
         got[c] = Length(c) /\ got[c] <= sent[c] /\ got[c] <= MAX_BODY

(* What dispatch was called with.                                          *)
Dispatched(c) ==
    /\ app[c] \in {"none", "begin", "read", "queued"} => dispatched[c] = {}
    /\ dispatched[c] = {} \/ \E d : dispatched[c] = {d}
    /\ \A d \in dispatched[c] :
         /\ req[c].method = "POST" => d.body = Length(c) /\ d.body <= sent[c] /\ d.body <= MAX_BODY
         /\ d.workload \in {None, c} /\ d.client \in {c, "edge"}

(* What the client was told, and by whom.                                  *)
Told(c) ==
    /\ answers[c] = {} \/ \E a : answers[c] = {a}
    /\ answers[c] # {} => IF req[c].via = "edge" THEN edge[c] = "done" ELSE app[c] = "done"
    /\ answers[c] \cap Refusals # {} => dispatched[c] = {} /\ app[c] \in {"none", "done"}

Client(c) == Placed(c) /\ Reading(c) /\ Dispatched(c) /\ Told(c)

TrInv == Shape /\ \A c \in Clients : Client(c)

----------------------------------------------------------------------------
(* A step changes what is kept of one client.                              *)
Same(d) ==
    /\ edge'[d] = edge[d] /\ app'[d] = app[d] /\ got'[d] = got[d]
    /\ dispatched'[d] = dispatched[d] /\ answers'[d] = answers[d]

(* A client that a step leaves alone keeps its part of the invariant.      *)
LEMMA Frame ==
    ASSUME Shape, UNCHANGED <<server, req>>, NEW d \in Clients, Client(d), Same(d),
           sent'[d] \in Nat, sent[d] <= sent'[d]
    PROVE  Client(d)'
<1>1. /\ req[d] \in Profile /\ sent[d] \in Nat /\ got[d] \in Nat
      /\ req[d].declared \in Nat \cup {None} /\ req[d].size \in Nat
  BY DEF Shape, Profile
<1>2. Placed(d)'
  BY <1>1 DEF Client, Placed, Same, Oversized
<1>3. Reading(d)'
  BY <1>1 DEF Client, Placed, Reading, Same, Oversized, Length, Offering
<1>4. Length(d) \in Nat /\ Length(d)' = Length(d) /\ MAX_BODY \in Nat
  BY <1>1, Offered DEF Length
<1>5. Dispatched(d)'
  BY <1>1, <1>4 DEF Client, Dispatched, Same
<1>6. Told(d)'
  BY DEF Client, Told, Same
<1> QED BY <1>2, <1>3, <1>5, <1>6 DEF Client

(* A step of one client that leaves all it should.                         *)
Touches(c) ==
    /\ UNCHANGED <<server, req>> /\ Shape'
    /\ \A d \in Clients : d # c => Same(d)
    /\ \A d \in Clients : sent[d] <= sent'[d]

(* The facts about one client that every step starts from.                 *)
LEMMA Known ==
    ASSUME TrInv, NEW c \in Clients
    PROVE  /\ Shape /\ Client(c)
           /\ req[c].via \in {"edge", "direct"} /\ req[c].method \in {"POST", "GET"}
           /\ req[c].declared \in Nat \cup {None} /\ req[c].size \in Nat
           /\ sent[c] \in Nat /\ got[c] \in Nat /\ MAX_BODY \in Nat /\ Length(c) \in Nat
           /\ edge[c] \in {"none", "read", "wait", "done"}
           /\ app[c] \in {"none", "begin", "read", "queued", "running", "done"}
           /\ server \in {"asgi", "stdlib", "tls"}
<1>1. req[c] \in Profile
  BY DEF TrInv, Shape
<1>2. /\ req[c].via \in {"edge", "direct"} /\ req[c].method \in {"POST", "GET"}
      /\ req[c].declared \in Nat \cup {None} /\ req[c].size \in Nat
  BY <1>1 DEF Profile
<1> QED BY <1>2, Offered DEF TrInv, Shape, Length

(* It is enough that the step's own client is left well.                   *)
LEMMA OneClient ==
    ASSUME TrInv, NEW c \in Clients, Touches(c), Client(c)'
    PROVE  TrInv'
<1>1. ASSUME NEW d \in Clients, d # c PROVE Client(d)'
  <2>1. sent'[d] \in Nat
    BY DEF Touches, Shape
  <2> QED BY <1>1, <2>1, Frame DEF TrInv, Touches
<1> QED BY <1>1 DEF TrInv, Touches

(* The client's own doings, and the listener's.                            *)
LEMMA ClientSteps ==
    ASSUME TrInv, NEW c \in Clients,
           SendPiece(c) \/ HangUp(c) \/ Accept(c) \/ Greet(c) \/ GreetingBreaks(c)
    PROVE  TrInv'
<1>1. UNCHANGED <<server, req, handlers>>
  BY DEF SendPiece, HangUp, Accept, Greet, GreetingBreaks
<1>2. sent' \in [Clients -> Nat] /\ \A d \in Clients : sent[d] <= sent'[d]
  <2>1. sent \in [Clients -> Nat]
    BY DEF TrInv, Shape
  <2>2. sent' = sent \/ sent' = [sent EXCEPT ![c] = @ + 1]
    BY DEF SendPiece, HangUp, Accept, Greet, GreetingBreaks
  <2> QED BY <2>1, <2>2
<1>3. \A d \in Clients : Same(d)
  BY <1>1 DEF Same, handlers
<1>4. Shape'
  BY <1>1, <1>2 DEF TrInv, Shape, handlers
<1>5. ASSUME NEW d \in Clients PROVE Client(d)'
  <2>1. sent'[d] \in Nat
    BY <1>2
  <2> QED BY <1>1, <1>2, <1>3, <2>1, Frame DEF TrInv
<1> QED BY <1>4, <1>5 DEF TrInv

(* An answer delivered: one, or none to a client that is gone.             *)
LEMMA Delivering ==
    ASSUME Shape, NEW c \in Clients, NEW status, Deliver(c, status)
    PROVE  /\ answers' = [d \in Clients |-> answers'[d]]
           /\ \A d \in Clients : d # c => answers'[d] = answers[d]
           /\ answers'[c] = answers[c] \/ answers'[c] = answers[c] \cup {status}
  BY DEF Shape, Deliver

(* The edge ends.                                                          *)
LEMMA EdgeEnding ==
    ASSUME Shape, NEW c \in Clients, NEW status, EdgeEnds(c, status)
    PROVE  /\ edge' \in [Clients -> {"none", "read", "wait", "done"}] /\ edge'[c] = "done"
           /\ answers' = [d \in Clients |-> answers'[d]]
           /\ \A d \in Clients : d # c => edge'[d] = edge[d] /\ answers'[d] = answers[d]
           /\ answers'[c] = answers[c] \/ answers'[c] = answers[c] \cup {status}
<1>1. edge' = [edge EXCEPT ![c] = "done"] /\ Deliver(c, status)
  BY DEF EdgeEnds
<1>2. /\ edge' \in [Clients -> {"none", "read", "wait", "done"}] /\ edge'[c] = "done"
      /\ \A d \in Clients : d # c => edge'[d] = edge[d]
  BY <1>1 DEF Shape
<1> QED BY <1>1, <1>2, Delivering

(* The server ends.                                                        *)
LEMMA AppEnding ==
    ASSUME Shape, NEW c \in Clients, NEW status, AppEnds(c, status)
    PROVE  /\ app' \in [Clients -> {"none", "begin", "read", "queued", "running", "done"}]
           /\ app'[c] = "done"
           /\ edge' \in [Clients -> {"none", "read", "wait", "done"}]
           /\ answers' = [d \in Clients |-> answers'[d]]
           /\ \A d \in Clients : d # c =>
                app'[d] = app[d] /\ edge'[d] = edge[d] /\ answers'[d] = answers[d]
           /\ IF req[c].via = "edge" /\ edge[c] = "wait" THEN edge'[c] = "done" ELSE edge'[c] = edge[c]
           /\ \/ answers'[c] = answers[c]
              \/ /\ answers'[c] = answers[c] \cup {status}
                 /\ req[c].via = "edge" => edge[c] = "wait"
<1>1. /\ app' \in [Clients -> {"none", "begin", "read", "queued", "running", "done"}]
      /\ app'[c] = "done" /\ \A d \in Clients : d # c => app'[d] = app[d]
  BY DEF AppEnds, Shape
<1>2. CASE req[c].via = "edge" /\ edge[c] = "wait"
  <2>1. EdgeEnds(c, status)
    BY <1>2 DEF AppEnds
  <2> QED BY <1>1, <1>2, <2>1, EdgeEnding
<1>3. CASE req[c].via = "edge" /\ edge[c] # "wait"
  <2>1. UNCHANGED <<edge, answers>>
    BY <1>3 DEF AppEnds
  <2> QED BY <1>1, <1>3, <2>1 DEF Shape
<1>4. CASE req[c].via # "edge"
  <2>1. Deliver(c, status) /\ UNCHANGED edge
    BY <1>4 DEF AppEnds
  <2> QED BY <1>1, <1>4, <2>1, Delivering DEF Shape
<1> QED BY <1>2, <1>3, <1>4

(* A server's handler that ends before dispatch, with any answer, or after *)
(* it, with dispatch's own, leaves its client well.                        *)
LEMMA AppEndKeeps ==
    ASSUME TrInv, NEW c \in Clients, NEW status, AppEnds(c, status),
           UNCHANGED <<wire, dispatched>>,
           got' \in [Clients -> Nat], \A d \in Clients : d # c => got'[d] = got[d],
           req[c].via = "edge" => app[c] # "none",
           \/ app[c] \in {"none", "begin", "read"}
           \/ app[c] = "running" /\ status \notin Refusals
    PROVE  TrInv'
<1>1. Shape /\ Client(c)
  BY Known
<1>2. UNCHANGED <<server, req, sent>>
  BY DEF wire
<1>3. Touches(c)
  <2>1. Shape'
    BY <1>1, <1>2, AppEnding DEF Shape
  <2>2. \A d \in Clients : d # c => Same(d)
    BY <1>1, AppEnding DEF Same
  <2>3. \A d \in Clients : sent[d] <= sent'[d]
    BY <1>1, <1>2 DEF Shape
  <2> QED BY <1>2, <2>1, <2>2, <2>3 DEF Touches
<1>4. /\ app'[c] = "done"
      /\ IF req[c].via = "edge" /\ edge[c] = "wait" THEN edge'[c] = "done" ELSE edge'[c] = edge[c]
      /\ \/ answers'[c] = answers[c]
         \/ /\ answers'[c] = answers[c] \cup {status}
            /\ req[c].via = "edge" => edge[c] = "wait"
  BY <1>1, AppEnding
<1>5. Placed(c)'
  BY <1>1, <1>2, <1>4, Known DEF Client, Placed, Oversized
<1>6. Reading(c)'
  BY <1>1, <1>2, <1>4, <1>5, Known DEF Client, Placed, Reading
<1>7. Dispatched(c)'
  BY <1>1, <1>2, <1>4, Known DEF Client, Dispatched, Length
<1>8. Told(c)'
  <2>1. CASE answers'[c] = answers[c]
    <3>1. Told(c)
      BY <1>1 DEF Client
    <3>2. answers[c] # {} => IF req[c].via = "edge" THEN edge'[c] = "done" ELSE app'[c] = "done"
      BY <1>4, <3>1 DEF Told
    <3>3. answers[c] \cap Refusals # {} => dispatched[c] = {}
      BY <3>1 DEF Told
    <3>4. answers'[c] = {} \/ \E a : answers'[c] = {a}
      BY <2>1, <3>1 DEF Told
    <3> QED BY <1>2, <1>4, <2>1, <3>2, <3>3, <3>4, Zenon DEF Told
  <2>2. CASE /\ answers'[c] = answers[c] \cup {status}
             /\ req[c].via = "edge" => edge[c] = "wait"
    <3>1. answers[c] = {}
      BY <1>1, <2>2 DEF Client, Told
    <3>2. status \in Refusals => dispatched[c] = {}
      BY <1>1 DEF Client, Dispatched
    <3> QED BY <1>2, <1>4, <2>2, <3>1, <3>2 DEF Told
  <2> QED BY <1>4, <2>1, <2>2
<1> QED BY <1>3, <1>5, <1>6, <1>7, <1>8, OneClient DEF Client

(* The edge's handler that ends, with a refusal only before it has sent    *)
(* the request on, leaves its client well.                                 *)
LEMMA EdgeEndKeeps ==
    ASSUME TrInv, NEW c \in Clients, NEW status, EdgeEnds(c, status), req[c].via = "edge",
           edge[c] # "done", status \in Refusals => edge[c] \in {"none", "read"},
           UNCHANGED <<wire, got, dispatched>>,
           app' = app \/ (app[c] = "begin" /\ app' = [app EXCEPT ![c] = "done"])
    PROVE  TrInv'
<1>1. Shape /\ Client(c)
  BY Known
<1>2. UNCHANGED <<server, req, sent, got, dispatched>>
  BY DEF wire
<1>3. /\ app' \in [Clients -> {"none", "begin", "read", "queued", "running", "done"}]
      /\ \A d \in Clients : d # c => app'[d] = app[d]
      /\ app'[c] = app[c] \/ (app[c] = "begin" /\ app'[c] = "done")
  BY <1>1 DEF Shape
<1>4. Touches(c)
  <2>1. Shape'
    BY <1>1, <1>2, <1>3, EdgeEnding DEF Shape
  <2>2. \A d \in Clients : d # c => Same(d)
    BY <1>1, <1>2, <1>3, EdgeEnding DEF Same
  <2>3. \A d \in Clients : sent[d] <= sent'[d]
    BY <1>1, <1>2 DEF Shape
  <2> QED BY <1>2, <2>1, <2>2, <2>3 DEF Touches
<1>5. /\ edge'[c] = "done"
      /\ answers'[c] = answers[c] \/ answers'[c] = answers[c] \cup {status}
  BY <1>1, EdgeEnding
<1>6. Placed(c)'
  BY <1>1, <1>2, <1>3, <1>5, Known DEF Client, Placed, Oversized
<1>7. Reading(c)'
  BY <1>1, <1>2, <1>3, <1>5, Known DEF Client, Placed, Reading, Length, Offering
<1>8. Dispatched(c)'
  <2>1. Dispatched(c) /\ Length(c)' = Length(c)
    BY <1>1, <1>2 DEF Client, Length
  <2>2. app'[c] \in {"none", "begin", "read", "queued"} => dispatched[c] = {}
    BY <1>3, <2>1 DEF Dispatched
  <2> QED BY <1>2, <2>1, <2>2 DEF Dispatched
<1>9. Told(c)'
  <2>1. answers[c] = {}
    BY <1>1 DEF Client, Told
  <2>2. status \in Refusals => app[c] = "none" /\ dispatched[c] = {}
    BY <1>1 DEF Client, Placed, Dispatched
  <2>3. CASE answers'[c] = {}
    BY <2>3 DEF Told
  <2>4. CASE answers'[c] = {status}
    BY <1>2, <1>3, <1>5, <2>2, <2>4 DEF Told
  <2> QED BY <1>5, <2>1, <2>3, <2>4
<1> QED BY <1>4, <1>6, <1>7, <1>8, <1>9, OneClient DEF Client

(* A step before dispatch that answers nothing.                            *)
LEMMA StillToTell ==
    ASSUME TrInv, NEW c \in Clients, UNCHANGED <<wire, dispatched, answers>>,
           edge' \in [Clients -> {"none", "read", "wait", "done"}],
           app' \in [Clients -> {"none", "begin", "read", "queued", "running", "done"}],
           got' \in [Clients -> Nat],
           \A d \in Clients : d # c => edge'[d] = edge[d] /\ app'[d] = app[d] /\ got'[d] = got[d],
           dispatched[c] = {}, answers[c] \cap Refusals = {},
           answers[c] # {} => req[c].via = "edge" /\ edge'[c] = "done",
           Placed(c)', Reading(c)'
    PROVE  TrInv'
<1>1. Shape /\ Client(c)
  BY Known
<1>2. UNCHANGED <<server, req, sent, dispatched, answers>>
  BY DEF wire
<1>3. Touches(c)
  <2>1. Shape'
    BY <1>1, <1>2 DEF Shape
  <2>2. \A d \in Clients : d # c => Same(d)
    BY <1>2 DEF Same
  <2>3. \A d \in Clients : sent[d] <= sent'[d]
    BY <1>1, <1>2 DEF Shape
  <2> QED BY <1>2, <2>1, <2>2, <2>3 DEF Touches
<1>4. Dispatched(c)'
  BY <1>2 DEF Dispatched
<1>5. Told(c)'
  BY <1>1, <1>2 DEF Client, Told
<1> QED BY <1>3, <1>4, <1>5, OneClient DEF Client

(* A request that is with the server and was not dispatched has been       *)
(* answered by nobody but an edge that gave up.                            *)
LEMMA Pending ==
    ASSUME TrInv, NEW c \in Clients,
           app[c] \in {"begin", "read"} \/ (req[c].via # "edge" /\ app[c] = "none")
    PROVE  /\ dispatched[c] = {} /\ answers[c] \cap Refusals = {}
           /\ answers[c] # {} => req[c].via = "edge" /\ edge[c] = "done"
<1>1. Client(c)
  BY Known
<1>2. dispatched[c] = {}
  BY <1>1 DEF Client, Dispatched
<1>3. answers[c] # {} => req[c].via = "edge" /\ edge[c] = "done"
  BY <1>1 DEF Client, Told
<1>4. answers[c] \cap Refusals = {}
  BY <1>1, <1>3 DEF Client, Told
<1> QED BY <1>2, <1>3, <1>4

(* The edge's steps.                                                       *)
LEMMA EdgeSteps ==
    ASSUME TrInv, NEW c \in Clients,
           EdgeBegin(c) \/ EdgeReads(c) \/ EdgeForwards(c) \/ EdgeGivesUpReading(c)
             \/ EdgeGivesUpWaiting(c)
    PROVE  TrInv'
<1>1. Shape /\ Client(c)
  BY Known
<1>2. edge[c] \in {"none", "read"} /\ req[c].via = "edge" =>
        /\ app[c] = "none" /\ dispatched[c] = {} /\ answers[c] = {}
  BY <1>1 DEF Client, Placed, Dispatched, Told
<1>3. edge[c] # "none" => req[c].via = "edge"
  BY <1>1, Known DEF Client, Placed
<1>4. CASE EdgeBegin(c)
  <2>1. req[c].via = "edge" /\ edge[c] = "none" /\ UNCHANGED <<wire, got, dispatched>>
    BY <1>4 DEF EdgeBegin
  <2>2. UNCHANGED <<server, req, sent>>
    BY <2>1 DEF wire
  <2>3. got[c] = 0
    BY <1>1, <2>1 DEF Client, Placed
  <2>4. CASE req[c].method = "POST" /\ Oversized(c) /\ EdgeEnds(c, 413) /\ UNCHANGED app
    BY <2>1, <2>4, EdgeEndKeeps
  <2>5. CASE /\ req[c].method = "POST" /\ ~Oversized(c)
             /\ edge' = [edge EXCEPT ![c] = "read"]
             /\ UNCHANGED <<app, answers>>
    <3>1. /\ edge' \in [Clients -> {"none", "read", "wait", "done"}] /\ edge'[c] = "read"
          /\ \A d \in Clients : d # c => edge'[d] = edge[d]
      BY <1>1, <2>5 DEF Shape
    <3>2. app[c] = "none" /\ app' = app /\ got' = got
      BY <1>2, <2>1, <2>5
    <3>3. Placed(c)' /\ Reading(c)'
      BY <2>1, <2>2, <2>3, <2>5, <3>1, <3>2, Known DEF Placed, Reading, Oversized
    <3> QED BY <1>1, <1>2, <2>1, <2>5, <3>1, <3>2, <3>3, StillToTell DEF Shape
  <2>6. CASE /\ req[c].method = "GET"
             /\ edge' = [edge EXCEPT ![c] = "wait"]
             /\ app' = [app EXCEPT ![c] = "begin"]
             /\ UNCHANGED answers
    <3>1. /\ edge' \in [Clients -> {"none", "read", "wait", "done"}] /\ edge'[c] = "wait"
          /\ app' \in [Clients -> {"none", "begin", "read", "queued", "running", "done"}]
          /\ app'[c] = "begin"
          /\ \A d \in Clients : d # c => edge'[d] = edge[d] /\ app'[d] = app[d]
      BY <1>1, <2>6 DEF Shape
    <3>2. Placed(c)' /\ Reading(c)'
      BY <2>1, <2>2, <2>3, <2>6, <3>1, Known DEF Placed, Reading
    <3> QED BY <1>1, <1>2, <2>1, <2>6, <3>1, <3>2, StillToTell DEF Shape
  <2> QED BY <1>4, <2>4, <2>5, <2>6 DEF EdgeBegin
<1>5. CASE EdgeReads(c)
  <2>1. /\ edge[c] = "read" /\ got[c] < req[c].declared /\ got[c] < sent[c]
        /\ got' = [got EXCEPT ![c] = @ + 1] /\ UNCHANGED <<wire, edge, app, dispatched, answers>>
    BY <1>5 DEF EdgeReads
  <2>2. UNCHANGED <<server, req, sent>>
    BY <2>1 DEF wire
  <2>3. /\ req[c].method = "POST" /\ ~Oversized(c) /\ req[c].declared \in Nat
    BY <1>1, <2>1, Known DEF Client, Reading, Oversized
  <2>4. /\ got' \in [Clients -> Nat] /\ got'[c] = got[c] + 1
        /\ \A d \in Clients : d # c => got'[d] = got[d]
    BY <1>1, <2>1 DEF Shape
  <2>5. Placed(c)' /\ Reading(c)'
    BY <1>2, <1>3, <2>1, <2>2, <2>3, <2>4, Known DEF Placed, Reading, Oversized
  <2> QED BY <1>1, <1>2, <1>3, <2>1, <2>4, <2>5, StillToTell DEF Shape
<1>6. CASE EdgeForwards(c)
  <2>1. /\ edge[c] = "read" /\ got[c] = req[c].declared
        /\ edge' = [edge EXCEPT ![c] = "wait"] /\ app' = [app EXCEPT ![c] = "begin"]
        /\ got' = [got EXCEPT ![c] = 0] /\ UNCHANGED <<wire, dispatched, answers>>
    BY <1>6 DEF EdgeForwards
  <2>2. UNCHANGED <<server, req, sent>>
    BY <2>1 DEF wire
  <2>3. ~Oversized(c) /\ req[c].declared <= sent[c]
    BY <1>1, <2>1 DEF Client, Reading
  <2>4. /\ edge' \in [Clients -> {"none", "read", "wait", "done"}] /\ edge'[c] = "wait"
        /\ app' \in [Clients -> {"none", "begin", "read", "queued", "running", "done"}]
        /\ app'[c] = "begin" /\ got' \in [Clients -> Nat] /\ got'[c] = 0
        /\ \A d \in Clients : d # c => edge'[d] = edge[d] /\ app'[d] = app[d] /\ got'[d] = got[d]
    BY <1>1, <2>1 DEF Shape
  <2>5. Placed(c)' /\ Reading(c)'
    BY <1>3, <2>1, <2>2, <2>3, <2>4 DEF Placed, Reading, Oversized
  <2> QED BY <1>2, <1>3, <2>1, <2>4, <2>5, StillToTell
<1>7. CASE EdgeGivesUpReading(c)
  <2>1. /\ edge[c] = "read" /\ UNCHANGED <<wire, app, got, dispatched>>
        /\ EdgeEnds(c, IF c \in closed THEN 400 ELSE 408)
    BY <1>7 DEF EdgeGivesUpReading
  <2> QED BY <1>3, <2>1, EdgeEndKeeps
<1>8. CASE EdgeGivesUpWaiting(c)
  <2>1. /\ edge[c] = "wait" /\ UNCHANGED <<wire, got, dispatched>> /\ EdgeEnds(c, 502)
        /\ app' = app \/ (app[c] = "begin" /\ app' = [app EXCEPT ![c] = "done"])
    BY <1>8 DEF EdgeGivesUpWaiting
  <2>2. 502 \notin Refusals
    BY DEF Refusals
  <2> QED BY <1>3, <2>1, <2>2, EdgeEndKeeps
<1> QED BY <1>4, <1>5, <1>6, <1>7, <1>8

(* The server's steps.                                                     *)
LEMMA AppSteps ==
    ASSUME TrInv, NEW c \in Clients,
           AppBegins(c) \/ AppReads(c) \/ AppHasBody(c) \/ AppGivesUpReading(c)
    PROVE  TrInv'
<1>1. Shape /\ Client(c)
  BY Known
<1>3. got' \in [Clients -> Nat] /\ (\A d \in Clients : d # c => got'[d] = got[d])
      /\ (got'[c] = got[c] \/ got'[c] = got[c] + 1)
  <2>1. got' = got \/ got' = [got EXCEPT ![c] = @ + 1]
    BY DEF AppBegins, AppReads, AppHasBody, AppGivesUpReading
  <2> QED BY <1>1, <2>1 DEF Shape
<1>4. ASSUME NEW p \in {"read", "queued", "done"}, app' = [app EXCEPT ![c] = p] 
      PROVE  /\ app' \in [Clients -> {"none", "begin", "read", "queued", "running", "done"}]
             /\ app'[c] = p /\ \A d \in Clients : d # c => app'[d] = app[d]
  BY <1>1, <1>4 DEF Shape
<1>5. app[c] = "read" => /\ req[c].method = "POST" /\ Offering(c) \in Nat /\ got[c] <= Offering(c)
                         /\ req[c].declared # None => req[c].declared <= MAX_BODY
                         /\ got[c] <= Length(c) /\ got[c] <= MAX_BODY
                         /\ Offering(c) <= sent[c]
                         /\ req[c].via = "edge" => ~Oversized(c) /\ req[c].declared <= sent[c]
                                                   /\ edge[c] \in {"wait", "done"}
                         /\ req[c].via # "edge" => edge[c] = "none"
  BY <1>1, Known DEF Client, Reading, Placed, Offering, Oversized
<1>6. CASE AppBegins(c)
  <2>1. Arrives(c) /\ UNCHANGED <<wire, got, dispatched>>
    BY <1>6 DEF AppBegins
  <2>2. UNCHANGED <<server, req, sent, got>>
    BY <2>1 DEF wire
  <2>3. /\ app[c] \in {"none", "begin"} /\ (req[c].via = "edge" => app[c] = "begin")
        /\ (req[c].via # "edge" => app[c] = "none") /\ got[c] = 0
    BY <1>1, <2>1 DEF Arrives, Client, Placed, Reading
  <2>4. CASE RefusedAtOnce(c) # 0 /\ AppEnds(c, RefusedAtOnce(c))
    BY <1>3, <2>1, <2>3, <2>4, AppEndKeeps
  <2>5. CASE /\ RefusedAtOnce(c) = 0
             /\ app' = [app EXCEPT ![c] = IF req[c].method = "POST" THEN "read" ELSE "queued"]
             /\ UNCHANGED <<edge, answers>>
    <3>1. /\ app' \in [Clients -> {"none", "begin", "read", "queued", "running", "done"}]
          /\ app'[c] = (IF req[c].method = "POST" THEN "read" ELSE "queued")
          /\ \A d \in Clients : d # c => app'[d] = app[d]
      BY <1>4, <2>5
    <3>2. req[c].method = "POST" /\ req[c].declared # None => req[c].declared <= MAX_BODY
      <4>1. CASE server = "asgi"
        <5>1. req[c].declared # None => ~(req[c].declared > MAX_BODY)
          BY <2>5, <4>1 DEF RefusedAtOnce
        <5> QED BY <5>1, Known
      <4>2. CASE server # "asgi"
        BY <2>5, <4>2, Known DEF RefusedAtOnce, Oversized
      <4> QED BY <4>1, <4>2
    <3>3. /\ req[c].via = "edge" => /\ edge[c] \notin {"none", "read"}
                                    /\ req[c].method = "POST" => ~Oversized(c) /\ req[c].declared <= sent[c]
          /\ req[c].via # "edge" => edge[c] = "none"
      BY <1>1, <2>3 DEF Client, Placed
    <3>4. Placed(c)'
      BY <2>2, <2>5, <3>1, <3>3 DEF Placed, Oversized
    <3>5. Offering(c) \in Nat \/ req[c].method = "GET"
      BY <3>3, Known DEF Offering, Oversized
    <3>6. Reading(c)'
      <4>1. edge'[c] # "read"
        BY <2>5, <3>3
      <4>2. UNCHANGED <<Length(c), Offering(c)>>
        BY <2>2 DEF Length, Offering
      <4> QED BY <2>2, <2>3, <3>1, <3>2, <3>5, <4>1, <4>2, Known DEF Reading
    <3>7. dispatched[c] = {} /\ answers[c] \cap Refusals = {}
          /\ (answers[c] # {} => req[c].via = "edge" /\ edge[c] = "done")
      BY <2>3, Pending
    <3> QED BY <1>1, <1>3, <2>1, <2>5, <3>1, <3>4, <3>6, <3>7, StillToTell DEF Shape
  <2> QED BY <1>6, <2>4, <2>5 DEF AppBegins
<1>7. CASE AppReads(c)
  <2>1. /\ app[c] = "read" /\ got[c] < Length(c) /\ got[c] < Offering(c)
        /\ got' = [got EXCEPT ![c] = @ + 1]
        /\ IF got'[c] > MAX_BODY THEN AppEnds(c, 413) ELSE UNCHANGED <<edge, app, answers>>
        /\ UNCHANGED <<wire, dispatched>>
    BY <1>7 DEF AppReads
  <2>2. CASE AppEnds(c, 413)
    BY <1>3, <2>1, <2>2, AppEndKeeps
  <2>3. CASE got'[c] <= MAX_BODY /\ UNCHANGED <<edge, app, answers>>
    <3>1. got'[c] = got[c] + 1 /\ UNCHANGED <<server, req, sent, edge, app>>
      BY <1>1, <2>1, <2>3 DEF Shape, wire
    <3>2. Placed(c)'
      BY <1>5, <2>1, <3>1 DEF Placed, Oversized
    <3>3. Reading(c)'
      <4>1. UNCHANGED <<Length(c), Offering(c)>>
        BY <3>1 DEF Length, Offering
      <4>2. edge[c] # "read"
        BY <1>5, <2>1, Known
      <4> QED BY <1>5, <2>1, <2>3, <3>1, <4>1, <4>2, Known DEF Reading
    <3>4. dispatched[c] = {} /\ answers[c] \cap Refusals = {}
          /\ (answers[c] # {} => req[c].via = "edge" /\ edge[c] = "done")
      BY <2>1, Pending
    <3> QED BY <1>1, <1>3, <2>1, <3>1, <2>3, <3>2, <3>3, <3>4, StillToTell DEF Shape
  <2>4. got'[c] \in Nat
    BY <1>3
  <2> QED BY <2>1, <2>2, <2>3, <2>4, Known
<1>8. CASE \/ AppHasBody(c)
           \/ /\ app[c] = "read" /\ app' = [app EXCEPT ![c] = "done"]
              /\ UNCHANGED <<wire, edge, got, dispatched, answers>>
  <2>1. /\ app[c] = "read" /\ UNCHANGED <<wire, edge, got, dispatched, answers>>
        /\ \E p \in {"queued", "done"} : app' = [app EXCEPT ![c] = p] /\ (p = "queued" => got[c] = Length(c))
    BY <1>8 DEF AppHasBody
  <2>2. PICK p \in {"queued", "done"} : app' = [app EXCEPT ![c] = p] /\ (p = "queued" => got[c] = Length(c))
    BY <2>1
  <2>3. /\ app' \in [Clients -> {"none", "begin", "read", "queued", "running", "done"}]
        /\ app'[c] = p /\ \A d \in Clients : d # c => app'[d] = app[d]
    BY <1>4, <2>2
  <2>4. UNCHANGED <<server, req, sent, edge, got>>
    BY <2>1 DEF wire
  <2>5. Placed(c)'
    BY <1>5, <2>1, <2>3, <2>4 DEF Placed, Oversized
  <2>6. Reading(c)'
    <3>1. UNCHANGED <<Length(c), Offering(c)>>
      BY <2>4 DEF Length, Offering
    <3>2. edge[c] # "read"
      BY <1>5, <2>1, Known
    <3> QED BY <1>5, <2>1, <2>2, <2>3, <2>4, <3>1, <3>2, Known DEF Reading
  <2>7. dispatched[c] = {} /\ answers[c] \cap Refusals = {}
        /\ (answers[c] # {} => req[c].via = "edge" /\ edge[c] = "done")
    BY <2>1, Pending
  <2> QED BY <1>1, <1>3, <2>1, <2>3, <2>4, <2>5, <2>6, <2>7, StillToTell DEF Shape
<1>9. CASE AppGivesUpReading(c)
  <2>1. app[c] = "read" /\ UNCHANGED <<wire, got, dispatched>>
    BY <1>9 DEF AppGivesUpReading
  <2>2. CASE AppEnds(c, 408) \/ AppEnds(c, 400)
    BY <1>3, <2>1, <2>2, AppEndKeeps
  <2>3. CASE app' = [app EXCEPT ![c] = "done"] /\ UNCHANGED <<edge, answers>>
    BY <1>8, <2>1, <2>3
  <2> QED BY <1>9, <2>2, <2>3 DEF AppGivesUpReading
<1> QED BY <1>6, <1>7, <1>8, <1>9

(* Dispatch, with a whole body and the identity the transport verified.    *)
LEMMA DispatchStep ==
    ASSUME TrInv, NEW c \in Clients, Dispatch(c)
    PROVE  TrInv'
<1>1. Shape /\ Client(c)
  BY Known
<1> DEFINE call == [body |-> got[c], workload |-> workload(c), client |-> client_address(c)]
<1>2. /\ app[c] = "queued" /\ app' = [app EXCEPT ![c] = "running"]
      /\ dispatched' = [dispatched EXCEPT ![c] = @ \cup {call}]
      /\ UNCHANGED <<wire, edge, got, answers>>
  BY DEF Dispatch
<1>3. UNCHANGED <<server, req, sent, edge, got, answers>>
  BY <1>2 DEF wire
<1>4. /\ app' \in [Clients -> {"none", "begin", "read", "queued", "running", "done"}]
      /\ app'[c] = "running" /\ \A d \in Clients : d # c => app'[d] = app[d]
  BY <1>1, <1>2 DEF Shape
<1>5. /\ call.workload \in {None, c} /\ call.client \in {c, "edge"} /\ call.body = got[c]
  <2>1. workload(c) \in {None, c}
    BY DEF workload, forwarded_workload, _peer_workload, trusted, Headers, EdgeHeaders
  <2>2. client_address(c) \in {c, "edge"}
    BY DEF client_address, trusted, Headers, EdgeHeaders, peer
  <2> QED BY <2>1, <2>2
<1> HIDE DEF call
<1>6. /\ dispatched' = [d \in Clients |-> dispatched'[d]]
      /\ dispatched'[c] = {call} /\ \A d \in Clients : d # c => dispatched'[d] = dispatched[d]
  <2>1. dispatched[c] = {}
    BY <1>1, <1>2 DEF Client, Dispatched
  <2> QED BY <1>1, <1>2, <2>1 DEF Shape
<1>7. Touches(c)
  <2>1. Shape'
    BY <1>1, <1>3, <1>4, <1>6 DEF Shape
  <2>2. \A d \in Clients : d # c => Same(d)
    BY <1>3, <1>4, <1>6 DEF Same
  <2>3. \A d \in Clients : sent[d] <= sent'[d]
    BY <1>1, <1>3 DEF Shape
  <2> QED BY <1>3, <2>1, <2>2, <2>3 DEF Touches
<1>8. UNCHANGED <<Length(c), Offering(c)>>
  BY <1>3 DEF Length, Offering
<1>9. Placed(c)'
  BY <1>1, <1>2, <1>3, <1>4 DEF Client, Placed, Oversized
<1>10. Reading(c)'
  BY <1>1, <1>2, <1>3, <1>4, <1>8 DEF Client, Reading, Oversized
<1>11. Dispatched(c)'
  <2>1. req[c].method = "POST" =>
          call.body = Length(c) /\ call.body <= sent[c] /\ call.body <= MAX_BODY
    BY <1>1, <1>2, <1>5 DEF Client, Reading
  <2> QED BY <1>3, <1>4, <1>5, <1>6, <1>8, <2>1 DEF Dispatched
<1>12. Told(c)'
  <2>1. answers[c] \cap Refusals = {} /\ (answers[c] # {} => req[c].via = "edge" /\ edge[c] = "done")
    BY <1>1, <1>2 DEF Client, Told
  <2>2. answers[c] = {} \/ \E a : answers[c] = {a}
    BY <1>1 DEF Client, Told
  <2> QED BY <1>3, <2>1, <2>2 DEF Told
<1> QED BY <1>7, <1>9, <1>10, <1>11, <1>12, OneClient DEF Client

(* What each client sent, what the handlers have of it, what dispatch saw  *)
(* and what the client was told agree, in every reachable state (asgi.py   *)
(* app, server.py _read_body, mtlsedge.py _handle).                        *)
THEOREM RequestsAreTracked == Spec => []TrInv
<1>1. ASSUME Init PROVE TrInv
  <2>1. /\ server \in Servers /\ sent = [c \in Clients |-> 0]
        /\ edge = [c \in Clients |-> "none"] /\ app = [c \in Clients |-> "none"]
        /\ got = [c \in Clients |-> 0] /\ dispatched = [c \in Clients |-> {}]
        /\ answers = [c \in Clients |-> {}]
    BY <1>1 DEF Init
  <2>2. req \in [Clients -> Profile]
    <3>1. /\ req \in [Clients -> UNION {Profiles[c] : c \in Clients}]
          /\ \A c \in Clients : req[c] \in Profiles[c]
      BY <1>1 DEF Init
    <3> QED BY <3>1, Offered
  <2>3. Shape
    BY <2>1, <2>2 DEF Shape
  <2>4. ASSUME NEW c \in Clients PROVE Client(c)
    BY <2>1 DEF Client, Placed, Reading, Dispatched, Told
  <2> QED BY <2>3, <2>4 DEF TrInv
<1>2. ASSUME TrInv, [Next]_vars PROVE TrInv'
  <2>1. CASE UNCHANGED vars
    <3>1. UNCHANGED <<server, req, sent, edge, app, got, dispatched, answers>>
      BY <2>1 DEF vars
    <3>2. Shape'
      BY <1>2, <3>1 DEF TrInv, Shape
    <3>3. ASSUME NEW d \in Clients PROVE Client(d)'
      <4>1. Same(d) /\ sent'[d] \in Nat /\ sent[d] <= sent'[d]
        BY <1>2, <3>1 DEF Same, TrInv, Shape
      <4> QED BY <1>2, <3>1, <4>1, Frame DEF TrInv
    <3> QED BY <3>2, <3>3 DEF TrInv
  <2>2. ASSUME NEW c \in Clients, Finish(c) PROVE TrInv'
    <3>1. /\ app[c] = "running" /\ AppEnds(c, 200) /\ UNCHANGED <<wire, got, dispatched>>
      BY <2>2 DEF Finish
    <3>2. got' \in [Clients -> Nat] /\ \A d \in Clients : d # c => got'[d] = got[d]
      BY <1>2, <3>1 DEF TrInv, Shape
    <3>3. 200 \notin Refusals
      BY DEF Refusals
    <3> QED BY <1>2, <3>1, <3>2, <3>3, AppEndKeeps
  <2> QED BY <1>2, <2>1, <2>2, ClientSteps, EdgeSteps, AppSteps, DispatchStep DEF Next, HandlerStep
<1> QED BY <1>1, <1>2, PTL DEF Spec

(* The API sees a body only whole and within the limit, and each request   *)
(* once (asgi.py app, server.py _read_body, mtlsedge.py _handle).          *)
THEOREM BodiesAreWhole == Spec => []WholeBodiesOnly
<1>1. ASSUME TrInv PROVE WholeBodiesOnly
  <2>1. ASSUME NEW c \in Clients PROVE Cardinality(dispatched[c]) <= 1
    <3>1. dispatched[c] = {} \/ \E d : dispatched[c] = {d}
      BY <1>1 DEF TrInv, Client, Dispatched
    <3>2. Cardinality({}) = 0 /\ \A d : Cardinality({d}) = 1
      BY FS_EmptySet, FS_Singleton
    <3>3. CASE dispatched[c] = {}
      BY <3>2, <3>3
    <3>4. ASSUME NEW d, dispatched[c] = {d} PROVE Cardinality(dispatched[c]) <= 1
      <4>1. Cardinality(dispatched[c]) = 1
        BY <3>2, <3>4, Zenon
      <4> QED BY <4>1
    <3> QED BY <3>1, <3>3, <3>4
  <2> QED BY <1>1, <2>1 DEF WholeBodiesOnly, TrInv, Client, Dispatched
<1> QED BY <1>1, RequestsAreTracked, PTL

(* Tokens and limits are checked against the client's own identity and     *)
(* address, whatever its headers claim (forwarded_workload,                *)
(* client_address, _peer_workload, the edge's STRIP).                      *)
THEOREM IdentitiesAreThePeers == Spec => []IdentityIsThePeers
<1>1. TrInv => IdentityIsThePeers
  BY DEF IdentityIsThePeers, TrInv, Client, Dispatched
<1> QED BY <1>1, RequestsAreTracked, PTL

(* A request that a transport refused never reached the API and never      *)
(* will, and no client is answered twice (send_response, _fail).           *)
THEOREM RefusalsAreSafe == Spec => []RefusedWasNotSeen
<1>1. ASSUME TrInv PROVE RefusedWasNotSeen
  <2>1. ASSUME NEW c \in Clients PROVE Cardinality(answers[c]) <= 1
    <3>1. answers[c] = {} \/ \E a : answers[c] = {a}
      BY <1>1 DEF TrInv, Client, Told
    <3>2. Cardinality({}) = 0 /\ \A d : Cardinality({d}) = 1
      BY FS_EmptySet, FS_Singleton
    <3>3. CASE answers[c] = {}
      BY <3>2, <3>3
    <3>4. ASSUME NEW d, answers[c] = {d} PROVE Cardinality(answers[c]) <= 1
      <4>1. Cardinality(answers[c]) = 1
        BY <3>2, <3>4, Zenon
      <4> QED BY <4>1
    <3> QED BY <3>1, <3>3, <3>4
  <2> QED BY <1>1, <2>1 DEF RefusedWasNotSeen, TrInv, Client, Told, Refusals
<1> QED BY <1>1, RequestsAreTracked, PTL

============================================================================
