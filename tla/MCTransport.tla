---------------------------- MODULE MCTransport -----------------------------
(* A client that may do anything at all, and an honest one, on a pool of   *)
(* one thread.                                                             *)
EXTENDS Transport

CONSTANTS c1, c2

Honest == [via |-> "direct", method |-> "POST", cert |-> TRUE, declared |-> 1, size |-> 1,
           claims |-> None, twice |-> "no", fat |-> FALSE]

(* Any body: declared or not, short, over the limit; via either way. *)
Bodies == [via : {"edge", "direct"}, method : {"POST"}, cert : {TRUE},
           declared : {0, 1, MAX_BODY, MAX_BODY + 1, None}, size : {0, 1, MAX_BODY + 1},
           claims : {c2}, twice : {"no"}, fat : {FALSE}]

(* Any headers. *)
Heads == [via : {"edge", "direct"}, method : {"POST", "GET"}, cert : BOOLEAN,
          declared : {1}, size : {1}, claims : {c2, None}, twice : {"no", "same", "cased"}, fat : {FALSE}]
         \cup {[Honest EXCEPT !.fat = TRUE]}

MCProfiles == [c \in Clients |->
    IF c = c1 THEN Bodies \cup Heads
    ELSE {Honest, [Honest EXCEPT !.via = "edge"]}]
============================================================================
