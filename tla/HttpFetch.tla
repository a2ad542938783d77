----------------------------- MODULE HttpFetch ------------------------------
(***************************************************************************)
(* HttpFetchTool.__call__ (tools.py): from a URL to the address its socket *)
(* is connected to.  A URL is what Policy reads of one: "unusable" if it   *)
(* has no http(s) scheme, no valid host, or credentials.  An address is    *)
(* only public or not.                                                     *)
(***************************************************************************)
EXTENDS Naturals, Sequences

CONSTANT AllowedPorts     \* allowed_ports

Refused == [kind |-> "refused"]

(* parts.port or the scheme's default: port 0 counts as none given.        *)
port_of(given, default) == IF given = 0 THEN default ELSE given

(* _PinnedHTTPConnection.connect: to the address given, not to the host.   *)
connect(address, port) == [kind |-> "connected", public |-> address, port |-> port]

(* Mistake: the host is looked up again to connect.                        *)
fetch_by_name(url, given, default, answers) ==
    LET port      == port_of(given, default)
        addresses == IF url.ip THEN <<url.public>> ELSE answers[1]
        again     == IF url.ip THEN <<url.public>> ELSE answers[2]
    IN  IF \/ port \notin AllowedPorts
           \/ addresses = <<>> \/ again = <<>>
           \/ \E i \in 1..Len(addresses) : ~addresses[i]
        THEN Refused ELSE connect(again[1], port)

(* __call__ for a usable URL.  answers[n] is what the resolver says when   *)
(* asked for the n-th time; the code asks once, and not for a literal.     *)
fetch(url, given, default, answers) ==
    LET port      == port_of(given, default)
        addresses == IF url.ip THEN <<url.public>> ELSE answers[1]
    IN  IF \/ port \notin AllowedPorts
           \/ addresses = <<>>
           \/ \E i \in 1..Len(addresses) : ~addresses[i]
        THEN Refused ELSE connect(addresses[1], port)
============================================================================
