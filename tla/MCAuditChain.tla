---------------------------- MODULE MCAuditChain ----------------------------
(* AuditChain with one process on a file, and two on a stream of a table.  *)
EXTENDS AuditChain

CONSTANTS w1, w2

MCSharing == [file |-> {w1}, table |-> {w1, w2}]
MCFile == [file |-> {w1}]
============================================================================
