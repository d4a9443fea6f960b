---------------------------- MODULE MCDhcpServer ----------------------------
(* Three clients compete for two addresses.  The counter has eight values,   *)
(* the table keeps every second one, and a lease lasts two: a lease expires, *)
(* and its entry looks fresh again, within one turn of the counter.          *)
EXTENDS DhcpServer

CONSTANTS c1, c2, c3

MCClient == {c1, c2, c3}
=============================================================================
