---------------------------- MODULE MCTlsClient -----------------------------
(* Three states and three control blocks, which successive uploads reuse and *)
(* failed ones use up; the heap has room for two configurations only.       *)
EXTENDS TlsClient

CONSTANTS b1, b2, b3, p1, p2, p3

MCBlock == {b1, b2, b3}
MCPcb == {p1, p2, p3}
=============================================================================
