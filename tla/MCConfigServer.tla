--------------------------- MODULE MCConfigServer ---------------------------
(* Two connections at a time, whose pcbs and heap blocks are reused.         *)
EXTENDS ConfigServer, TLC

CONSTANTS p1, p2, b1, b2, u, v

MCPcb == {p1, p2}
MCBlock == {b1, b2}
MCValue == {u, v}

Full(x) == [f \in Params |-> x]

\* A complete form, one without ssid, one with the ssid only, the plain page,
\* and the probe of a captive portal, which is redirected.
MCRequests ==
    { [setup |-> TRUE, params |-> Full(u)],
      [setup |-> TRUE, params |-> [f \in Params \ {"ssid"} |-> v]],
      [setup |-> TRUE, params |-> ("ssid" :> v)],
      [setup |-> TRUE, params |-> << >>],
      [setup |-> FALSE, params |-> << >>] }
=============================================================================
